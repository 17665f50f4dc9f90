--------------------------- MODULE Backtest_proofs ---------------------------
(* Proofs about the engine: what a signal, an order's quantity and its two *)
(* bodies promise, for every tick, every balance and any number of pairs.  *)
EXTENDS Backtest, TLAPS

ClockValues == 0 .. TsMod - 1 - max_stale_ns

TickType == [venue : Nat, pair : Nat, bid : Int, ask : Int, bid_qty : Int,
             ask_qty : Int, ts : ClockValues, ets : Nat]

SlotType == [bid : Int, ask : Int, bid_qty : Int, ask_qty : Int,
             ts : ClockValues, ets : Nat]

\* Every slot holds a book that a tick could have brought.
StateInv == state \in [Indices -> SlotType]
-----------------------------------------------------------------------------
(* Lemmas about the operators of MarketState and HotPath.                  *)

LEMMA Constants ==
    /\ PAIRS_PER_VENUE \in Nat \ {0}
    /\ Den \in Nat \ {0} /\ FEE_RATE \in Nat
    /\ MIN_PROFIT_USD \in Nat \ {0} /\ MIN_PROFIT_BPS \in Nat
    /\ MAX_POSITION_PCT \in 1 .. Den
    /\ TsMod \in Nat /\ max_stale_ns \in 0 .. TsMod - 1
    /\ Coin \in Nat /\ MAX_TRADES \in Nat /\ Seed \in Int
    /\ 0 \in ClockValues
    /\ \A h \in DOMAIN Ticks : Ticks[h] \subseteq TickType
    /\ MaxAttempts \in [DOMAIN Ticks -> Nat]
<1>1. TsMod - 1 - max_stale_ns \in Nat /\ 0 \in ClockValues
  BY HotPathAssumption DEF HotPathAssumption, ClockValues
<1>2. QED
  BY <1>1, MarketAssumption, HotPathAssumption, BacktestAssumption
  DEF MarketAssumption, HotPathAssumption, BacktestAssumption, TickType, ClockValues

\* The index of a venue and a pair that exist, and of the same pair elsewhere.
LEMMA IndexOf ==
    ASSUME NEW v \in {1, 2}, NEW p \in Nat, p < PAIRS_PER_VENUE
    PROVE  /\ map_to_index(v, p) \in Indices /\ map_to_index(3 - v, p) \in Indices
           /\ map_to_index(v, p) # map_to_index(3 - v, p)
           /\ 3 - v \in {1, 2}
<1>1. PAIRS_PER_VENUE \in Nat \ {0} /\ Indices = 0 .. 2 * PAIRS_PER_VENUE - 1
  BY Constants DEF Indices
<1>2. map_to_index(1, p) = p
  BY <1>1 DEF map_to_index
<1>3. map_to_index(2, p) = PAIRS_PER_VENUE + p
  BY <1>1 DEF map_to_index
<1>4. CASE v = 1
  <2>1. 3 - v = 2  BY <1>4
  <2>2. QED  BY <1>1, <1>2, <1>3, <1>4, <2>1
<1>5. CASE v = 2
  <2>1. 3 - v = 1  BY <1>5
  <2>2. QED  BY <1>1, <1>2, <1>3, <1>5, <2>1
<1>6. QED  BY <1>4, <1>5

LEMMA NetType ==
    ASSUME NEW b \in Int, NEW s \in Int
    PROVE  Net(b, s) \in Int
<1>1. FEE_RATE * (b + s) \in Int /\ Den \in Nat \ {0}
  BY Constants
<1>2. Fee(b, s) \in Int
  BY <1>1 DEF Fee
<1>3. QED  BY <1>2 DEF Net

\* The floor does not depend on which of the two books is the tick's own, and
\* it is never below the absolute one.
LEMMA FloorFacts ==
    ASSUME NEW st \in [Indices -> SlotType], NEW i \in Indices, NEW j \in Indices
    PROVE  /\ ProfitFloor(st, i, j) \in Int
           /\ ProfitFloor(st, i, j) >= MIN_PROFIT_USD
           /\ ProfitFloor(st, i, j) = ProfitFloor(st, j, i)
<1> DEFINE sum(a, b) == st[a].bid + st[b].bid + st[a].ask + st[b].ask
<1>1. /\ st[i].bid \in Int /\ st[i].ask \in Int
      /\ st[j].bid \in Int /\ st[j].ask \in Int
  BY DEF SlotType
<1>2. sum(i, j) \in Int /\ sum(i, j) = sum(j, i)
  BY <1>1
<1> HIDE DEF sum
<1> DEFINE bps == ((sum(i, j) \div 4) * MIN_PROFIT_BPS) \div Den
<1>3. bps \in Int
  <2>1. sum(i, j) \div 4 \in Int  BY <1>2
  <2>2. (sum(i, j) \div 4) * MIN_PROFIT_BPS \in Int  BY <2>1, Constants
  <2>3. QED  BY <2>2, Constants
<1>4. /\ ProfitFloor(st, i, j) = IF bps > MIN_PROFIT_USD THEN bps ELSE MIN_PROFIT_USD
      /\ ProfitFloor(st, j, i) = IF bps > MIN_PROFIT_USD THEN bps ELSE MIN_PROFIT_USD
  BY <1>2 DEF ProfitFloor, sum
<1> HIDE DEF bps
<1>5. QED  BY <1>3, <1>4, Constants
-----------------------------------------------------------------------------
(* What a signal means.                                                    *)

\* A bit pattern below the sign bit is that of the number itself.
LEMMA BitsPositive ==
    ASSUME NEW x \in Int, NEW f \in Nat, Bits(x) < SignBit, Bits(x) > Bits(f)
    PROVE  x > f
BY DEF Bits, SignBit

\* Of two numbers that are not negative the minimum is that of their patterns.
LEMMA MinOfBits ==
    ASSUME NEW x \in Nat, NEW y \in Nat
    PROVE  BitMin(x, y) \in Nat /\ BitMin(x, y) <= x /\ BitMin(x, y) <= y
BY DEF BitMin, Bits

\* The parts of a signal, in the names of evaluate_signal().
LEMMA SignalParts ==
    ASSUME NEW st \in [Indices -> SlotType], NEW t \in TickType, ValidTick(t),
           evaluate_signal(st, t).valid
    PROVE  LET here  == map_to_index(t.venue, t.pair)
               other == map_to_index(3 - t.venue, t.pair)
               sig   == evaluate_signal(st, t)
           IN  /\ Fresh(st, t, other)
               /\ Bits(sig.net) < SignBit
               /\ Bits(sig.net) > Bits(ProfitFloor(st, here, other))
               /\ \/ /\ sig.buy = here /\ sig.sell = other
                     /\ sig.buy_venue = t.venue /\ sig.sell_venue = 3 - t.venue
                     /\ sig.net = Net(st[here].ask, st[other].bid)
                  \/ /\ sig.buy = other /\ sig.sell = here
                     /\ sig.buy_venue = 3 - t.venue /\ sig.sell_venue = t.venue
                     /\ sig.net = Net(st[other].ask, st[here].bid)
<1> DEFINE here  == map_to_index(t.venue, t.pair)
           other == map_to_index(3 - t.venue, t.pair)
           p1    == Net(st[here].ask, st[other].bid)
           p2    == Net(st[other].ask, st[here].bid)
           dir1  == p1 >= p2
           best  == IF dir1 THEN p1 ELSE p2
           sig   == evaluate_signal(st, t)
           found == [valid      |-> /\ Bits(best) < SignBit
                                    /\ Bits(best) > Bits(ProfitFloor(st, here, other)),
                     buy        |-> IF dir1 THEN here ELSE other,
                     sell       |-> IF dir1 THEN other ELSE here,
                     buy_venue  |-> IF dir1 THEN t.venue ELSE 3 - t.venue,
                     sell_venue |-> IF dir1 THEN 3 - t.venue ELSE t.venue,
                     net        |-> best]
<1>1. sig = IF ~Fresh(st, t, other) THEN NoSignal ELSE found
  BY DEF evaluate_signal
<1>2. Fresh(st, t, other)
  BY <1>1 DEF NoSignal
<1>3. sig = found
  BY <1>1, <1>2
<1> HIDE DEF here, other, p1, p2, dir1
<1>4. /\ sig.net = best /\ sig.valid = (/\ Bits(best) < SignBit
                                        /\ Bits(best) > Bits(ProfitFloor(st, here, other)))
      /\ sig.buy = IF dir1 THEN here ELSE other
      /\ sig.sell = IF dir1 THEN other ELSE here
      /\ sig.buy_venue = IF dir1 THEN t.venue ELSE 3 - t.venue
      /\ sig.sell_venue = IF dir1 THEN 3 - t.venue ELSE t.venue
  BY <1>3
<1>5. /\ Bits(sig.net) < SignBit
      /\ Bits(sig.net) > Bits(ProfitFloor(st, here, other))
  BY <1>4
<1>6. CASE dir1
  BY <1>2, <1>4, <1>5, <1>6 DEF here, other, p1
<1>7. CASE ~dir1
  BY <1>2, <1>4, <1>5, <1>7 DEF here, other, p2
<1>8. QED  BY <1>6, <1>7

\* A signal names the two books of the tick's pair, its profit is that of
\* buying at one and selling at the other, and it is above both floors.
LEMMA SignalSound ==
    ASSUME NEW st \in [Indices -> SlotType], NEW t \in TickType, ValidTick(t),
           evaluate_signal(st, t).valid
    PROVE  LET here  == map_to_index(t.venue, t.pair)
               other == map_to_index(3 - t.venue, t.pair)
               sig   == evaluate_signal(st, t)
           IN  /\ Fresh(st, t, other)
               /\ {sig.buy, sig.sell} = {here, other}
               /\ {here, other} \subseteq Indices /\ here # other
               /\ sig.buy = map_to_index(sig.buy_venue, t.pair)
               /\ sig.sell = map_to_index(sig.sell_venue, t.pair)
               /\ sig.net = Net(st[sig.buy].ask, st[sig.sell].bid)
               /\ sig.net \in Int /\ sig.net > MIN_PROFIT_USD
               /\ sig.net > ProfitFloor(st, sig.buy, sig.sell)
<1> DEFINE here  == map_to_index(t.venue, t.pair)
           other == map_to_index(3 - t.venue, t.pair)
           sig   == evaluate_signal(st, t)
<1>1. t.venue \in {1, 2} /\ t.pair \in Nat /\ t.pair < PAIRS_PER_VENUE
  BY DEF ValidTick, TickType
<1>2. here \in Indices /\ other \in Indices /\ here # other
  BY <1>1, IndexOf
<1>3. /\ Fresh(st, t, other)
      /\ Bits(sig.net) < SignBit
      /\ Bits(sig.net) > Bits(ProfitFloor(st, here, other))
      /\ \/ /\ sig.buy = here /\ sig.sell = other
            /\ sig.buy_venue = t.venue /\ sig.sell_venue = 3 - t.venue
            /\ sig.net = Net(st[here].ask, st[other].bid)
         \/ /\ sig.buy = other /\ sig.sell = here
            /\ sig.buy_venue = 3 - t.venue /\ sig.sell_venue = t.venue
            /\ sig.net = Net(st[other].ask, st[here].bid)
  BY SignalParts
<1>4. /\ sig.buy = map_to_index(sig.buy_venue, t.pair)
      /\ sig.sell = map_to_index(sig.sell_venue, t.pair)
      /\ sig.net = Net(st[sig.buy].ask, st[sig.sell].bid)
      /\ {sig.buy, sig.sell} = {here, other}
  BY <1>3
<1> HIDE DEF here, other, sig
<1>5. st[here] \in SlotType /\ st[other] \in SlotType
  BY <1>2
<1>6. /\ st[here].ask \in Int /\ st[here].bid \in Int
      /\ st[other].ask \in Int /\ st[other].bid \in Int
  BY <1>5 DEF SlotType
<1>7. sig.net \in Int
  BY <1>3, <1>6, NetType
<1>8. /\ ProfitFloor(st, here, other) \in Int
      /\ ProfitFloor(st, here, other) >= MIN_PROFIT_USD
      /\ ProfitFloor(st, here, other) = ProfitFloor(st, other, here)
  BY <1>2, FloorFacts
<1>9. ProfitFloor(st, here, other) \in Nat
  BY <1>8, Constants
<1>10. sig.net > ProfitFloor(st, here, other)
  BY <1>3, <1>7, <1>9, BitsPositive
<1>11. sig.net > MIN_PROFIT_USD
  BY <1>7, <1>8, <1>10, Constants
<1>12. ProfitFloor(st, sig.buy, sig.sell) = ProfitFloor(st, here, other)
  BY <1>3, <1>8
<1>13. QED
  BY <1>2, <1>3, <1>4, <1>7, <1>10, <1>11, <1>12 DEF here, other, sig
-----------------------------------------------------------------------------
(* What a quantity means.                                                  *)

LEMMA Quotient ==
    ASSUME NEW a \in Nat, NEW b \in Nat \ {0}
    PROVE  a \div b \in Nat /\ (a \div b) * b <= a
OBVIOUS

LEMMA ProductGrows ==
    ASSUME NEW q \in Nat, NEW u \in Nat, q <= u, NEW c \in Nat
    PROVE  q * c <= u * c
OBVIOUS

\* No quantity exceeds the inventory, either depth, or what the share of the
\* balance buys, as long as neither depth is negative.
LEMMA QuantityWithinLimits ==
    ASSUME NEW quo \in Int, NEW bp \in Int, NEW bd \in Nat, NEW sd \in Nat,
           try_arb(quo, Coin, bp, bd, sd) > 0
    PROVE  LET q == try_arb(quo, Coin, bp, bd, sd)
           IN  /\ q \in Nat \ {0} /\ q <= Coin /\ q <= bd /\ q <= sd
               /\ q * bp * Den <= quo * MAX_POSITION_PCT
<1> DEFINE budget == IF bp > 0 THEN (quo * MAX_POSITION_PCT) \div (Den * bp) ELSE 0
           m1     == BitMin(budget, Coin)
           m2     == BitMin(m1, bd)
           qty    == BitMin(m2, sd)
           q      == try_arb(quo, Coin, bp, bd, sd)
<1>1. q = IF quo > 0 /\ qty > 0 THEN qty ELSE 0
  BY DEF try_arb
<1>2. quo > 0 /\ qty > 0 /\ q = qty
  BY <1>1
<1>3. MAX_POSITION_PCT \in Nat /\ Den \in Nat \ {0} /\ Coin \in Nat
  BY Constants
<1>4. quo * MAX_POSITION_PCT \in Nat
  BY <1>2, <1>3
<1>5. ASSUME bp > 0
      PROVE  Den * bp \in Nat \ {0}
  BY <1>3, <1>5
<1>6. budget \in Nat
  BY <1>4, <1>5, Quotient
<1> HIDE DEF budget
<1>7. m1 \in Nat /\ m1 <= budget /\ m1 <= Coin
  BY <1>3, <1>6, MinOfBits
<1> HIDE DEF m1
<1>8. m2 \in Nat /\ m2 <= m1 /\ m2 <= bd
  BY <1>7, MinOfBits
<1> HIDE DEF m2
<1>9. qty \in Nat /\ qty <= m2 /\ qty <= sd
  BY <1>8, MinOfBits
<1> HIDE DEF qty
<1>10. qty <= budget /\ qty <= Coin /\ qty <= bd
  BY <1>3, <1>6, <1>7, <1>8, <1>9
<1>11. bp > 0
  BY <1>2, <1>9, <1>10 DEF budget
<1>12. qty * bp * Den <= quo * MAX_POSITION_PCT
  <2>1. budget * (Den * bp) <= quo * MAX_POSITION_PCT
    BY <1>4, <1>5, <1>11, Quotient DEF budget
  <2>2. qty * (Den * bp) <= budget * (Den * bp)
    BY <1>5, <1>6, <1>9, <1>10, <1>11, ProductGrows
  <2>3. qty * bp * Den = qty * (Den * bp)
    BY <1>3, <1>9
  <2>4. /\ qty * (Den * bp) \in Int /\ budget * (Den * bp) \in Int
        /\ quo * MAX_POSITION_PCT \in Int
    BY <1>3, <1>5, <1>6, <1>9, <1>11
  <2>5. QED  BY <2>1, <2>2, <2>3, <2>4
<1>13. QED
  BY <1>2, <1>9, <1>10, <1>12
-----------------------------------------------------------------------------
(* What an order means.                                                    *)

\* A difference that is negative by less than the modulus wraps once.
LEMMA WrappedOnce ==
    ASSUME NEW m \in Nat \ {0}, NEW x \in Int, NEW y \in Int, x - y < 0, x - y >= -m
    PROVE  (x - y) % m = x - y + m
<1> DEFINE d == x - y
           q == d \div m
           z == d % m
<1>1. d \in Int /\ d < 0 /\ d >= -m
  OBVIOUS
<1> SUFFICES z = d + m
  OBVIOUS
<1>2. q \in Int /\ d = m * q + z /\ z \in 0 .. m - 1
  <2> HIDE DEF d
  <2>1. QED  BY <1>1
<1> HIDE DEF d, q, z
<1>3. q < 0
  <2>1. CASE q >= 0
    <3>1. m * q >= 0 /\ m * q \in Int  BY <1>2, <2>1
    <3>2. QED  BY <1>1, <1>2, <3>1
  <2>2. QED  BY <1>2, <2>1
<1>4. q > -2
  <2>1. CASE q <= -2
    <3>1. m * q <= -2 * m /\ m * q \in Int  BY <1>2, <2>1
    <3>2. QED  BY <1>1, <1>2, <3>1
  <2>2. QED  BY <1>2, <2>1
<1>5. q = -1
  BY <1>2, <1>3, <1>4
<1>6. m * q = -m
  BY <1>5
<1>7. QED  BY <1>1, <1>2, <1>6

\* An unsigned age within the limit is a real age, since no clock is near the
\* end of its range: a younger slot wraps to an age beyond the limit.
LEMMA AgeIsReal ==
    ASSUME NEW a \in ClockValues, NEW b \in ClockValues,
           Sub64(a, b) <= max_stale_ns
    PROVE  a - b \in 0 .. max_stale_ns
<1>1. /\ TsMod \in Nat \ {0} /\ max_stale_ns \in Nat /\ max_stale_ns < TsMod
      /\ a \in Nat /\ b \in Nat
      /\ a < TsMod - max_stale_ns /\ b < TsMod - max_stale_ns
  BY Constants DEF ClockValues
<1>2. CASE a >= b
  <2>1. a - b \in 0 .. TsMod - 1
    BY <1>1, <1>2
  <2>2. (a - b) % TsMod = a - b
    BY <1>1, <2>1
  <2>3. QED  BY <1>1, <2>1, <2>2 DEF Sub64
<1>3. CASE a < b
  <2>1. (a - b) % TsMod = a - b + TsMod
    BY <1>1, <1>3, WrappedOnce
  <2>2. QED
    BY <1>1, <1>3, <2>1 DEF Sub64
<1>4. QED  BY <1>1, <1>2, <1>3

\* A book that passes the imbalance gate has no negative side.
LEMMA BalancedDepths ==
    ASSUME NEW x \in Int, NEW y \in Int, Balanced(x, y)
    PROVE  x \in Nat /\ y \in Nat
BY DEF Balanced

\* What is true of an order on the books it was decided on.
Sound(r, st) ==
    /\ {r.buy, r.sell} \subseteq Indices /\ r.buy # r.sell
    /\ r.buy = map_to_index(r.buy_venue, r.pair)
    /\ r.sell = map_to_index(r.sell_venue, r.pair)
    /\ r.buy_price = st[r.buy].ask /\ r.sell_price = st[r.sell].bid
    /\ r.net = Net(st[r.buy].ask, st[r.sell].bid) /\ r.net \in Int
    /\ r.net > MIN_PROFIT_USD /\ r.net > ProfitFloor(st, r.buy, r.sell)
    /\ st[r.buy].ts # 0 /\ st[r.sell].ts # 0 /\ r.ts \in {st[r.buy].ts, st[r.sell].ts}
    /\ \A x \in {st[r.buy].ts, st[r.sell].ts} : r.ts - x \in 0 .. max_stale_ns

\* What is true of its quantity, for the balance it was sized with.
Limited(r, st, quo) ==
    /\ r.qty \in Nat \ {0} /\ r.qty <= Coin
    /\ r.qty <= st[r.buy].ask_qty /\ r.qty <= st[r.sell].bid_qty
    /\ r.qty * r.buy_price * Den <= quo * MAX_POSITION_PCT

LEMMA RequestSound ==
    ASSUME NEW st \in [Indices -> SlotType], NEW t \in TickType, ValidTick(t),
           st[map_to_index(t.venue, t.pair)].ts = t.ts,
           quote \in Int, NEW r \in Requests(st, t)
    PROVE  Sound(r, st) /\ Limited(r, st, quote)
<1> DEFINE here  == map_to_index(t.venue, t.pair)
           other == map_to_index(3 - t.venue, t.pair)
           sig   == evaluate_signal(st, t)
           qty   == try_arb(quote, Coin, st[sig.buy].ask, st[sig.buy].ask_qty,
                            st[sig.sell].bid_qty)
<1>1. /\ sig.valid /\ Balanced(st[sig.buy].ask_qty, st[sig.sell].bid_qty) /\ qty > 0
      /\ r = [pair |-> t.pair, buy_venue |-> sig.buy_venue,
              sell_venue |-> sig.sell_venue, buy |-> sig.buy, sell |-> sig.sell,
              buy_price |-> st[sig.buy].ask, sell_price |-> st[sig.sell].bid,
              qty |-> qty, net |-> sig.net, ts |-> t.ts]
  BY DEF Requests
<1>2. /\ Fresh(st, t, other)
      /\ {sig.buy, sig.sell} = {here, other}
      /\ {here, other} \subseteq Indices /\ here # other
      /\ sig.buy = map_to_index(sig.buy_venue, t.pair)
      /\ sig.sell = map_to_index(sig.sell_venue, t.pair)
      /\ sig.net = Net(st[sig.buy].ask, st[sig.sell].bid)
      /\ sig.net \in Int /\ sig.net > MIN_PROFIT_USD
      /\ sig.net > ProfitFloor(st, sig.buy, sig.sell)
  BY <1>1, SignalSound
<1>3. st[here].ts = t.ts
  OBVIOUS
<1> HIDE DEF here, other, sig, qty
<1>4. /\ r.pair = t.pair /\ r.buy_venue = sig.buy_venue /\ r.sell_venue = sig.sell_venue
      /\ r.buy = sig.buy /\ r.sell = sig.sell
      /\ r.buy_price = st[sig.buy].ask /\ r.sell_price = st[sig.sell].bid
      /\ r.qty = qty /\ r.net = sig.net /\ r.ts = t.ts
  BY <1>1
<1>5. st[sig.buy] \in SlotType /\ st[sig.sell] \in SlotType
  BY <1>2
<1>6. /\ st[sig.buy].ask \in Int /\ st[sig.buy].ask_qty \in Int /\ st[sig.sell].bid_qty \in Int
      /\ st[here].ts \in ClockValues /\ st[other].ts \in ClockValues /\ t.ts \in ClockValues
  BY <1>2, <1>5 DEF SlotType, TickType
<1>7. st[other].ts # 0 /\ t.ts - st[other].ts \in 0 .. max_stale_ns
  BY <1>2, <1>6, AgeIsReal DEF Fresh
<1>8. t.ts # 0 /\ t.ts - t.ts \in 0 .. max_stale_ns
  BY <1>6, <1>7, Constants DEF ClockValues
<1>9. st[here].ts # 0 /\ t.ts - st[here].ts \in 0 .. max_stale_ns
  BY <1>3, <1>8
<1>10. \/ sig.buy = here /\ sig.sell = other
       \/ sig.buy = other /\ sig.sell = here
  BY <1>2
<1>11. /\ st[sig.buy].ts # 0 /\ st[sig.sell].ts # 0 /\ t.ts \in {st[sig.buy].ts, st[sig.sell].ts}
       /\ \A x \in {st[sig.buy].ts, st[sig.sell].ts} : t.ts - x \in 0 .. max_stale_ns
  BY <1>3, <1>7, <1>9, <1>10
<1>12. Sound(r, st)
  BY <1>2, <1>4, <1>10, <1>11 DEF Sound
<1>13. st[sig.buy].ask_qty \in Nat /\ st[sig.sell].bid_qty \in Nat
  BY <1>1, <1>6, BalancedDepths
<1>14. /\ qty \in Nat \ {0} /\ qty <= Coin
       /\ qty <= st[sig.buy].ask_qty /\ qty <= st[sig.sell].bid_qty
       /\ qty * st[sig.buy].ask * Den <= quote * MAX_POSITION_PCT
  BY <1>1, <1>6, <1>13, QuantityWithinLimits DEF qty
<1>15. Limited(r, st, quote)
  BY <1>4, <1>14 DEF Limited
<1>16. QED  BY <1>12, <1>15
-----------------------------------------------------------------------------
(* The invariant.                                                          *)

BooksInv ==
    /\ StateInv /\ quote \in Int /\ earned \in Int
    /\ handler \in DOMAIN Ticks /\ attempts \in 0 .. MaxAttempts[handler]
    /\ trades \in Seq(Int) /\ Len(trades) <= MAX_TRADES /\ Len(trades) <= attempts

\* The ledger and the records, as long as there was room for every record.
BalanceInv == Reconciles

\* The order of the last tick is sound on the books as they are now, and the
\* bodies are still its own.
OrderInv ==
    \A r \in request :
      /\ Sound(r, state)
      /\ bodies[r.buy].buy = [price |-> r.buy_price, qty |-> r.qty]
      /\ bodies[r.sell].sell = [price |-> r.sell_price, qty |-> r.qty]

LEMMA DeltaType ==
    ASSUME NEW b \in Int, NEW s \in Int, NEW q \in Int
    PROVE  ledger_delta(b, s, q) \in Int
<1>1. Net(b, s) \in Int
  BY NetType
<1>2. QED  BY <1>1 DEF ledger_delta

\* A price after a rate was added or taken off is a number again.
LEMMA RateType ==
    ASSUME NEW p \in Int, NEW rate \in Nat
    PROVE  /\ (p * (Den + rate)) \div Den \in Int
           /\ (p * (Den - rate)) \div Den \in Int
           /\ (p * rate) \div Den \in Int
<1>1. /\ p * (Den + rate) \in Int /\ p * (Den - rate) \in Int /\ p * rate \in Int
      /\ Den \in Nat \ {0}
  BY Constants
<1>2. QED  BY <1>1

LEMMA RecordType ==
    ASSUME NEW pnl \in Int, trades \in Seq(Int), attempts \in Nat, attempts' = attempts + 1,
           Len(trades) <= MAX_TRADES, Len(trades) <= attempts, earned \in Int, Record(pnl)
    PROVE  /\ trades' \in Seq(Int) /\ earned' \in Int
           /\ Len(trades') <= MAX_TRADES /\ Len(trades') <= attempts'
<1>1. MAX_TRADES \in Nat /\ Len(trades) \in Nat
  BY Constants
<1>2. CASE Len(trades) < MAX_TRADES
  <2>1. trades' = Append(trades, pnl) /\ Len(trades') = Len(trades) + 1 /\ earned' = earned + pnl
    BY <1>2 DEF Record
  <2>2. QED  BY <1>1, <1>2, <2>1
<1>3. CASE ~(Len(trades) < MAX_TRADES)
  BY <1>1, <1>3 DEF Record, log
<1>4. QED  BY <1>2, <1>3

\* A fill moves the ledger, in however many corrections, from the delta of the
\* signal's prices to that of the prices it ended with, less the taxes.
LEMMA FilledEffect ==
    ASSUME NEW r, r.buy_price \in Int, r.sell_price \in Int, r.qty \in Int, NEW q \in Int,
           NEW leg_failed \in BOOLEAN, Filled(r, q, leg_failed)
    PROVE  \E b, sa, tds, gst \in Int :
             /\ SimFee(b, sa) \in Int
             /\ quote' = (q - ledger_delta(r.buy_price, r.sell_price, r.qty)
                            + ledger_delta(b, sa, r.qty)) - (tds + gst)
             /\ Record(r.qty * (sa - b - SimFee(b, sa)) - tds - gst)
<1> DEFINE b   == (r.buy_price * (Den + latency_penalty_bps)) \div Den
           s   == (r.sell_price * (Den - latency_penalty_bps)) \div Den
           sa  == IF leg_failed THEN (s * (Den - leg_fail_loss_bps)) \div Den ELSE s
           tds == (r.qty * sa * tds_rate) \div Den
           gst == (r.qty * SimFee(b, sa) * gst_on_fee_rate) \div Den
           q1  == q - ledger_delta(r.buy_price, r.sell_price, r.qty) + ledger_delta(b, s, r.qty)
           q2  == IF leg_failed
                  THEN q1 - ledger_delta(b, s, r.qty) + ledger_delta(b, sa, r.qty)
                  ELSE q1
<1>1. /\ latency_penalty_bps \in Nat /\ leg_fail_loss_bps \in Nat /\ tds_rate \in Nat
      /\ gst_on_fee_rate \in Nat /\ sim_fee_rate \in Nat
  BY BacktestAssumption DEF BacktestAssumption
<1>2. quote' = q2 - (tds + gst) /\ Record(r.qty * (sa - b - SimFee(b, sa)) - tds - gst)
  BY DEF Filled
<1>3. b \in Int /\ s \in Int
  BY <1>1, RateType
<1>4. ~leg_failed => sa = s
  OBVIOUS
<1> HIDE DEF b, s
<1>5. sa \in Int
  BY <1>1, <1>3, RateType
<1> HIDE DEF sa
<1>6. SimFee(b, sa) \in Int
  <2>1. b + sa \in Int /\ sim_fee_rate * (b + sa) = (b + sa) * sim_fee_rate
    BY <1>1, <1>3, <1>5
  <2>2. ((b + sa) * sim_fee_rate) \div Den \in Int
    BY <1>1, <2>1, RateType
  <2>3. QED  BY <2>1, <2>2 DEF SimFee
<1>7. tds \in Int /\ gst \in Int
  <2>1. r.qty * sa \in Int /\ r.qty * SimFee(b, sa) \in Int
    BY <1>5, <1>6
  <2>2. QED  BY <1>1, <2>1, RateType
<1> HIDE DEF tds, gst
<1>8. /\ ledger_delta(r.buy_price, r.sell_price, r.qty) \in Int
      /\ ledger_delta(b, s, r.qty) \in Int /\ ledger_delta(b, sa, r.qty) \in Int
  BY <1>3, <1>5, DeltaType
<1>9. q2 = q - ledger_delta(r.buy_price, r.sell_price, r.qty) + ledger_delta(b, sa, r.qty)
  BY <1>4, <1>8
<1> HIDE DEF q1, q2
<1>10. quote' = (q - ledger_delta(r.buy_price, r.sell_price, r.qty)
                   + ledger_delta(b, sa, r.qty)) - (tds + gst)
  BY <1>2, <1>9
<1>11. SimFee(b, sa) \in Int /\ Record(r.qty * (sa - b - SimFee(b, sa)) - tds - gst)
  BY <1>2, <1>6
<1>12. QED  BY <1>3, <1>5, <1>7, <1>10, <1>11, Zenon

LEMMA SimType ==
    ASSUME NEW r, r.buy_price \in Int, r.sell_price \in Int, r.qty \in Int, NEW q \in Int,
           trades \in Seq(Int), attempts \in Nat, attempts' = attempts + 1,
           Len(trades) <= MAX_TRADES, Len(trades) <= attempts, earned \in Int,
           NEW leg_failed \in BOOLEAN, Filled(r, q, leg_failed)
    PROVE  /\ quote' \in Int /\ earned' \in Int /\ trades' \in Seq(Int)
           /\ Len(trades') <= MAX_TRADES /\ Len(trades') <= attempts'
<1>1. PICK b, sa, tds, gst \in Int :
        /\ SimFee(b, sa) \in Int
        /\ quote' = (q - ledger_delta(r.buy_price, r.sell_price, r.qty)
                       + ledger_delta(b, sa, r.qty)) - (tds + gst)
        /\ Record(r.qty * (sa - b - SimFee(b, sa)) - tds - gst)
  BY FilledEffect
<1>2. /\ ledger_delta(r.buy_price, r.sell_price, r.qty) \in Int
      /\ ledger_delta(b, sa, r.qty) \in Int
  BY DeltaType
<1>3. quote' \in Int
  BY <1>1, <1>2
<1>4. r.qty * (sa - b - SimFee(b, sa)) - tds - gst \in Int
  BY <1>1
<1>5. QED  BY <1>1, <1>3, <1>4, RecordType

LEMMA SubmitType ==
    ASSUME NEW r, r.buy_price \in Int, r.sell_price \in Int, r.qty \in Int, r.net \in Int,
           NEW q \in Int, trades \in Seq(Int), attempts \in Nat,
           Len(trades) <= MAX_TRADES, Len(trades) <= attempts, earned \in Int, Submit(r, q)
    PROVE  /\ quote' \in Int /\ earned' \in Int /\ attempts' = attempts + 1 /\ trades' \in Seq(Int)
           /\ Len(trades') <= MAX_TRADES /\ Len(trades') <= attempts'
<1>1. attempts' = attempts + 1
  BY DEF Submit, SimSubmit, PaperSubmit
<1>2. CASE Unfilled(r, q)
  <2>1. ledger_delta(r.buy_price, r.sell_price, r.qty) \in Int
    BY DeltaType
  <2>2. quote' \in Int
    BY <1>2, <2>1 DEF Unfilled
  <2>3. trades' = trades /\ earned' = earned
    BY <1>2 DEF Unfilled, log
  <2>4. QED  BY <1>1, <2>2, <2>3
<1>3. CASE \E leg_failed \in BOOLEAN : Filled(r, q, leg_failed)
  BY <1>1, <1>3, SimType
<1>4. CASE PaperSubmit(r, q)
  <2>1. quote' = q /\ Record(r.net * r.qty)
    BY <1>4 DEF PaperSubmit
  <2>2. r.net * r.qty \in Int
    OBVIOUS
  <2>3. QED  BY <1>1, <2>1, <2>2, RecordType
<1>5. QED  BY <1>2, <1>3, <1>4 DEF Submit, SimSubmit

\* Whatever befalls an order, the ledger moves by what the record says, if there
\* is room for one: the deltas taken back and put in again cancel out.
LEMMA SubmitBalances ==
    ASSUME NEW r, r.buy_price \in Int, r.sell_price \in Int, r.qty \in Int,
           r.net = Net(r.buy_price, r.sell_price), sim_fee_rate = FEE_RATE,
           quote \in Int, earned \in Int, Len(trades) < MAX_TRADES,
           NEW q \in Int, q = quote + ledger_delta(r.buy_price, r.sell_price, r.qty),
           Submit(r, q)
    PROVE  quote' - earned' = quote - earned
<1> DEFINE d0 == ledger_delta(r.buy_price, r.sell_price, r.qty)
<1>1. d0 \in Int /\ q = quote + d0
  BY DeltaType
<1>2. CASE Unfilled(r, q)
  <2>1. quote' = q - d0 /\ earned' = earned
    BY <1>2 DEF Unfilled, log
  <2> HIDE DEF d0
  <2>2. QED  BY <1>1, <2>1
<1>3. CASE \E leg_failed \in BOOLEAN : Filled(r, q, leg_failed)
  <2>1. PICK b, sa, tds, gst \in Int :
          /\ SimFee(b, sa) \in Int
          /\ quote' = (q - d0 + ledger_delta(b, sa, r.qty)) - (tds + gst)
          /\ Record(r.qty * (sa - b - SimFee(b, sa)) - tds - gst)
    BY <1>3, FilledEffect
  <2>2. earned' = earned + (r.qty * (sa - b - SimFee(b, sa)) - tds - gst)
    BY <2>1 DEF Record
  <2>3. SimFee(b, sa) = Fee(b, sa)
    BY DEF SimFee, Fee
  <2>4. ledger_delta(b, sa, r.qty) = r.qty * (sa - b - SimFee(b, sa))
    BY <2>3 DEF ledger_delta, Net
  <2>5. ledger_delta(b, sa, r.qty) \in Int
    BY DeltaType
  <2> HIDE DEF d0
  <2>6. PICK d \in Int : d = ledger_delta(b, sa, r.qty)
    BY <2>5
  <2>7. quote' = (q - d0 + d) - (tds + gst) /\ earned' = earned + (d - tds - gst)
    BY <2>1, <2>2, <2>4, <2>6, Zenon
  <2>8. ((q - d0 + d) - (tds + gst)) - (earned + (d - tds - gst)) = quote - earned
    <3>1. PICK x \in Int, quo \in Int, ern \in Int : x = d0 /\ quo = quote /\ ern = earned
      BY <1>1
    <3>2. q = quo + x
      BY <1>1, <3>1
    <3>3. ((q - x + d) - (tds + gst)) - (ern + (d - tds - gst)) = quo - ern
      BY <3>2
    <3>4. QED  BY <3>1, <3>3
  <2>9. QED  BY <2>7, <2>8
<1>4. CASE PaperSubmit(r, q)
  <2>1. quote' = q /\ earned' = earned + r.net * r.qty
    BY <1>4 DEF PaperSubmit, Record
  <2>2. r.net \in Int /\ d0 = r.qty * r.net
    BY NetType DEF ledger_delta
  <2>3. r.net * r.qty = r.qty * r.net
    BY <2>2
  <2> HIDE DEF d0
  <2>4. earned' = earned + d0
    BY <2>1, <2>2, <2>3
  <2>5. QED  BY <1>1, <2>1, <2>4
<1>5. QED  BY <1>2, <1>3, <1>4 DEF Submit, SimSubmit
-----------------------------------------------------------------------------
\* A valid tick replaces the slot of its venue and pair and no other.
LEMMA UpdateSlot ==
    ASSUME NEW st \in [Indices -> SlotType], NEW t \in TickType, ValidTick(t)
    PROVE  /\ Updated(st, t) \in [Indices -> SlotType]
           /\ Updated(st, t)[map_to_index(t.venue, t.pair)].ts = t.ts
<1>1. t.venue \in {1, 2} /\ t.pair \in Nat /\ t.pair < PAIRS_PER_VENUE
  BY DEF ValidTick, TickType
<1>2. map_to_index(t.venue, t.pair) \in Indices
  BY <1>1, IndexOf
<1>3. [bid |-> t.bid, ask |-> t.ask, bid_qty |-> t.bid_qty, ask_qty |-> t.ask_qty,
       ts |-> t.ts, ets |-> t.ets] \in SlotType
  BY DEF TickType, SlotType
<1>4. QED  BY <1>2, <1>3 DEF Updated

\* What a tick that leads to an order does.
LEMMA FireStep ==
    ASSUME BooksInv, BalanceInv, NEW t \in Ticks[handler], FireTick(t)
    PROVE  /\ BooksInv' /\ BalanceInv' /\ OrderInv'
           /\ \A r \in request' : Limited(r, state', quote)
<1>1. t \in TickType /\ MaxAttempts[handler] \in Nat
  BY Constants DEF BooksInv
<1>2. ValidTick(t) /\ attempts < MaxAttempts[handler] /\ state' = Updated(state, t)
  BY DEF FireTick
<1>3. /\ state' \in [Indices -> SlotType]
      /\ state'[map_to_index(t.venue, t.pair)].ts = t.ts
  BY <1>1, <1>2, UpdateSlot DEF BooksInv, StateInv
<1>4. PICK r \in Requests(state', t) :
        /\ request' = {r} /\ bodies' = Patched(r)
        /\ Submit(r, quote + ledger_delta(r.buy_price, r.sell_price, r.qty))
  BY DEF FireTick
<1>5. Sound(r, state') /\ Limited(r, state', quote)
  BY <1>1, <1>2, <1>3, <1>4, RequestSound DEF BooksInv
<1>6. /\ r.buy_price \in Int /\ r.sell_price \in Int /\ r.qty \in Int /\ r.net \in Int
      /\ {r.buy, r.sell} \subseteq Indices
  BY <1>3, <1>5 DEF Sound, Limited, SlotType
<1>7. quote + ledger_delta(r.buy_price, r.sell_price, r.qty) \in Int
  <2>1. ledger_delta(r.buy_price, r.sell_price, r.qty) \in Int /\ quote \in Int
    BY <1>6, DeltaType DEF BooksInv
  <2>2. QED  BY <2>1
<1>8. attempts \in Nat
  BY <1>1 DEF BooksInv
<1>9. /\ quote' \in Int /\ earned' \in Int /\ attempts' = attempts + 1 /\ trades' \in Seq(Int)
      /\ Len(trades') <= MAX_TRADES /\ Len(trades') <= attempts'
  BY <1>4, <1>6, <1>7, <1>8, SubmitType DEF BooksInv
<1>10. handler' = handler
  BY DEF FireTick
<1>11. BooksInv'
  BY <1>1, <1>2, <1>3, <1>8, <1>9, <1>10 DEF BooksInv, StateInv
<1>12. OrderInv'
  <2>1. /\ bodies'[r.buy].buy = [price |-> r.buy_price, qty |-> r.qty]
        /\ bodies'[r.sell].sell = [price |-> r.sell_price, qty |-> r.qty]
    BY <1>4, <1>6 DEF Patched
  <2>2. QED  BY <1>4, <1>5, <2>1 DEF OrderInv
<1>13. BalanceInv'
  <2> SUFFICES ASSUME attempts' <= MAX_TRADES, sim_fee_rate = FEE_RATE
               PROVE  quote' = Seed + earned'
    BY DEF BalanceInv, Reconciles
  <2>1. Len(trades) < MAX_TRADES /\ attempts <= MAX_TRADES
    BY <1>8, <1>9, Constants DEF BooksInv
  <2>2. quote = Seed + earned
    BY <2>1 DEF BalanceInv, Reconciles
  <2>3. r.net = Net(r.buy_price, r.sell_price)
    BY <1>5 DEF Sound
  <2>4. quote' - earned' = quote - earned
    <3> DEFINE q == quote + ledger_delta(r.buy_price, r.sell_price, r.qty)
    <3>1. q \in Int /\ Submit(r, q) /\ quote \in Int /\ earned \in Int
      BY <1>4, <1>7 DEF BooksInv
    <3>2. q = quote + ledger_delta(r.buy_price, r.sell_price, r.qty)
      OBVIOUS
    <3> HIDE DEF q
    <3>3. QED  BY <1>6, <2>1, <2>3, <3>1, <3>2, SubmitBalances
  <2>5. Seed \in Int /\ quote \in Int /\ earned \in Int
    BY Constants DEF BooksInv
  <2>6. quote' \in Int /\ earned' \in Int
    BY <1>9
  <2>7. PICK q1 \in Int, e1 \in Int : q1 = quote' /\ e1 = earned'
    BY <2>6
  <2>8. q1 - e1 = quote - earned
    BY <2>4, <2>7
  <2>9. q1 = Seed + e1
    BY <2>2, <2>5, <2>8
  <2>10. QED  BY <2>7, <2>9
<1>14. QED  BY <1>4, <1>5, <1>11, <1>12, <1>13

LEMMA Starts == Init => BooksInv /\ BalanceInv /\ OrderInv
<1> SUFFICES ASSUME Init PROVE BooksInv /\ BalanceInv /\ OrderInv
  OBVIOUS
<1>1. EmptySlot \in SlotType
  BY Constants DEF EmptySlot, SlotType
<1>2. handler \in DOMAIN Ticks /\ MaxAttempts[handler] \in Nat
  BY Constants DEF Init
<1>3. trades = <<>> /\ trades \in Seq(Int) /\ Len(trades) = 0
  BY DEF Init
<1>4. QED
  BY <1>1, <1>2, <1>3, Constants DEF Init, BooksInv, StateInv, BalanceInv, Reconciles, OrderInv

\* Every step keeps the invariant, and its order is within the limits.
LEMMA Steps ==
    ASSUME BooksInv, BalanceInv, OrderInv, [Next]_vars
    PROVE  /\ BooksInv' /\ BalanceInv' /\ OrderInv'
           /\ UNCHANGED vars \/ \A r \in request' : Limited(r, state', quote)
<1>1. ASSUME NEW t \in Ticks[handler], DropTick(t)
      PROVE  BooksInv' /\ BalanceInv' /\ OrderInv' /\ request' = {}
  BY <1>1 DEF DropTick, BooksInv, StateInv, BalanceInv, Reconciles, OrderInv, log
<1>2. ASSUME NEW t \in Ticks[handler], QuietTick(t)
      PROVE  BooksInv' /\ BalanceInv' /\ OrderInv' /\ request' = {}
  <2>1. t \in TickType
    BY Constants DEF BooksInv
  <2>2. state' \in [Indices -> SlotType]
    BY <1>2, <2>1, UpdateSlot DEF BooksInv, StateInv, QuietTick
  <2>3. QED  BY <1>2, <2>2 DEF QuietTick, BooksInv, StateInv, BalanceInv, Reconciles, OrderInv, log
<1>3. ASSUME NEW t \in Ticks[handler], FireTick(t)
      PROVE  /\ BooksInv' /\ BalanceInv' /\ OrderInv'
             /\ \A r \in request' : Limited(r, state', quote)
  BY <1>3, FireStep
<1>4. CASE UNCHANGED vars
  BY <1>4 DEF vars, log, BooksInv, StateInv, BalanceInv, Reconciles, OrderInv, Sound
<1>5. QED  BY <1>1, <1>2, <1>3, <1>4 DEF Next
-----------------------------------------------------------------------------
(* The theorems.                                                           *)

LEMMA Invariant == Spec => [](BooksInv /\ BalanceInv /\ OrderInv)
<1>1. BooksInv /\ BalanceInv /\ OrderInv /\ [Next]_vars => (BooksInv /\ BalanceInv /\ OrderInv)'
  BY Steps
<1>2. QED  BY <1>1, Starts, PTL DEF Spec

\* Every variable of the engine keeps its type, and the trade buffer its bound.
THEOREM TypeCorrect == Spec => []TypeOK
<1>1. BooksInv /\ BalanceInv /\ OrderInv => TypeOK
  <2> SUFFICES ASSUME BooksInv, BalanceInv, OrderInv PROVE TypeOK
    OBVIOUS
  <2>1. \A i \in Indices : DOMAIN state[i] = DOMAIN EmptySlot
    BY DEF BooksInv, StateInv, SlotType, EmptySlot
  <2>2. \A r \in request : {r.buy, r.sell} \subseteq Indices /\ r.buy # r.sell
    BY DEF OrderInv, Sound
  <2>3. QED  BY <2>1, <2>2 DEF TypeOK, BooksInv
<1>2. QED  BY <1>1, Invariant, PTL

\* The ledger has gained what the records say, until a record found no room.
THEOREM LedgerMatchesRecords == Spec => []Reconciles
<1>1. BalanceInv => Reconciles
  BY DEF BalanceInv
<1>2. QED  BY <1>1, Invariant, PTL

\* An order rests on two quotes that were received, the other one at most
\* max_stale_ns before the tick's, in whatever order they came.
THEOREM QuotesAreLive == Spec => []NoStaleTrade
<1>1. OrderInv => NoStaleTrade
  BY DEF OrderInv, Sound, NoStaleTrade
<1>2. QED  BY <1>1, Invariant, PTL

\* The profit committed is that of the two books and above both floors,
\* although it is compared by its bit pattern.
THEOREM ProfitsAreReal == Spec => []CommitsProfit
<1>1. OrderInv => CommitsProfit
  BY DEF OrderInv, Sound, CommitsProfit
<1>2. QED  BY <1>1, Invariant, PTL

\* The body at the index the handler recomputes carries the order's price and
\* quantity, for any number of pairs.
THEOREM BodiesAreTheOrders == Spec => []BodiesMatch
<1>1. OrderInv => BodiesMatch
  BY DEF OrderInv, Sound, BodiesMatch
<1>2. QED  BY <1>1, Invariant, PTL

\* The last look accepts every signal, so it never changes the outcome.
THEOREM LastLookNeverRejects == Spec => []LastLookRedundant
<1>1. BooksInv => LastLookRedundant
  <2> SUFFICES ASSUME BooksInv, NEW t \in Ticks[handler], ValidTick(t),
                      evaluate_signal(state, t).valid
               PROVE  LET sig == evaluate_signal(state, t)
                      IN  LastLook(state[sig.buy].ask, state[sig.sell].bid)
    BY DEF LastLookRedundant
  <2> DEFINE sig == evaluate_signal(state, t)
  <2>1. t \in TickType /\ state \in [Indices -> SlotType]
    BY Constants DEF BooksInv, StateInv
  <2>2. /\ sig.net = Net(state[sig.buy].ask, state[sig.sell].bid)
        /\ sig.net \in Int /\ sig.net > MIN_PROFIT_USD
    BY <2>1, SignalSound
  <2> HIDE DEF sig
  <2>3. LastLook(state[sig.buy].ask, state[sig.sell].bid)
    BY <2>2, Constants DEF LastLook
  <2>4. QED  BY <2>3 DEF sig
<1>2. QED  BY <1>1, Invariant, PTL

\* No order exceeds the share of the balance it was sized with, the coin there
\* is to sell, or either depth, although the minimum is taken over bit patterns.
THEOREM LimitsHold == Spec => QtyWithinLimits
<1>1. BooksInv /\ BalanceInv /\ OrderInv /\ [Next]_vars =>
        [\A r \in request' :
           /\ r.qty > 0 /\ r.qty <= Coin
           /\ r.qty <= state'[r.buy].ask_qty /\ r.qty <= state'[r.sell].bid_qty
           /\ r.qty * r.buy_price * Den <= quote * MAX_POSITION_PCT]_vars
  <2> SUFFICES ASSUME BooksInv, BalanceInv, OrderInv, [Next]_vars, NEW r \in request', ~UNCHANGED vars
               PROVE  /\ r.qty > 0 /\ r.qty <= Coin
                      /\ r.qty <= state'[r.buy].ask_qty /\ r.qty <= state'[r.sell].bid_qty
                      /\ r.qty * r.buy_price * Den <= quote * MAX_POSITION_PCT
    OBVIOUS
  <2>1. Limited(r, state', quote)
    BY Steps
  <2>2. QED  BY <2>1 DEF Limited
<1>2. QED  BY <1>1, Invariant, PTL DEF Spec, QtyWithinLimits
=============================================================================
