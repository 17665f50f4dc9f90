------------------------------- MODULE HotPath -------------------------------
(* What the engine computes on one tick, as operators: evaluate_signal(),  *)
(* the gates of process_tick(), VirtualLedger.                             *)
(*                                                                         *)
(* Prices, balances and profits are integers in a unit small enough for    *)
(* the rates below to divide exactly; quantities are whole numbers.  The   *)
(* rounding of floats is not modelled, their bit patterns are (Bits), and  *)
(* so is the wrap-around of uint64 timestamps (TsMod).                     *)
EXTENDS MarketState

CONSTANTS
    Den,                \* denominator of the rates: 10000 basis points
    FEE_RATE,           \* per leg, over Den
    MIN_PROFIT_USD,     \* absolute floor of the profit per unit
    MIN_PROFIT_BPS,     \* floor relative to the mid price, over Den
    MAX_POSITION_PCT,   \* share of the balance per trade, over Den
    max_stale_ns,
    max_exchange_ts_skew_ms,
    TsMod               \* modulus of a timestamp

ASSUME HotPathAssumption ==
    /\ Den \in Nat \ {0}
    /\ FEE_RATE \in Nat /\ MIN_PROFIT_USD \in Nat \ {0} /\ MIN_PROFIT_BPS \in Nat
    /\ MAX_POSITION_PCT \in 1 .. Den
    /\ TsMod \in Nat /\ max_stale_ns \in 0 .. TsMod - 1
    /\ max_exchange_ts_skew_ms \in Nat

\* A float's bits read as a uint32: the sign bit makes a negative number
\* larger than any positive one.
SignBit == 1000000000
Bits(x) == IF x >= 0 THEN x ELSE SignBit - x
BitMin(x, y) == IF Bits(x) < Bits(y) THEN x ELSE y

\* (a - b) as uint64.
Sub64(a, b) == (a - b) % TsMod

Fee(buy, sell) == (FEE_RATE * (buy + sell)) \div Den
Net(buy, sell) == sell - buy - Fee(buy, sell)
-----------------------------------------------------------------------------
(* evaluate_signal().                                                      *)

\* Bug: the age is taken as a signed difference.
Fresh_Signed(st, t, other) ==
    st[other].ts # 0 /\ t.ts - st[other].ts <= max_stale_ns

\* The other venue was seen, and not longer ago than max_stale_ns; a slot
\* younger than the tick wraps to a huge age and counts as stale.
Fresh(st, t, other) ==
    st[other].ts # 0 /\ Sub64(t.ts, st[other].ts) <= max_stale_ns

\* Bug: the absolute floor is forgotten.
ProfitFloor_BpsOnly(st, here, other) ==
    LET mid == (st[here].bid + st[other].bid + st[here].ask + st[other].ask) \div 4
    IN  (mid * MIN_PROFIT_BPS) \div Den

\* floor_val: the larger of the absolute and the relative floor.
ProfitFloor(st, here, other) ==
    LET mid == (st[here].bid + st[other].bid + st[here].ask + st[other].ask) \div 4
        bps == (mid * MIN_PROFIT_BPS) \div Den
    IN  IF bps > MIN_PROFIT_USD THEN bps ELSE MIN_PROFIT_USD

NoSignal == [valid |-> FALSE, buy |-> 0, sell |-> 0, buy_venue |-> 0,
             sell_venue |-> 0, net |-> 0]

\* Bug: the signal forgets the fee of the sell leg.
evaluate_signal_OneFee(st, t) ==
    LET other_v == 3 - t.venue
        here  == map_to_index(t.venue, t.pair)
        other == map_to_index(other_v, t.pair)
        p1    == st[other].bid - st[here].ask - Fee(st[here].ask, 0)
        p2    == st[here].bid - st[other].ask - Fee(st[other].ask, 0)
        dir1  == p1 >= p2
        best  == IF dir1 THEN p1 ELSE p2
    IN  IF ~Fresh(st, t, other) THEN NoSignal
        ELSE [valid      |-> /\ Bits(best) < SignBit
                             /\ Bits(best) > Bits(ProfitFloor(st, here, other)),
              buy        |-> IF dir1 THEN here ELSE other,
              sell       |-> IF dir1 THEN other ELSE here,
              buy_venue  |-> IF dir1 THEN t.venue ELSE other_v,
              sell_venue |-> IF dir1 THEN other_v ELSE t.venue,
              net        |-> best]

\* Both directions between the two venues; the better one is a signal when its
\* sign bit is clear and its bit pattern exceeds the floor's.
evaluate_signal(st, t) ==
    LET other_v == 3 - t.venue
        here  == map_to_index(t.venue, t.pair)
        other == map_to_index(other_v, t.pair)
        p1    == Net(st[here].ask, st[other].bid)
        p2    == Net(st[other].ask, st[here].bid)
        dir1  == p1 >= p2
        best  == IF dir1 THEN p1 ELSE p2
    IN  IF ~Fresh(st, t, other) THEN NoSignal
        ELSE [valid      |-> /\ Bits(best) < SignBit
                             /\ Bits(best) > Bits(ProfitFloor(st, here, other)),
              buy        |-> IF dir1 THEN here ELSE other,
              sell       |-> IF dir1 THEN other ELSE here,
              buy_venue  |-> IF dir1 THEN t.venue ELSE other_v,
              sell_venue |-> IF dir1 THEN other_v ELSE t.venue,
              net        |-> best]
-----------------------------------------------------------------------------
(* The gates of process_tick().                                            *)

\* The thinner side has at least 20% of the other's depth (mn / mx < 0.20).
Balanced(buy_depth, sell_depth) ==
    LET mn == IF buy_depth < sell_depth THEN buy_depth ELSE sell_depth
        mx == IF buy_depth > sell_depth THEN buy_depth ELSE sell_depth
    IN  mx > 0 /\ 5 * mn >= mx

\* The exchange timestamps are close, when both are known.
InStep(ets1, ets2) ==
    \/ ets1 = 0 \/ ets2 = 0
    \/ (IF ets1 > ets2 THEN ets1 - ets2 ELSE ets2 - ets1) <= max_exchange_ts_skew_ms

\* The book is read once more before the order goes out.
LastLook(ask, bid) == Net(ask, bid) >= MIN_PROFIT_USD
-----------------------------------------------------------------------------
(* VirtualLedger.                                                          *)

\* Bug: the insolvency guard is dropped.
try_arb_NoGuard(quote, coin, buy_price, buy_depth, sell_depth) ==
    LET budget == IF buy_price > 0
                  THEN (quote * MAX_POSITION_PCT) \div (Den * buy_price) ELSE 0
        qty    == BitMin(BitMin(BitMin(budget, coin), buy_depth), sell_depth)
    IN  IF qty > 0 THEN qty ELSE 0

\* The quantity that budget, inventory and both depths allow.
try_arb(quote, coin, buy_price, buy_depth, sell_depth) ==
    LET budget == IF buy_price > 0
                  THEN (quote * MAX_POSITION_PCT) \div (Den * buy_price) ELSE 0
        qty    == BitMin(BitMin(BitMin(budget, coin), buy_depth), sell_depth)
    IN  IF quote > 0 /\ qty > 0 THEN qty ELSE 0

\* Bug: the fees of the two legs are left out of the ledger.
ledger_delta_NoFee(buy_price, sell_price, qty) == qty * (sell_price - buy_price)

\* apply_arb() adds this, ledger_delta() recomputes it.
ledger_delta(buy_price, sell_price, qty) == qty * Net(buy_price, sell_price)
=============================================================================
