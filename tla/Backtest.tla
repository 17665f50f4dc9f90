------------------------------ MODULE Backtest ------------------------------
(* The engine replaying ticks on one thread: process_tick() with           *)
(* BacktestOrderHandler (backtester, live --paper) or PaperTradeHandler    *)
(* (paper_trader) as its order handler.  A tick is handled completely      *)
(* before the next one, so an action is one tick.                          *)
(* Which handler it is was decided by the program that runs it.            *)
(* External: the ticks.  The random draws of the simulation are choices.   *)
EXTENDS HotPath, Sequences

CONSTANTS
    Ticks,                \* handler -> the ticks that may arrive at its program
    Seed,                 \* initial_balance
    Coin,                 \* coin_balance of every pair: seeded, never written
    latency_penalty_bps,  \* SimParams, over Den
    leg_fail_loss_bps,
    tds_rate,
    gst_on_fee_rate,
    sim_fee_rate,         \* sim.fee_rate: for the records, not for the ledger
    MAX_TRADES,           \* capacity of the trade buffer
    MaxAttempts           \* bound: handler -> orders submitted to it

ASSUME BacktestAssumption ==
    /\ DOMAIN Ticks \subseteq {"sim", "paper"} /\ MaxAttempts \in [DOMAIN Ticks -> Nat]
    \* No clock is within max_stale_ns of the end of a uint64.
    /\ \A h \in DOMAIN Ticks : Ticks[h] \subseteq
         [venue : Nat, pair : Nat, bid : Int, ask : Int, bid_qty : Int, ask_qty : Int,
          ts : 0 .. TsMod - 1 - max_stale_ns, ets : Nat]
    /\ Seed \in Int /\ Coin \in Nat /\ MAX_TRADES \in Nat
    /\ {latency_penalty_bps, leg_fail_loss_bps, tds_rate, gst_on_fee_rate,
        sim_fee_rate} \subseteq Nat

VARIABLES
    handler,    \* "sim" for BacktestOrderHandler, "paper" for PaperTradeHandler
    state,      \* MarketState, index -> slot
    quote,      \* VirtualLedger::quote_balance
    bodies,     \* order templates as last patched: [buy, sell] per index
    request,    \* the OrderRequest of the last tick, a set
    attempts,   \* attempt_count
    trades,     \* trade_buf[0 .. trade_count): the pnl of each
    earned      \* history: what they add up to

log == <<trades, earned>>
vars == <<handler, state, quote, bodies, request, attempts, log>>

Blank == [price |-> 0, qty |-> 0]

Init ==
    /\ handler \in DOMAIN Ticks
    /\ state = [i \in Indices |-> EmptySlot]
    /\ quote = Seed
    /\ bodies = [i \in Indices |-> [buy |-> Blank, sell |-> Blank]]
    /\ request = {} /\ attempts = 0 /\ trades = <<>> /\ earned = 0
-----------------------------------------------------------------------------
(* process_tick() up to handler.submit().                                  *)

\* The order the tick leads to, none or one.  st is the state after update().
Requests(st, t) ==
    LET sig  == evaluate_signal(st, t)
        buy  == st[sig.buy]
        sell == st[sig.sell]
        qty  == try_arb(quote, Coin, buy.ask, buy.ask_qty, sell.bid_qty)
    IN  IF /\ sig.valid
           /\ Balanced(buy.ask_qty, sell.bid_qty)
           /\ InStep(buy.ets, sell.ets)
           /\ qty > 0
           /\ LastLook(buy.ask, sell.bid)
        THEN {[pair |-> t.pair, buy_venue |-> sig.buy_venue,
               sell_venue |-> sig.sell_venue, buy |-> sig.buy, sell |-> sig.sell,
               buy_price |-> buy.ask, sell_price |-> sell.bid, qty |-> qty,
               net |-> sig.net, ts |-> t.ts]}
        ELSE {}

\* Bug: the sell body of the buy index is patched, and the other way round.
Patched_Swapped(r) ==
    [i \in Indices |->
       [buy  |-> IF i = r.sell THEN [price |-> r.buy_price, qty |-> r.qty]
                               ELSE bodies[i].buy,
        sell |-> IF i = r.buy  THEN [price |-> r.sell_price, qty |-> r.qty]
                               ELSE bodies[i].sell]]

\* patch_order() on the two templates of the signal.
Patched(r) ==
    [i \in Indices |->
       [buy  |-> IF i = r.buy  THEN [price |-> r.buy_price, qty |-> r.qty]
                               ELSE bodies[i].buy,
        sell |-> IF i = r.sell THEN [price |-> r.sell_price, qty |-> r.qty]
                               ELSE bodies[i].sell]]

\* Bug: the capacity of the buffer is not looked at.
Record_NoCap(pnl) ==
    trades' = Append(trades, pnl) /\ earned' = earned + pnl

\* A record is only kept while the buffer has room.
Record(pnl) ==
    IF Len(trades) < MAX_TRADES
    THEN trades' = Append(trades, pnl) /\ earned' = earned + pnl
    ELSE UNCHANGED log
-----------------------------------------------------------------------------
(* BacktestOrderHandler::submit(); `committed` is the ledger after         *)
(* apply_arb().                                                            *)

SimFee(buy, sell) == (sim_fee_rate * (buy + sell)) \div Den

\* The fill was missed: the committed delta is taken back.
Unfilled(r, committed) ==
    /\ quote' = committed - ledger_delta(r.buy_price, r.sell_price, r.qty)
    /\ UNCHANGED log

\* Bug: the delta of the original prices is not taken back first.
Filled_KeepFirst(r, committed, leg_failed) ==
    LET b   == (r.buy_price * (Den + latency_penalty_bps)) \div Den
        s   == (r.sell_price * (Den - latency_penalty_bps)) \div Den
        sa  == IF leg_failed THEN (s * (Den - leg_fail_loss_bps)) \div Den ELSE s
        tds == (r.qty * sa * tds_rate) \div Den
        gst == (r.qty * SimFee(b, sa) * gst_on_fee_rate) \div Den
    IN  /\ quote' = committed + ledger_delta(b, sa, r.qty) - tds - gst
        /\ Record(r.qty * (sa - b - SimFee(b, sa)) - tds - gst)

\* Filled at the prices after the latency penalty; if the sell leg fails it is
\* sold at a loss; taxes come off; the ledger is moved from delta to delta.
Filled(r, committed, leg_failed) ==
    LET b   == (r.buy_price * (Den + latency_penalty_bps)) \div Den
        s   == (r.sell_price * (Den - latency_penalty_bps)) \div Den
        sa  == IF leg_failed THEN (s * (Den - leg_fail_loss_bps)) \div Den ELSE s
        tds == (r.qty * sa * tds_rate) \div Den
        gst == (r.qty * SimFee(b, sa) * gst_on_fee_rate) \div Den
        q1  == committed - ledger_delta(r.buy_price, r.sell_price, r.qty)
                 + ledger_delta(b, s, r.qty)
        q2  == IF leg_failed
               THEN q1 - ledger_delta(b, s, r.qty) + ledger_delta(b, sa, r.qty)
               ELSE q1
    IN  /\ quote' = q2 - (tds + gst)
        /\ Record(r.qty * (sa - b - SimFee(b, sa)) - tds - gst)

SimSubmit(r, committed) ==
    /\ attempts' = attempts + 1
    /\ \/ Unfilled(r, committed)
       \/ \E leg_failed \in BOOLEAN : Filled(r, committed, leg_failed)

\* PaperTradeHandler::submit() only records; attempts here counts for the bound.
PaperSubmit(r, committed) ==
    /\ attempts' = attempts + 1
    /\ quote' = committed
    /\ Record(r.net * r.qty)

Submit(r, committed) ==
    \/ handler = "sim" /\ SimSubmit(r, committed)
    \/ handler = "paper" /\ PaperSubmit(r, committed)
-----------------------------------------------------------------------------
DropTick(t) ==
    /\ ~ValidTick(t)
    /\ request' = {}
    /\ UNCHANGED <<handler, state, quote, bodies, attempts, log>>

QuietTick(t) ==
    /\ ValidTick(t)
    /\ state' = Updated(state, t)
    /\ Requests(state', t) = {}
    /\ request' = {}
    /\ UNCHANGED <<handler, quote, bodies, attempts, log>>

FireTick(t) ==
    /\ ValidTick(t) /\ attempts < MaxAttempts[handler]
    /\ state' = Updated(state, t)
    /\ \E r \in Requests(state', t) :
         /\ request' = {r}
         /\ bodies' = Patched(r)
         /\ Submit(r, quote + ledger_delta(r.buy_price, r.sell_price, r.qty))
    /\ UNCHANGED handler

Next == \E t \in Ticks[handler] : DropTick(t) \/ QuietTick(t) \/ FireTick(t)

Spec == Init /\ [][Next]_vars
-----------------------------------------------------------------------------
\* Every variable keeps its type.
TypeOK ==
    /\ \A i \in Indices : DOMAIN state[i] = DOMAIN EmptySlot
    /\ handler \in DOMAIN Ticks /\ {quote, earned} \subseteq Int
    /\ attempts \in 0 .. MaxAttempts[handler]
    /\ \A r \in request : {r.buy, r.sell} \subseteq Indices /\ r.buy # r.sell
    /\ Len(trades) <= MAX_TRADES /\ Len(trades) <= attempts

\* What the trade log says was earned is what the ledger gained: the deltas
\* taken back and put in again for a missed fill, for latency, for a failed leg
\* and for taxes cancel out.  It holds as long as the trade buffer has room and
\* --fee-rate leaves the fee alone.
Reconciles ==
    attempts <= MAX_TRADES /\ sim_fee_rate = FEE_RATE => quote = Seed + earned

\* An order never asks for more than the budget share of the balance it was
\* sized with, than the coin there is to sell, or than either book shows; in
\* particular an insolvent account does not trade, although the minimum is
\* taken over bit patterns in which a negative number is huge.
QtyWithinLimits ==
    [][\A r \in request' :
         /\ r.qty > 0 /\ r.qty <= Coin
         /\ r.qty <= state'[r.buy].ask_qty /\ r.qty <= state'[r.sell].bid_qty
         /\ r.qty * r.buy_price * Den <= quote * MAX_POSITION_PCT]_vars

\* An order is only sent on two quotes that were both received, one of them
\* just now and the other at most max_stale_ns before it in real time, also
\* when ticks arrive out of order and the unsigned age wraps.
NoStaleTrade ==
    \A r \in request :
      LET b == state[r.buy].ts
          s == state[r.sell].ts
      IN  /\ b # 0 /\ s # 0 /\ r.ts \in {b, s}
          /\ \A x \in {b, s} : r.ts - x \in 0 .. max_stale_ns

\* What is committed is a profit above both floors at the prices of the two
\* books, and the record's per-unit profit is that of those prices.
CommitsProfit ==
    \A r \in request :
      /\ r.net = Net(state[r.buy].ask, state[r.sell].bid)
      /\ r.net > MIN_PROFIT_USD
      /\ r.net > ProfitFloor(state, r.buy, r.sell)

\* The handler recomputes the template index from the request's venue and
\* pair; the body it finds there carries this order's price and quantity.
BodiesMatch ==
    \A r \in request :
      /\ bodies[map_to_index(r.buy_venue, r.pair)].buy
           = [price |-> r.buy_price, qty |-> r.qty]
      /\ bodies[map_to_index(r.sell_venue, r.pair)].sell
           = [price |-> r.sell_price, qty |-> r.qty]

\* The last look reads the book the signal was computed from: it never changes
\* the outcome, whatever the tick.
LastLookRedundant ==
    \A t \in Ticks[handler] :
      LET sig == evaluate_signal(state, t)
      IN  ValidTick(t) /\ sig.valid => LastLook(state[sig.buy].ask, state[sig.sell].bid)
=============================================================================
