----------------------------- MODULE MCBacktest -----------------------------
(* Backtest on a small instance: one pair, prices in ten-thousandths.      *)
EXTENDS Backtest

Unit == 10000

\* Books as <<bid, ask>>: two that leave a wide spread, one a narrow one that
\* lies between the absolute and the relative profit floor.
Books == {<<9, 10>>, <<14, 15>>, <<30, 31>>}
\* Depths as <<bid_qty, ask_qty>>: balanced, thin, empty, and a negative one.
Depths == {<<2, 2>>, <<5, 1>>, <<0, 9>>, <<-1, 2>>}

TicksOf(books, depths, times, etimes) ==
    {[venue |-> v, pair |-> 0, bid |-> b[1] * Unit, ask |-> b[2] * Unit,
      bid_qty |-> d[1], ask_qty |-> d[2], ts |-> ts, ets |-> ets]
       : v \in {1, 2}, b \in books, d \in depths, ts \in times, ets \in etimes}

\* A venue and a pair that do not exist.
Malformed ==
    {[venue |-> v[1], pair |-> v[2], bid |-> Unit, ask |-> Unit, bid_qty |-> 1,
      ask_qty |-> 1, ts |-> 1, ets |-> 0] : v \in {<<1, 1>>, <<3, 0>>}}

\* With the paper handler the times vary, also backwards; with the simulation,
\* whose draws multiply the states, the depths do.
HandlerTicks ==
    [paper |-> TicksOf(Books, {<<2, 2>>}, {1, 2, 4}, {0, 3, 6}) \cup Malformed,
     sim   |-> TicksOf(Books, Depths, {1}, {0}) \cup Malformed]

\* The paper handler goes on when the trade buffer is full.
HandlerAttempts == [paper |-> 3, sim |-> 2]
=============================================================================
