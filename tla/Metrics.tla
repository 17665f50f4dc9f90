------------------------------- MODULE Metrics -------------------------------
(* compute_metrics(): the summary of a session, in one pass over the       *)
(* records the order handler kept.  The records grow one trade at a time;  *)
(* then, at the end of the program, the loop takes them one by one.        *)
(*                                                                         *)
(* Amounts are integers in a unit that every count of trades divides, so   *)
(* that the running mean is exact; a ratio is kept as a numerator and      *)
(* denominator.  The square root of the Sharpe ratio is not taken.         *)
EXTENDS RunningSums

CONSTANTS
    initial_balance,
    Pnls,      \* net_pnl of a trade
    MaxTrades  \* bound: trades recorded

\* An account without a balance does not trade, so there are no records of it.
ASSUME MetricsAssumption ==
    /\ initial_balance \in Nat \ {0} /\ MaxTrades \in Nat
    /\ \A p \in Pnls : p \in Int /\ \A n \in 1 .. MaxTrades : p % n = 0

VARIABLES
    records,  \* TradeRecord::net_pnl, in order
    i,        \* records the loop has been through
    tally,    \* total_pnl, wins, leg_failure_count
    equity,   \* balance, peak and max_drawdown_pct, which is fall.amount / fall.of
    welford   \* wf_mean, wf_M2

vars == <<records, i, tally, equity, welford>>

Init ==
    /\ records = <<>> /\ i = 0
    /\ tally = [total_pnl |-> 0, wins |-> 0, leg_failure_count |-> 0]
    /\ equity = [balance |-> initial_balance, peak |-> initial_balance,
                 fall |-> [amount |-> 0, of |-> 1]]
    /\ welford = [mean |-> 0, M2 |-> 0]

\* The handler records a trade; the summary has not begun.
Trade(pnl) ==
    /\ i = 0 /\ Len(records) < MaxTrades
    /\ records' = Append(records, pnl)
    /\ UNCHANGED <<i, tally, equity, welford>>
-----------------------------------------------------------------------------
Larger(f, g) == f.amount * g.of > g.amount * f.of

\* Bug: the fall is taken from the balance before the trade.
Drawdown_NoPeak(pnl) ==
    LET balance == equity.balance + pnl
        peak    == IF pnl < 0 THEN equity.balance ELSE balance
        fall    == [amount |-> peak - balance, of |-> peak]
    IN  [balance |-> balance, peak |-> peak,
         fall |-> IF Larger(fall, equity.fall) THEN fall ELSE equity.fall]

\* The equity peak and the largest fall from it.
Drawdown(pnl) ==
    LET balance == equity.balance + pnl
        peak    == IF balance > equity.peak THEN balance ELSE equity.peak
        fall    == [amount |-> peak - balance, of |-> peak]
    IN  [balance |-> balance, peak |-> peak,
         fall |-> IF Larger(fall, equity.fall) THEN fall ELSE equity.fall]

\* Bug: the square of the difference to the old mean is summed up.
Welford_OldMean(pnl) ==
    LET n     == i + 1
        delta == pnl - welford.mean
    IN  [mean |-> welford.mean + delta \div n, M2 |-> welford.M2 + delta * delta]

\* The running mean and sum of squared deviations.
Welford(pnl) ==
    LET n     == i + 1
        delta == pnl - welford.mean
        mean  == welford.mean + delta \div n
    IN  [mean |-> mean, M2 |-> welford.M2 + delta * (pnl - mean)]

\* One turn of the loop.
compute_metrics ==
    /\ i < Len(records) /\ i' = i + 1
    /\ LET pnl == records[i + 1]
       IN  /\ tally' = [total_pnl |-> tally.total_pnl + pnl,
                        wins |-> IF pnl > 0 THEN tally.wins + 1 ELSE tally.wins,
                        leg_failure_count |->
                          IF pnl < 0 THEN tally.leg_failure_count + 1
                                     ELSE tally.leg_failure_count]
           /\ equity' = Drawdown(pnl) /\ welford' = Welford(pnl)
    /\ UNCHANGED records

Next == (\E pnl \in Pnls : Trade(pnl)) \/ compute_metrics

Spec == Init /\ [][Next]_vars
-----------------------------------------------------------------------------
\* The balance after the first k trades.
Equity(k) == initial_balance + RunningSum(records)[k]

FallBetween(j, k) == [amount |-> Equity(j) - Equity(k), of |-> Equity(j)]

\* No balance up to moment k was above that at moment j.
PeakAt(j, k) == \A m \in 0 .. k : Equity(m) <= Equity(j)

\* The drawdown that one pass finds is the largest fall from a peak of the
\* balance to a later moment, also to one below zero, and it is one that
\* happened.  It is a share of that peak, not of the initial balance as
\* metrics.hpp has it: measured by the initial balance it may be larger, and
\* another fall the largest.
DrawdownIsLargestFall ==
    /\ \A k \in 0 .. i : \A j \in 0 .. k :
         PeakAt(j, k) => ~Larger(FallBetween(j, k), equity.fall)
    /\ equity.fall.amount > 0 =>
         \E k \in 0 .. i : \E j \in 0 .. k :
           PeakAt(j, k) /\ equity.fall = FallBetween(j, k)

\* The squared deviations of the first i records from c.
Squares(c) == [k \in 1 .. i |-> (records[k] - c) * (records[k] - c)]

\* The running mean is the average that is printed beside it, and M2 the sum of
\* the squared deviations from this last mean, not from those of its time:
\* the Sharpe ratio is that of all trades taken together.
WelfordIsExact ==
    /\ welford.mean * i = RunningSum(records)[i]
    /\ tally.total_pnl = RunningSum(records)[i]
    /\ welford.M2 = Total(Squares(welford.mean))
=============================================================================
