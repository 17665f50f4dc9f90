---------------------------- MODULE MCLiveOrders ----------------------------
(* LiveOrders on small instances, and what comments in the source say of   *)
(* it that the code does not do.                                           *)
EXTENDS LiveOrders

\* "reverse the apply_arb() delta that was committed": an arb's profit is
\* taken back at most once, however many timeout checks follow.
ReversedOnce == \A a \in Arbs : booked[a] \in {0, Delta, Delta - Penalty}

\* Everything has come to rest: the exchange is done with every order, every
\* report was applied or dropped, every order is overdue and the timeout
\* check has seen all of it.
Settled ==
    /\ epc = "idle" /\ updates = <<>> /\ ou = {} /\ ~news
    /\ aged = Len(orders)
    /\ \A o \in 1 .. 2 * fired : exch[o] \in {"executed", "cancelled"}

Executed(a) == exch[BuyOrder(a)] = "executed" /\ exch[SellOrder(a)] = "executed"
Unfilled(a) == exch[BuyOrder(a)] = "cancelled" /\ exch[SellOrder(a)] = "cancelled"

\* The order-updates thread "keeps VirtualLedger accurate in live mode": when
\* all is settled, an arb whose two legs were executed has its profit on the
\* ledger, and an arb that bought and sold nothing has left none there.
LedgerAccurate ==
    Settled =>
      \A a \in 1 .. fired :
        /\ Executed(a) => booked[a] = Delta
        /\ Unfilled(a) => booked[a] = 0

\* check_timeouts() shall "walk all PENDING orders" and "mark TIMEOUT when
\* older than timeout_ms": what it marks is PENDING when it is marked, never an
\* order whose fill or cancellation is already on record.
OnlyPendingTimesOut ==
    [][\A n \in Registered :
         orders[n].state # "TIMEOUT" /\ orders'[n].state = "TIMEOUT"
           => orders[n].state = "PENDING"]_vars
=============================================================================
