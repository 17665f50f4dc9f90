----------------------------- MODULE LiveOrders -----------------------------
(* The life of an arbitrage order in live mode: the engine thread commits  *)
(* the profit to VirtualLedger, sends the two legs one after the other     *)
(* (LiveOrderHandler, OrderSender), registers them (OrderTracker) and from *)
(* time to time looks for timeouts; the order-updates thread writes what   *)
(* the exchange reports into the same tracker.  Nothing synchronises the   *)
(* two threads, so every access to a shared map is an action of its own.   *)
(*                                                                         *)
(* The k-th order sent is order k: order 2a-1 is the buy leg of arb a,     *)
(* order 2a its sell leg.  The number doubles as the exchange's order_id;  *)
(* local ids are what next_id_ hands out, the position in `orders`.        *)
(* External: the exchange, the network and the clock.                      *)
EXTENDS Integers, Sequences

CONSTANTS
    MaxArbs,    \* bound: arbitrages fired
    MaxUpdates, \* bound: order updates on their way at a time
    Reported,   \* bound: what may befall an order besides being executed
    Lossy,      \* bound: whether reports may be lost
    MaxRepeats, \* bound: reports delivered again
    BuyVenues,  \* bound: venues the instance buys on
    MaxAged,    \* bound: orders that get past order_timeout_ms
    MaxChecks,  \* bound: timeout checks begun when nothing changed since the last
    MayStop,    \* bound: whether the process may be told to stop
    Seed,       \* initial quote_balance
    Delta,      \* what apply_arb() adds for one arb
    Penalty     \* what the emergency sale of an unhedged buy leg costs

ASSUME LiveAssumption ==
    /\ MaxArbs \in Nat \ {0} /\ MaxChecks \in Nat
    /\ MaxUpdates \in Nat /\ MaxAged \in Nat
    /\ Reported \subseteq {"partial", "cancelled"}
    /\ MaxRepeats \in Nat /\ Lossy \in BOOLEAN /\ MayStop \in BOOLEAN
    /\ BuyVenues \subseteq {1, 2}
    /\ Seed \in Nat \ {0} /\ Delta \in Nat \ {0} /\ Penalty \in Nat \ {0}

VARIABLES
    epc,            \* engine thread: what it does next
    leg,            \* engine thread: the leg being sent or registered
    buy_venue,      \* engine thread: req.buy_venue
    fired,          \* arbs committed and submitted so far
    phase,          \* engine thread: in its loop, in the drain, or past both
    todo,           \* check_timeouts(): overdue orders not yet visited
    marking,        \* check_timeouts(): order seen PENDING, about to be marked
    rec,            \* check_timeouts(): next record of arb_pairs
    failures,       \* records returned by check_timeouts(), not yet handled
    bs,             \* handle_leg_failure(): the buy leg's state as it was read
    last_order_id,  \* OrderSender: per venue, "" is NoId
    orders,         \* OrderTracker::orders_
    oid_to_local,   \* OrderTracker::oid_to_local_
    arb_pairs,      \* OrderTracker::arb_pairs_
    quote_balance,  \* VirtualLedger
    ou,             \* order-updates thread: the update it is applying, a set
    exch,           \* external: each order at the exchange
    updates,        \* external: order updates on their way
    repeats,        \* external: this many were delivered again
    aged,           \* external: this many orders are past order_timeout_ms
    checks,         \* history: timeout checks begun without news
    news,           \* history: something a check reads changed since the last one
    booked,         \* history: net ledger movement per arb
    corrected,      \* history: arbs whose booking handle_leg_failure() corrected
    marked,         \* history: orders that were ever marked TIMEOUT
    alarms          \* history: hedge alarms raised, <<arb, kind>>

thread == <<epc, leg, buy_venue, fired, phase>>
check == <<todo, marking, rec, failures, bs>>
bound == <<checks, news>>
tracker == <<orders, oid_to_local, arb_pairs>>
money == <<quote_balance, booked, corrected, alarms>>
external == <<exch, updates, repeats, aged>>
vars == <<thread, check, bound, last_order_id, tracker, money, ou, external, marked>>

Arbs == 1 .. MaxArbs
Orders == 1 .. 2 * MaxArbs
Venues == {1, 2}
NoId == 0

OrderState == {"PENDING", "FILLED", "PARTIAL", "REJECTED", "TIMEOUT", "CANCELLED"}
ExchState == {"unsent", "flying", "open", "partial", "executed", "cancelled"}
Failed == {"TIMEOUT", "REJECTED"}

BuyOrder(a) == 2 * a - 1
SellOrder(a) == 2 * a
Leg(a, l) == IF l = "buy" THEN BuyOrder(a) ELSE SellOrder(a)
Current == Leg(fired, leg)
Venue == IF leg = "buy" THEN buy_venue ELSE 3 - buy_venue
\* Bug: local ids are counted from zero.
NextId_FromZero == Len(orders)
NextId == Len(orders) + 1

Init ==
    /\ epc = "idle" /\ leg = "buy" /\ buy_venue = 1 /\ fired = 0 /\ phase = "run"
    /\ todo = {} /\ marking = 0 /\ rec = 1 /\ failures = <<>>
    /\ bs = "PENDING" /\ checks = 0 /\ news = FALSE
    /\ last_order_id = [v \in Venues |-> NoId]
    /\ orders = <<>> /\ oid_to_local = <<>> /\ arb_pairs = <<>>
    /\ quote_balance = Seed /\ booked = [a \in Arbs |-> 0]
    /\ corrected = {}
    /\ ou = {} /\ marked = {} /\ alarms = {}
    /\ exch = [o \in Orders |-> "unsent"] /\ updates = <<>>
    /\ repeats = 0 /\ aged = 0
-----------------------------------------------------------------------------
(* Engine thread: commit and submit.                                       *)

Book(a, amount) ==
    /\ quote_balance' = quote_balance + amount
    /\ booked' = [booked EXCEPT ![a] = @ + amount]

\* process_tick(), called by the loop or by the drain, saw a signal that passed
\* the gates and try_arb().
Fire(v) ==
    /\ epc = "idle" /\ phase # "exit"
    /\ fired < MaxArbs
    /\ quote_balance > 0
    /\ fired' = fired + 1 /\ buy_venue' = v /\ leg' = "buy"
    /\ Book(fired + 1, Delta)
    /\ epc' = "send"
    /\ UNCHANGED <<phase, check, bound, last_order_id, tracker, corrected, alarms, ou,
                   external, marked>>

SendOrder ==
    /\ epc = "send"
    /\ last_order_id' = [last_order_id EXCEPT ![Venue] = NoId]
    /\ exch' = [exch EXCEPT ![Current] = "flying"]
    /\ epc' = "wait"
    /\ UNCHANGED <<leg, buy_venue, fired, phase, check, bound, tracker, money, ou,
                   updates, repeats, aged, marked>>

\* submit() sends the sell leg when the call for the buy leg has returned,
\* and registers both when the second call has returned.
AfterSend ==
    IF leg = "buy" THEN leg' = "sell" /\ epc' = "send"
                   ELSE leg' = "buy" /\ epc' = "oid"

SendAccepted ==
    /\ epc = "wait"
    /\ exch[Current] # "flying"
    /\ last_order_id' = [last_order_id EXCEPT ![Venue] = Current]
    /\ AfterSend
    /\ UNCHANGED <<buy_venue, fired, phase, check, bound, tracker, money, ou, external, marked>>

\* A curl error, an HTTP status other than 200 or a body without order_id.  The
\* order may have reached the exchange, or may yet: it stays "flying".
SendFailed ==
    /\ epc = "wait"
    /\ AfterSend
    /\ UNCHANGED <<buy_venue, fired, phase, check, bound, last_order_id, tracker, money, ou,
                   external, marked>>

\* Bug: the ids of the two venues are swapped when the legs are registered.
RegisterOid_Swapped ==
    /\ epc = "oid"
    /\ LET oid == last_order_id[3 - Venue]
       IN  oid_to_local' =
             IF oid = NoId \/ oid \in DOMAIN oid_to_local THEN oid_to_local
             ELSE [o \in DOMAIN oid_to_local \cup {oid} |->
                     IF o = oid THEN NextId ELSE oid_to_local[o]]
    /\ epc' = "order"
    /\ UNCHANGED <<leg, buy_venue, fired, phase, check, bound, last_order_id, orders,
                   arb_pairs, money, ou, external, marked>>

\* register_order(): the first of its two insertions (emplace: an id already
\* present is not overwritten).
RegisterOid ==
    /\ epc = "oid"
    /\ LET oid == last_order_id[Venue]
       IN  oid_to_local' =
             IF oid = NoId \/ oid \in DOMAIN oid_to_local THEN oid_to_local
             ELSE [o \in DOMAIN oid_to_local \cup {oid} |->
                     IF o = oid THEN NextId ELSE oid_to_local[o]]
    /\ epc' = "order"
    /\ UNCHANGED <<leg, buy_venue, fired, phase, check, bound, last_order_id, orders,
                   arb_pairs, money, ou, external, marked>>

\* register_order(): the second insertion; after the sell leg's, track_arb()
\* appends the record.
RegisterOrder ==
    /\ epc = "order"
    /\ orders' = Append(orders, [oid |-> last_order_id[Venue], state |-> "PENDING"])
    /\ IF leg = "buy"
         THEN leg' = "sell" /\ epc' = "oid" /\ UNCHANGED arb_pairs
         ELSE /\ leg' = "buy" /\ epc' = "idle"
              /\ arb_pairs' = Append(arb_pairs, [buy |-> NextId - 1, sell |-> NextId])
    /\ UNCHANGED <<buy_venue, fired, phase, check, bound, last_order_id, oid_to_local, money,
                   ou, external, marked>>
-----------------------------------------------------------------------------
(* Engine thread: check_timeouts(), then handle_leg_failure() per record.  *)

\* now_ns is read once: the orders overdue are settled here, their states are
\* read one by one afterwards.
CheckTimeouts ==
    /\ epc = "idle" /\ phase = "run" /\ aged > 0
    /\ news \/ checks < MaxChecks
    /\ checks' = IF news THEN checks ELSE checks + 1
    /\ news' = FALSE
    /\ todo' = 1 .. aged
    /\ epc' = "scan"
    /\ UNCHANGED <<leg, buy_venue, fired, phase, marking, rec, failures, bs,
                   last_order_id, tracker, money, ou, external, marked>>

ScanOrder(n) ==
    /\ epc = "scan" /\ n \in todo
    /\ todo' = todo \ {n}
    /\ IF orders[n].state = "PENDING" THEN marking' = n /\ epc' = "mark"
                                      ELSE UNCHANGED <<marking, epc>>
    /\ UNCHANGED <<leg, buy_venue, fired, phase, rec, failures, bs, bound,
                   last_order_id, tracker, money, ou, external, marked>>

\* Bug: the overdue order is noticed but its state is left alone.
MarkTimeout_Forget ==
    /\ epc = "mark"
    /\ epc' = "scan" /\ marking' = 0
    /\ UNCHANGED <<leg, buy_venue, fired, phase, todo, rec, failures, bs, bound,
                   last_order_id, tracker, money, ou, external, marked>>

\* Bug: the whole pair is marked when one of its legs is overdue.
MarkTimeout_WholePair ==
    /\ epc = "mark"
    /\ LET pair == {n \in DOMAIN orders : (n + 1) \div 2 = (marking + 1) \div 2}
       IN  /\ orders' = [n \in DOMAIN orders |->
                          IF n \in pair THEN [orders[n] EXCEPT !.state = "TIMEOUT"]
                                        ELSE orders[n]]
           /\ marked' = marked \cup pair
    /\ epc' = "scan" /\ marking' = 0 /\ news' = TRUE
    /\ UNCHANGED <<leg, buy_venue, fired, phase, todo, rec, failures, bs, checks,
                   last_order_id, oid_to_local, arb_pairs, money, ou, external>>

MarkTimeout ==
    /\ epc = "mark"
    /\ orders' = [orders EXCEPT ![marking].state = "TIMEOUT"]
    /\ marked' = marked \cup {marking}
    /\ epc' = "scan" /\ marking' = 0 /\ news' = TRUE
    /\ UNCHANGED <<leg, buy_venue, fired, phase, todo, rec, failures, bs, checks,
                   last_order_id, oid_to_local, arb_pairs, money, ou, external>>

\* The two reads are one step: only this thread writes TIMEOUT.
TimedOut(a) ==
    \/ orders[arb_pairs[a].buy].state = "TIMEOUT"
    \/ orders[arb_pairs[a].sell].state = "TIMEOUT"

\* Bug: a leg that is still open counts as a failed one.
CollectRecord_AnyUnfilled ==
    /\ epc = "scan" /\ todo = {} /\ rec <= Len(arb_pairs)
    /\ failures' = IF \/ orders[arb_pairs[rec].buy].state # "FILLED"
                      \/ orders[arb_pairs[rec].sell].state # "FILLED"
                   THEN Append(failures, rec) ELSE failures
    /\ rec' = rec + 1
    /\ UNCHANGED <<thread, todo, marking, bs, bound, last_order_id, tracker,
                   money, ou, external, marked>>

CollectRecord ==
    /\ epc = "scan" /\ todo = {} /\ rec <= Len(arb_pairs)
    /\ failures' = IF TimedOut(rec) THEN Append(failures, rec) ELSE failures
    /\ rec' = rec + 1
    /\ UNCHANGED <<thread, todo, marking, bs, bound, last_order_id, tracker,
                   money, ou, external, marked>>

HandleBuyLeg ==
    /\ epc = "scan" /\ todo = {} /\ rec > Len(arb_pairs)
    /\ failures # <<>>
    /\ bs' = orders[arb_pairs[Head(failures)].buy].state
    /\ epc' = "sell_leg"
    /\ UNCHANGED <<leg, buy_venue, fired, phase, todo, marking, rec, failures, bound,
                   last_order_id, tracker, money, ou, external, marked>>

Adjust(a, amount) == Book(a, amount) /\ corrected' = corrected \cup {a}

\* Bug: a leg that is partly filled is taken for a filled one.
Correct_PartialCounts(a, ss) ==
    \/ /\ bs = "FILLED" /\ ss = "FILLED"
       /\ UNCHANGED money
    \/ /\ bs \in {"FILLED", "PARTIAL"} /\ ss \in Failed
       /\ Adjust(a, -Penalty)
       /\ alarms' = alarms \cup {<<a, "long">>}
    \/ /\ ss = "FILLED" /\ bs \in Failed
       /\ Adjust(a, -Delta)
       /\ alarms' = alarms \cup {<<a, "short">>}

\* Bug: the case of a filled sell leg is missing and falls into the last one.
Correct_LongOnly(a, ss) ==
    \/ /\ bs = "FILLED" /\ ss = "FILLED"
       /\ UNCHANGED money
    \/ /\ bs = "FILLED" /\ ss \in Failed
       /\ Adjust(a, -Penalty)
       /\ alarms' = alarms \cup {<<a, "long">>}
    \/ /\ ~(bs = "FILLED" /\ ss \in Failed \cup {"FILLED"})
       /\ Adjust(a, -Delta)
       /\ UNCHANGED alarms

\* The sell leg's state is read and the ledger corrected.
Correct(a, ss) ==
    \/ /\ bs = "FILLED" /\ ss = "FILLED"
       /\ UNCHANGED money
    \/ /\ bs = "FILLED" /\ ss \in Failed
       /\ Adjust(a, -Penalty)
       /\ alarms' = alarms \cup {<<a, "long">>}
    \/ /\ ss = "FILLED" /\ bs \in Failed
       /\ Adjust(a, -Delta)
       /\ alarms' = alarms \cup {<<a, "short">>}
    \/ /\ ~(bs = "FILLED" /\ ss \in Failed \cup {"FILLED"})
       /\ ~(ss = "FILLED" /\ bs \in Failed)
       /\ Adjust(a, -Delta)
       /\ UNCHANGED alarms

HandleSellLeg ==
    /\ epc = "sell_leg"
    /\ LET a == Head(failures)
       IN  Correct(a, orders[arb_pairs[a].sell].state)
    /\ failures' = Tail(failures) /\ bs' = "PENDING"
    /\ epc' = "scan"
    /\ UNCHANGED <<leg, buy_venue, fired, phase, todo, marking, rec, bound,
                   last_order_id, tracker, ou, external, marked>>

CheckDone ==
    /\ epc = "scan" /\ todo = {} /\ rec > Len(arb_pairs) /\ failures = <<>>
    /\ epc' = "idle" /\ rec' = 1
    /\ UNCHANGED <<leg, buy_venue, fired, phase, todo, marking, failures, bs, bound, last_order_id, tracker, money,
                   ou, external, marked>>
-----------------------------------------------------------------------------
(* Engine thread: the end of engine_loop().                                *)

\* The loop reads g_running, which a signal or the deadline has cleared.
LeaveLoop ==
    /\ MayStop
    /\ epc = "idle" /\ phase = "run"
    /\ phase' = "drain"
    /\ UNCHANGED <<epc, leg, buy_venue, fired, check, bound, last_order_id, tracker,
                   money, ou, external, marked>>

\* The drain finds the ring empty.
DrainDone ==
    /\ epc = "idle" /\ phase = "drain"
    /\ phase' = "exit"
    /\ UNCHANGED <<epc, leg, buy_venue, fired, check, bound, last_order_id, tracker,
                   money, ou, external, marked>>
-----------------------------------------------------------------------------
(* Order-updates thread: update_by_exchange_oid(), then update().          *)

\* Bug: a partial execution is taken for a complete one.
StateOf_PartialIsFilled(status) ==
    CASE status \in {"executed", "partial"} -> "FILLED"
      [] status = "cancelled" -> "CANCELLED"
      [] OTHER -> "PENDING"

StateOf(status) ==
    CASE status = "executed"  -> "FILLED"
      [] status = "partial"   -> "PARTIAL"
      [] status = "cancelled" -> "CANCELLED"
      [] OTHER                -> "PENDING"

\* An id that is not (or not yet) registered is dropped.  ou_thread subscribes
\* on every "connected" ack: a connection acked twice is subscribed twice and
\* may get the report again, behind those sent meanwhile.
TakeUpdate ==
    /\ ou = {} /\ updates # <<>>
    /\ LET u == Head(updates)
       IN  ou' = IF u.oid \in DOMAIN oid_to_local
                 THEN {[local |-> oid_to_local[u.oid], state |-> StateOf(u.status)]}
                 ELSE {}
    /\ \/ updates' = Tail(updates) /\ UNCHANGED repeats
       \/ /\ repeats < MaxRepeats /\ repeats' = repeats + 1
          /\ updates' = Append(Tail(updates), Head(updates))
    /\ UNCHANGED <<thread, check, bound, last_order_id, tracker, money, exch,
                   aged, marked>>

\* So is one whose order is not yet in orders_.
WriteUpdate ==
    /\ \E u \in ou :
         orders' = IF u.local <= Len(orders)
                   THEN [orders EXCEPT ![u.local].state = u.state] ELSE orders
    /\ ou' = {} /\ news' = TRUE
    /\ UNCHANGED <<thread, check, checks, last_order_id, oid_to_local, arb_pairs, money,
                   external, marked>>
-----------------------------------------------------------------------------
(* External: exchange, order-updates connection, clock.                    *)

\* An order changes state; the report of it is sent, or never arrives: what is
\* sent while the order-updates WebSocket is down, or is on its way when it
\* breaks, is not sent again after a reconnection.
Report(o, status) ==
    /\ exch' = [exch EXCEPT ![o] = status]
    /\ \/ /\ Len(updates) < MaxUpdates
          /\ updates' = Append(updates, [oid |-> o, status |-> status])
       \/ Lossy /\ UNCHANGED updates
    /\ UNCHANGED <<thread, check, bound, last_order_id, tracker, money, ou,
                   repeats, aged, marked>>

Accept(o) == exch[o] = "flying" /\ Report(o, "open")
Partial(o) == "partial" \in Reported /\ exch[o] = "open" /\ Report(o, "partial")
Execute(o) == exch[o] \in {"open", "partial"} /\ Report(o, "executed")
Cancel(o) == "cancelled" \in Reported /\ exch[o] \in {"open", "partial"} /\ Report(o, "cancelled")

\* Orders are stamped in the order they are registered, so they expire in it.
Expire ==
    /\ aged < Len(orders) /\ aged < MaxAged
    /\ aged' = aged + 1 /\ news' = TRUE
    /\ UNCHANGED <<thread, check, checks, last_order_id, tracker, money, ou, exch,
                   updates, repeats, marked>>
-----------------------------------------------------------------------------
Check ==
    \/ \E n \in Orders : ScanOrder(n)
    \/ MarkTimeout \/ CollectRecord
    \/ HandleBuyLeg \/ HandleSellLeg \/ CheckDone

Engine ==
    \/ \E v \in BuyVenues : Fire(v)
    \/ SendOrder \/ SendAccepted \/ SendFailed
    \/ RegisterOid \/ RegisterOrder
    \/ CheckTimeouts \/ Check
    \/ LeaveLoop \/ DrainDone

\* The thread is stopped and joined some time after the engine's loop has
\* ended: nothing says how many reports it still applies.
OrderUpdates == TakeUpdate \/ WriteUpdate

Environment ==
    \/ \E o \in Orders :
         Accept(o) \/ Partial(o) \/ Execute(o) \/ Cancel(o)
    \/ Expire

Next == Engine \/ OrderUpdates \/ Environment

Spec == Init /\ [][Next]_vars

\* The engine's loop reaches the timeout check every 65536 turns whatever it
\* does between them (strong fairness: it also fires in between); a check and
\* a submit run to their end; the drain ends; time passes.  No fairness is
\* assumed of the signal, the REST call, the exchange or the connection, nor
\* of the order-updates thread once it is being stopped.
FairSpec ==
    /\ Spec
    /\ SF_vars(CheckTimeouts) /\ WF_vars(Check)
    /\ WF_vars(SendOrder) /\ WF_vars(RegisterOid) /\ WF_vars(RegisterOrder)
    /\ WF_vars(phase = "run" /\ OrderUpdates) /\ WF_vars(Expire)
    /\ WF_vars(DrainDone)
-----------------------------------------------------------------------------
Registered == 1 .. Len(orders)

EngineType ==
    /\ epc \in {"idle", "send", "wait", "oid", "order", "scan", "mark",
                "sell_leg"}
    /\ leg \in {"buy", "sell"} /\ buy_venue \in Venues /\ fired \in 0 .. MaxArbs
    /\ phase \in {"run", "drain", "exit"}
    /\ last_order_id \in [Venues -> Orders \cup {NoId}]

CheckType ==
    /\ todo \subseteq Orders /\ marking \in Nat
    /\ rec \in Nat /\ failures \in Seq(Arbs) /\ bs \in OrderState
    /\ checks \in Nat /\ news \in BOOLEAN
    /\ aged \in Nat /\ marked \subseteq Orders

TrackerType ==
    /\ orders \in Seq([oid : Orders \cup {NoId}, state : OrderState])
    /\ arb_pairs \in Seq([buy : Orders, sell : Orders])
    /\ DOMAIN oid_to_local \subseteq Orders
    /\ oid_to_local \in [DOMAIN oid_to_local -> Orders]

LedgerType ==
    /\ quote_balance \in Int /\ booked \in [Arbs -> Int]
    /\ corrected \subseteq Arbs
    /\ alarms \subseteq Arbs \X {"long", "short"}

ReportType ==
    /\ ou \subseteq [local : Orders, state : OrderState]
    /\ exch \in [Orders -> ExchState]
    /\ updates \in Seq([oid : Orders, status : ExchState]) /\ repeats \in Nat

\* Every variable keeps its type.
TypeOK == EngineType /\ CheckType /\ TrackerType /\ LedgerType /\ ReportType

\* The tracker knows each order under its own id: the exchange's order_id
\* leads to the local id of that very order (never to a leg of another arb or
\* of the other venue), the stored id is that of a send that succeeded, and
\* the record of an arb names the two orders sent for it.
TrackerConsistent ==
    /\ \A o \in DOMAIN oid_to_local : oid_to_local[o] = o
    /\ \A n \in Registered :
         \/ orders[n].oid = NoId
         \/ /\ orders[n].oid = n /\ n \in DOMAIN oid_to_local
            /\ exch[n] \notin {"unsent", "flying"}
    /\ \A a \in 1 .. Len(arb_pairs) :
         arb_pairs[a] = [buy |-> BuyOrder(a), sell |-> SellOrder(a)]

\* The exchange states a tracker state may stand for.
Means(state) ==
    CASE state = "FILLED"    -> {"executed"}
      [] state = "PARTIAL"   -> {"partial", "executed", "cancelled"}
      [] state = "CANCELLED" -> {"cancelled"}
      [] OTHER               -> ExchState

\* What the tracker believes of an order was true at the exchange and still
\* is, however late the report was applied: no fill, part fill or
\* cancellation is attributed to an order that did not have it.
NoPhantomFill == \A n \in Registered : exch[n] \in Means(orders[n].state)

\* A hedge alarm names a leg that was really executed, even though the two
\* legs' states are read at different moments.
AlarmTruthful ==
    \A a \in Arbs :
      /\ <<a, "long">> \in alarms => exch[BuyOrder(a)] = "executed"
      /\ <<a, "short">> \in alarms => exch[SellOrder(a)] = "executed"

\* The booking of an arb is only corrected (in full, or by the penalty) after
\* one of its own legs was found overdue and marked.
CorrectedAfterTimeout ==
    \A a \in corrected : {BuyOrder(a), SellOrder(a)} \cap marked # {}

\* When every report arrives at most once and in the order it was sent, a
\* recorded fill is final: no report of an earlier state, however late it is
\* applied, undoes it.  Excepted is the fill written between the read and the
\* write of check_timeouts(), which the mark then overwrites (the run race).
FillIsFinal ==
    [][\A n \in Registered :
         orders[n].state = "FILLED" /\ marking # n
           => orders'[n].state = "FILLED"]_vars

EngineKeepsTurning == []<>(epc = "idle" /\ phase = "run")

\* As long as the engine is in its loop and its REST calls return, no order stays PENDING for
\* ever: a report or the timeout resolves it, also when a report of an
\* earlier state arrives after the timeout mark.
Pending(n) == n \in Registered /\ orders[n].state = "PENDING"

OverdueResolves ==
    EngineKeepsTurning => \A n \in Orders : []<>~Pending(n)

\* A pair with one leg filled and the other timed out is noticed, whichever
\* leg it is: unless a later report settles the pair differently, the alarm
\* that names the filled leg is raised.
Unhedged(a, kind) ==
    /\ SellOrder(a) \in Registered
    /\ LET filled == IF kind = "long" THEN BuyOrder(a) ELSE SellOrder(a)
           other  == IF kind = "long" THEN SellOrder(a) ELSE BuyOrder(a)
       IN  orders[filled].state = "FILLED" /\ orders[other].state = "TIMEOUT"

HedgeIsRaised ==
    EngineKeepsTurning =>
      \A a \in Arbs, kind \in {"long", "short"} :
        Unhedged(a, kind) ~> (~Unhedged(a, kind) \/ <<a, kind>> \in alarms)
=============================================================================
