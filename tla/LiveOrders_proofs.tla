-------------------------- MODULE LiveOrders_proofs --------------------------
(* Theorems about LiveOrders, for any number of arbitrages, any bounds and *)
(* any amounts: every variable keeps its type, the tracker names each      *)
(* order by its own id, what it believes of an order is true at the        *)
(* exchange, a hedge alarm names a leg that was executed, an arb's booking *)
(* is only corrected after a leg of its own was marked overdue, and, when  *)
(* no report is repeated, a recorded fill stays.                           *)
EXTENDS LiveOrders, TLAPS

InCheck == epc \in {"scan", "mark", "sell_leg"}

\* How far submit() has come, by the lengths of what it fills.
Progress ==
    /\ epc = "idle" \/ InCheck =>
         leg = "buy" /\ Len(orders) = 2 * fired /\ Len(arb_pairs) = fired
    /\ epc \in {"send", "wait"} =>
         fired >= 1 /\ Len(orders) = 2 * fired - 2 /\ Len(arb_pairs) = fired - 1
    /\ epc \in {"oid", "order"} =>
         /\ fired >= 1 /\ Len(arb_pairs) = fired - 1
         /\ leg = "buy"  => Len(orders) = 2 * fired - 2
         /\ leg = "sell" => Len(orders) = 2 * fired - 1

\* A timeout check only points at what is registered.
CheckInv ==
    /\ aged <= Len(orders) /\ todo \subseteq 1 .. Len(orders)
    /\ epc = "mark" => marking \in 1 .. Len(orders)
    /\ rec >= 1
    /\ \A i \in DOMAIN failures : failures[i] <= Len(arb_pairs)
    /\ epc = "sell_leg" => failures # <<>>

Sent == {"open", "partial", "executed", "cancelled"}

BuyId == last_order_id[buy_venue]
SellId == last_order_id[3 - buy_venue]

\* Between a send and its registration, last_order_id_ is that of the leg or
\* none; otherwise it is that of an order registered before.
IdsInv ==
    /\ \A v \in Venues : last_order_id[v] # NoId => exch[last_order_id[v]] \in Sent
    /\ epc = "idle" \/ InCheck \/ (epc = "send" /\ leg = "buy") =>
         \A v \in Venues : last_order_id[v] <= Len(orders)
    /\ epc = "wait" => exch[Current] # "unsent"
    /\ epc = "wait" /\ leg = "buy" => BuyId = NoId /\ SellId <= Len(orders)
    /\ epc = "send" /\ leg = "sell" =>
         BuyId \in {NoId, BuyOrder(fired)} /\ SellId <= Len(orders)
    /\ epc = "wait" /\ leg = "sell" =>
         BuyId \in {NoId, BuyOrder(fired)} /\ SellId = NoId
    /\ epc \in {"oid", "order"} =>
         BuyId \in {NoId, BuyOrder(fired)} /\ SellId \in {NoId, SellOrder(fired)}

\* oid_to_local_ holds registered orders, and between the two insertions of
\* register_order() the one being registered.
MapInv ==
    /\ \A o \in DOMAIN oid_to_local :
         o <= Len(orders) \/ (epc = "order" /\ o = Len(orders) + 1)
    /\ epc = "order" =>
         last_order_id[Venue] = NoId \/ last_order_id[Venue] \in DOMAIN oid_to_local

Structure == Progress /\ CheckInv /\ IdsInv /\ MapInv /\ TrackerConsistent

Inv == TypeOK /\ Structure

\* Every report on its way, and the one being applied, is still true.
ReportsTrue ==
    /\ \A i \in DOMAIN updates : exch[updates[i].oid] \in Means(StateOf(updates[i].status))
    /\ \A u \in ou : exch[u.local] \in Means(u.state)

\* The state of the buy leg that handle_leg_failure() holds is still true.
HeldTrue ==
    epc = "sell_leg" => exch[BuyOrder(Head(failures))] \in Means(bs)

\* Orders of later sends are unknown to the exchange.
LaterUnsent ==
  \A o \in Orders :
    (o > 2 * fired \/ (epc = "send" /\ o >= Current) \/ (epc = "wait" /\ o > Current))
      => exch[o] = "unsent"

Truth == LaterUnsent /\ ReportsTrue /\ NoPhantomFill /\ HeldTrue /\ AlarmTruthful

\* Only MarkTimeout writes TIMEOUT, only a pair with such a leg is reported,
\* and only its booking is corrected.
OnlyMarked ==
    /\ \A n \in Registered : orders[n].state = "TIMEOUT" => n \in marked
    /\ \A u \in ou : u.state # "TIMEOUT"
    /\ \A i \in DOMAIN failures :
         {BuyOrder(failures[i]), SellOrder(failures[i])} \cap marked # {}
    /\ CorrectedAfterTimeout

\* As long as no report is repeated, "executed" is the last one of an order:
\* none is behind it in the queue, and none is left once it has been taken, nor
\* once it has been written.
LastReport ==
    /\ \A i, j \in DOMAIN updates :
         i < j /\ updates[i].oid = updates[j].oid => updates[i].status # "executed"
    /\ \A u \in ou : u.state = "FILLED" =>
         \A i \in DOMAIN updates : updates[i].oid # u.local
    /\ \A n \in Registered : orders[n].state = "FILLED" =>
         /\ \A i \in DOMAIN updates : updates[i].oid # n
         /\ \A u \in ou : u.local # n
-----------------------------------------------------------------------------
(* What the state updates of the tracker do.                               *)

OrderRec == [oid : Orders \cup {NoId}, state : OrderState]

\* Writing one order's state leaves its id, the other orders and the length.
LEMMA StateWritten ==
  \A s \in Seq(OrderRec) : \A n \in 1 .. Len(s) : \A st \in OrderState :
    LET r == [s EXCEPT ![n].state = st]
    IN  /\ r \in Seq(OrderRec) /\ Len(r) = Len(s)
        /\ r[n].state = st
        /\ \A m \in 1 .. Len(s) : m # n => r[m] = s[m]
        /\ \A m \in 1 .. Len(s) : r[m].oid = s[m].oid
<1> SUFFICES ASSUME NEW s \in Seq(OrderRec), NEW n \in 1 .. Len(s), NEW st \in OrderState
             PROVE  LET r == [s EXCEPT ![n].state = st]
                    IN  /\ r \in Seq(OrderRec) /\ Len(r) = Len(s)
                        /\ r[n].state = st
                        /\ \A m \in 1 .. Len(s) : m # n => r[m] = s[m]
                        /\ \A m \in 1 .. Len(s) : r[m].oid = s[m].oid
    OBVIOUS
<1> DEFINE x == [s[n] EXCEPT !.state = st]
           r == [s EXCEPT ![n] = x]
<1>1. s[n] \in OrderRec
    OBVIOUS
<1>2. x \in OrderRec /\ x.state = st /\ x.oid = s[n].oid
    BY <1>1 DEF OrderRec
<1>3. r \in Seq(OrderRec) /\ Len(r) = Len(s) /\ r[n] = x
        /\ \A m \in 1 .. Len(s) : m # n => r[m] = s[m]
    BY <1>2
<1> QED
    BY <1>2, <1>3

\* Registering an order adds it behind the others.
LEMMA OrderAppended ==
  \A s \in Seq(OrderRec) : \A x \in OrderRec :
    LET r == Append(s, x)
    IN  /\ r \in Seq(OrderRec) /\ Len(r) = Len(s) + 1
        /\ r[Len(s) + 1] = x
        /\ \A m \in 1 .. Len(s) : r[m] = s[m]
OBVIOUS

PairRec == [buy : Orders, sell : Orders]

LEMMA PairAppended ==
  \A s \in Seq(PairRec) : \A x \in PairRec :
    LET r == Append(s, x)
    IN  /\ r \in Seq(PairRec) /\ Len(r) = Len(s) + 1
        /\ r[Len(s) + 1] = x
        /\ \A a \in 1 .. Len(s) : r[a] = s[a]
OBVIOUS

UpdateRec == [oid : Orders, status : ExchState]

\* A report joins the queue behind the others and leaves it in front of them.
LEMMA UpdateQueued ==
  \A s \in Seq(UpdateRec) : \A x \in UpdateRec :
    /\ Append(s, x) \in Seq(UpdateRec)
    /\ \A i \in DOMAIN Append(s, x) :
         Append(s, x)[i] = x \/ (i \in DOMAIN s /\ Append(s, x)[i] = s[i])
OBVIOUS

LEMMA UpdateTaken ==
  \A s \in Seq(UpdateRec) : s # <<>> =>
    /\ Head(s) \in UpdateRec /\ Head(s) = s[1] /\ 1 \in DOMAIN s
    /\ Tail(s) \in Seq(UpdateRec)
    /\ \A i \in DOMAIN Tail(s) : i + 1 \in DOMAIN s /\ Tail(s)[i] = s[i + 1]
<1> SUFFICES ASSUME NEW s \in Seq(UpdateRec), s # <<>>
             PROVE  /\ Head(s) \in UpdateRec /\ Head(s) = s[1] /\ 1 \in DOMAIN s
                    /\ Tail(s) \in Seq(UpdateRec)
                    /\ \A i \in DOMAIN Tail(s) :
                         i + 1 \in DOMAIN s /\ Tail(s)[i] = s[i + 1]
    OBVIOUS
<1>1. Len(s) \in Nat /\ Len(s) >= 1 /\ DOMAIN s = 1 .. Len(s)
    OBVIOUS
<1>2. Head(s) = s[1] /\ 1 \in DOMAIN s /\ Head(s) \in UpdateRec
    BY <1>1
<1>3. Tail(s) \in Seq(UpdateRec) /\ Len(Tail(s)) = Len(s) - 1
    BY <1>1
<1>4. \A i \in 1 .. (Len(s) - 1) : i + 1 \in DOMAIN s /\ Tail(s)[i] = s[i + 1]
    BY <1>1
<1> QED
    BY <1>2, <1>3, <1>4

\* A report that is delivered again joins the queue behind the others.
LEMMA UpdateRequeued ==
  \A s \in Seq(UpdateRec) : s # <<>> =>
    LET r == Append(Tail(s), Head(s))
    IN  /\ r \in Seq(UpdateRec)
        /\ \A i \in DOMAIN r : \E j \in DOMAIN s : r[i] = s[j]
<1> SUFFICES ASSUME NEW s \in Seq(UpdateRec), s # <<>>
             PROVE  LET r == Append(Tail(s), Head(s))
                    IN  /\ r \in Seq(UpdateRec)
                        /\ \A i \in DOMAIN r : \E j \in DOMAIN s : r[i] = s[j]
    OBVIOUS
<1> DEFINE r == Append(Tail(s), Head(s))
<1>1. /\ Head(s) \in UpdateRec /\ Head(s) = s[1] /\ 1 \in DOMAIN s
      /\ Tail(s) \in Seq(UpdateRec)
      /\ \A i \in DOMAIN Tail(s) : i + 1 \in DOMAIN s /\ Tail(s)[i] = s[i + 1]
    BY UpdateTaken
<1>2. /\ r \in Seq(UpdateRec)
      /\ \A i \in DOMAIN r : r[i] = Head(s) \/ (i \in DOMAIN Tail(s) /\ r[i] = Tail(s)[i])
    BY <1>1, UpdateQueued
<1>3. \A i \in DOMAIN r : \E j \in DOMAIN s : r[i] = s[j]
    BY <1>1, <1>2
<1> QED
    BY <1>2, <1>3

\* Constants that the steps below use.
LEMMA Numbers ==
  /\ MaxArbs \in Nat /\ MaxArbs >= 1 /\ MaxAged \in Nat /\ MaxChecks \in Nat
  /\ Seed \in Int /\ Delta \in Int /\ Penalty \in Int
  /\ NoId \notin Orders /\ BuyVenues \subseteq Venues
  /\ \A a \in Arbs : BuyOrder(a) \in Orders /\ SellOrder(a) \in Orders
BY LiveAssumption DEF LiveAssumption, NoId, Orders, Arbs, BuyOrder, SellOrder, Venues

\* The exchange only moves an order that is not final, and to a state reached
\* after that one.
LEMMA ReportForm ==
  ASSUME TypeOK, NEW o \in Orders, Accept(o) \/ Partial(o) \/ Execute(o) \/ Cancel(o)
  PROVE  \E status \in Sent :
           /\ Report(o, status)
           /\ exch[o] \in {"flying", "open", "partial"}
           /\ exch[o] = "partial" => status \in {"executed", "cancelled"}
BY DEF Accept, Partial, Execute, Cancel, Sent
-----------------------------------------------------------------------------
(* Every step preserves Inv.                                               *)

engineVars == <<epc, leg, buy_venue, fired, last_order_id>>
checkVars == <<todo, marking, rec, failures, bs, checks, news, aged, marked>>

\* A part of the invariant stays true when its variables stay the same.
LEMMA Frames ==
  /\ EngineType /\ UNCHANGED <<engineVars, phase>> => EngineType'
  /\ CheckType /\ UNCHANGED checkVars => CheckType'
  /\ TrackerType /\ UNCHANGED tracker => TrackerType'
  /\ LedgerType /\ UNCHANGED money => LedgerType'
  /\ ReportType /\ UNCHANGED <<ou, exch, updates, repeats>> => ReportType'
  /\ Progress /\ UNCHANGED <<epc, leg, fired, orders, arb_pairs>> => Progress'
  /\ CheckInv /\ UNCHANGED <<epc, checkVars, orders, arb_pairs>> => CheckInv'
  /\ IdsInv /\ UNCHANGED <<engineVars, exch, orders>> => IdsInv'
  /\ MapInv /\ UNCHANGED <<engineVars, oid_to_local, orders>> => MapInv'
  /\ TrackerConsistent /\ UNCHANGED <<tracker, exch>> => TrackerConsistent'
<1>1. EngineType /\ UNCHANGED <<engineVars, phase>> => EngineType'
    BY DEF EngineType, engineVars
<1>2. CheckType /\ UNCHANGED checkVars => CheckType'
    BY DEF CheckType, checkVars
<1>3. TrackerType /\ UNCHANGED tracker => TrackerType'
    BY DEF TrackerType, tracker
<1>4. LedgerType /\ UNCHANGED money => LedgerType'
    BY DEF LedgerType, money
<1>5. ReportType /\ UNCHANGED <<ou, exch, updates, repeats>> => ReportType'
    BY DEF ReportType
<1>6. Progress /\ UNCHANGED <<epc, leg, fired, orders, arb_pairs>> => Progress'
    BY DEF Progress, InCheck
<1>7. CheckInv /\ UNCHANGED <<epc, checkVars, orders, arb_pairs>> => CheckInv'
    BY DEF CheckInv, checkVars
<1>8. IdsInv /\ UNCHANGED <<engineVars, exch, orders>> => IdsInv'
    BY DEF IdsInv, engineVars, BuyId, SellId, InCheck, Current
<1>9. MapInv /\ UNCHANGED <<engineVars, oid_to_local, orders>> => MapInv'
    BY DEF MapInv, engineVars, Venue
<1>10. TrackerConsistent /\ UNCHANGED <<tracker, exch>> => TrackerConsistent'
    BY DEF TrackerConsistent, tracker, Registered
<1> QED
    BY <1>1, <1>2, <1>3, <1>4, <1>5, <1>6, <1>7, <1>8, <1>9, <1>10

\* The two venues of an arb, and the order submit() works on.
LEMMA VenueFacts ==
  EngineType => /\ buy_venue \in Venues /\ 3 - buy_venue \in Venues
                /\ 3 - buy_venue # buy_venue
                /\ \A v \in Venues : v \in {buy_venue, 3 - buy_venue}
                /\ \A v \in Venues : last_order_id[v] \in Orders \cup {NoId}
                /\ Venue \in Venues
BY DEF EngineType, Venues, Venue

LEMMA CurrentFacts ==
  EngineType /\ fired >= 1 =>
    /\ Current \in Orders
    /\ leg = "buy"  => Current = 2 * fired - 1
    /\ leg = "sell" => Current = 2 * fired
BY Numbers DEF EngineType, Current, Leg, BuyOrder, SellOrder, Orders

\* Booking an amount on an arb keeps the ledger's types.
LEMMA BookType ==
  ASSUME LedgerType, NEW a \in Arbs, NEW amount \in Int, Book(a, amount)
  PROVE  quote_balance' \in Int /\ booked' \in [Arbs -> Int]
BY DEF LedgerType, Book

\* handle_leg_failure() corrects the booking by some amount or leaves it.
LEMMA CorrectForm ==
  ASSUME NEW a \in Arbs, NEW ss, Correct(a, ss)
  PROVE  (\E amount \in Int : Adjust(a, amount)) \/ UNCHANGED money
BY Numbers DEF Correct

LEMMA FireStep ==
  ASSUME Inv, NEW v \in BuyVenues, Fire(v)
  PROVE  Inv'
<1> USE DEF Inv, Structure, TypeOK
<1>1. fired + 1 \in Arbs /\ v \in Venues
    BY Numbers DEF Fire, EngineType, Arbs
<1>2. EngineType'
    BY <1>1 DEF Fire, EngineType, Arbs
<1>3. LedgerType'
    BY <1>1, BookType, Numbers DEF Fire, LedgerType
<1>4. Progress'
    BY <1>1, Numbers DEF Fire, Progress, InCheck, tracker, EngineType
<1>5. CheckInv'
    BY DEF Fire, CheckInv, check, tracker, external
<1>6. IdsInv'
    BY DEF Fire, IdsInv, InCheck, tracker, external
<1>7. MapInv'
    BY DEF Fire, MapInv, tracker
<1>8. CheckType' /\ TrackerType' /\ ReportType' /\ TrackerConsistent'
    BY Frames DEF Fire, check, bound, external, tracker, checkVars
<1> QED
    BY <1>2, <1>3, <1>4, <1>5, <1>6, <1>7, <1>8

LEMMA SendOrderStep ==
  ASSUME Inv, SendOrder
  PROVE  Inv'
<1> USE DEF Inv, Structure, TypeOK
<1>1. /\ Current \in Orders /\ Current > Len(orders)
      /\ leg = "sell" => BuyOrder(fired) < Current
    BY CurrentFacts, Numbers DEF SendOrder, Progress, EngineType, TrackerType, BuyOrder
<1>2. \A v \in Venues : v # Venue => last_order_id[v] < Current
  <2>1. CASE leg = "buy"
    <3>1. \A v \in Venues : last_order_id[v] <= Len(orders)
        BY <2>1 DEF SendOrder, IdsInv
    <3>2. Len(orders) \in Nat /\ Current \in Nat /\ \A v \in Venues : last_order_id[v] \in Nat
        BY <1>1, VenueFacts, Numbers DEF TrackerType, Orders, NoId
    <3> QED
        BY <1>1, <3>1, <3>2
  <2>2. CASE leg = "sell"
      BY <1>1, <2>2, VenueFacts, Numbers
         DEF SendOrder, IdsInv, EngineType, Venue, BuyId, Orders, NoId
  <2> QED
      BY <2>1, <2>2 DEF EngineType
<1>3. EngineType' /\ Venue' = Venue /\ Current' = Current
    BY VenueFacts DEF SendOrder, EngineType, Venue, Current
<1>4. ReportType' /\ exch'[Current] = "flying"
        /\ \A o \in Orders : o # Current => exch'[o] = exch[o]
    BY <1>1 DEF SendOrder, ReportType, ExchState
<1>5. Progress' /\ MapInv' /\ CheckInv'
    BY DEF SendOrder, Progress, MapInv, CheckInv, InCheck, tracker, check
<1>6. /\ last_order_id'[Venue] = NoId
      /\ \A v \in Venues : v # Venue => last_order_id'[v] = last_order_id[v]
    BY VenueFacts DEF SendOrder, EngineType
<1>7. IdsInv'
  <2>1. \A v \in Venues : last_order_id'[v] # NoId => exch'[last_order_id'[v]] \in Sent
      BY <1>1, <1>2, <1>4, <1>6, VenueFacts DEF IdsInv, Orders
  <2>2. /\ leg = "buy"  => BuyId' = NoId /\ SellId' = SellId
        /\ leg = "sell" => BuyId' = BuyId /\ SellId' = NoId
      BY <1>6, VenueFacts DEF SendOrder, BuyId, SellId, Venue
  <2> QED
      BY <1>3, <1>4, <2>1, <2>2, VenueFacts
         DEF SendOrder, IdsInv, InCheck, tracker, SellId, EngineType
<1>8. TrackerConsistent'
    BY <1>1, <1>4 DEF SendOrder, TrackerConsistent, tracker, Registered, TrackerType
<1>9. CheckType' /\ TrackerType' /\ LedgerType'
    BY Frames DEF SendOrder, check, bound, checkVars
<1> QED
    BY <1>3, <1>4, <1>5, <1>7, <1>8, <1>9

LEMMA SendAcceptedStep ==
  ASSUME Inv, SendAccepted
  PROVE  Inv'
<1> USE DEF Inv, Structure, TypeOK
<1>1. Current \in Orders
    BY CurrentFacts DEF SendAccepted, Progress
<1>2. EngineType'
    BY <1>1, VenueFacts DEF SendAccepted, AfterSend, EngineType
<1>3. Progress' /\ MapInv' /\ CheckInv'
    BY Numbers DEF SendAccepted, AfterSend, Progress, MapInv, CheckInv, InCheck, tracker,
       check, external, EngineType
<1>4. exch' = exch /\ exch[Current] \in Sent
    BY <1>1 DEF SendAccepted, external, IdsInv, ReportType, ExchState, Sent
<1>5. /\ last_order_id'[Venue] = Current
      /\ \A v \in Venues : v # Venue => last_order_id'[v] = last_order_id[v]
    BY VenueFacts DEF SendAccepted, EngineType
<1>6. IdsInv'
  <2>1. \A v \in Venues : last_order_id'[v] # NoId => exch'[last_order_id'[v]] \in Sent
      BY <1>4, <1>5, VenueFacts DEF IdsInv
  <2>2. /\ leg = "buy"  => BuyId' = BuyOrder(fired) /\ SellId' = SellId
        /\ leg = "sell" => BuyId' = BuyId /\ SellId' = SellOrder(fired)
      BY <1>5, VenueFacts DEF SendAccepted, BuyId, SellId, Venue, Current, Leg, EngineType
  <2> QED
      BY <2>1, <2>2 DEF SendAccepted, AfterSend, IdsInv, InCheck, tracker, EngineType
<1>7. CheckType' /\ TrackerType' /\ LedgerType' /\ ReportType' /\ TrackerConsistent'
    BY Frames DEF SendAccepted, check, bound, checkVars, external, tracker
<1> QED
    BY <1>2, <1>3, <1>6, <1>7

LEMMA SendFailedStep ==
  ASSUME Inv, SendFailed
  PROVE  Inv'
<1> USE DEF Inv, Structure, TypeOK
<1>1. EngineType'
    BY DEF SendFailed, AfterSend, EngineType
<1>2. Progress' /\ MapInv' /\ CheckInv'
    BY Numbers DEF SendFailed, AfterSend, Progress, MapInv, CheckInv, InCheck, tracker,
       check, external, EngineType
<1>3. BuyId' = BuyId /\ SellId' = SellId
    BY DEF SendFailed, BuyId, SellId
<1>4. IdsInv'
    BY <1>3 DEF SendFailed, AfterSend, IdsInv, InCheck, tracker, external, EngineType
<1>5. CheckType' /\ TrackerType' /\ LedgerType' /\ ReportType' /\ TrackerConsistent'
    BY Frames DEF SendFailed, check, bound, checkVars, external, tracker
<1> QED
    BY <1>1, <1>2, <1>4, <1>5

\* While a leg is registered, its order is the next one and the id at hand is
\* that order's or none.
LEMMA RegisterFacts ==
  ASSUME Inv, epc \in {"oid", "order"}
  PROVE  /\ Current \in Orders /\ Current = Len(orders) + 1
         /\ fired \in Arbs
         /\ last_order_id[Venue] \in {NoId, Current}
         /\ leg = "sell" => Current = 2 * fired
         /\ leg = "buy" => Current = 2 * fired - 1
<1> USE DEF Inv, Structure, TypeOK
<1>1. fired \in Arbs
    BY Numbers DEF Progress, EngineType, Arbs
<1>2. /\ Current \in Orders /\ Current = Len(orders) + 1
      /\ leg = "sell" => Current = 2 * fired
      /\ leg = "buy" => Current = 2 * fired - 1
    BY CurrentFacts, Numbers DEF Progress, EngineType, TrackerType
<1>3. last_order_id[Venue] \in {NoId, Current}
    BY DEF IdsInv, BuyId, SellId, EngineType, Venue, Current, Leg
<1> QED
    BY <1>1, <1>2, <1>3

LEMMA RegisterOidStep ==
  ASSUME Inv, RegisterOid
  PROVE  Inv'
<1> USE DEF Inv, Structure, TypeOK
<1> DEFINE oid == last_order_id[Venue]
<1>1. /\ Current \in Orders /\ Current = Len(orders) + 1
      /\ oid \in {NoId, Current} /\ Venue' = Venue /\ last_order_id' = last_order_id
    BY RegisterFacts DEF RegisterOid, Venue
<1>2. Current \notin DOMAIN oid_to_local
    BY <1>1 DEF RegisterOid, MapInv, TrackerType, Orders
<1>3. /\ oid = NoId => oid_to_local' = oid_to_local
      /\ oid = Current =>
           /\ DOMAIN oid_to_local' = DOMAIN oid_to_local \cup {Current}
           /\ oid_to_local'[Current] = Current
           /\ \A o \in DOMAIN oid_to_local : oid_to_local'[o] = oid_to_local[o]
           /\ oid_to_local' \in [DOMAIN oid_to_local' -> Orders]
    BY <1>1, <1>2, Numbers DEF RegisterOid, NextId, TrackerType
<1>4. EngineType' /\ Progress'
    BY DEF RegisterOid, EngineType, Progress, InCheck
<1>5. TrackerType'
    BY <1>1, <1>3 DEF RegisterOid, TrackerType
<1>6. MapInv'
    BY <1>1, <1>3, Numbers DEF RegisterOid, MapInv, TrackerType
<1>7. TrackerConsistent'
    BY <1>1, <1>3 DEF RegisterOid, TrackerConsistent, Registered, external
<1>8. IdsInv' /\ CheckInv'
    BY DEF RegisterOid, IdsInv, CheckInv, InCheck, BuyId, SellId, check, external
<1>9. CheckType' /\ LedgerType' /\ ReportType'
    BY Frames DEF RegisterOid, check, bound, checkVars, external
<1> QED
    BY <1>4, <1>5, <1>6, <1>7, <1>8, <1>9

LEMMA RegisterOrderStep ==
  ASSUME Inv, RegisterOrder
  PROVE  Inv'
<1> USE DEF Inv, Structure, TypeOK
<1> DEFINE oid == last_order_id[Venue]
<1>1. /\ Current \in Orders /\ Current = Len(orders) + 1 /\ fired \in Arbs
      /\ oid \in {NoId, Current} /\ last_order_id' = last_order_id
      /\ fired' = fired /\ buy_venue' = buy_venue
    BY RegisterFacts DEF RegisterOrder
<1>2. /\ orders' \in Seq(OrderRec) /\ Len(orders') = Len(orders) + 1
      /\ orders'[Current] = [oid |-> oid, state |-> "PENDING"]
      /\ \A m \in 1 .. Len(orders) : orders'[m] = orders[m]
  <2>1. [oid |-> oid, state |-> "PENDING"] \in OrderRec
      BY <1>1 DEF OrderRec, OrderState
  <2> QED
      BY <1>1, <2>1, OrderAppended DEF RegisterOrder, TrackerType, OrderRec
<1>3. /\ leg = "buy" => leg' = "sell" /\ epc' = "oid" /\ arb_pairs' = arb_pairs
      /\ leg = "sell" =>
           /\ leg' = "buy" /\ epc' = "idle"
           /\ arb_pairs' = Append(arb_pairs, [buy  |-> BuyOrder(fired),
                                              sell |-> SellOrder(fired)])
    BY <1>1, RegisterFacts, Numbers
       DEF RegisterOrder, NextId, BuyOrder, SellOrder, Arbs, EngineType
<1>4. /\ Len(arb_pairs) = fired - 1
      /\ leg = "sell" =>
           /\ arb_pairs' \in Seq(PairRec)
           /\ Len(arb_pairs') = fired
           /\ arb_pairs'[fired] = [buy |-> BuyOrder(fired), sell |-> SellOrder(fired)]
           /\ \A a \in 1 .. fired - 1 : arb_pairs'[a] = arb_pairs[a]
  <2>1. Len(arb_pairs) = fired - 1
      BY DEF RegisterOrder, Progress
  <2>2. [buy |-> BuyOrder(fired), sell |-> SellOrder(fired)] \in PairRec
      BY <1>1, Numbers DEF PairRec
  <2>3. CASE leg = "sell"
    <3>1. arb_pairs' = Append(arb_pairs, [buy |-> BuyOrder(fired), sell |-> SellOrder(fired)])
        BY <1>3, <2>3
    <3>2. arb_pairs \in Seq(PairRec) /\ Len(arb_pairs) + 1 = fired
        BY <1>1, <2>1, Numbers DEF TrackerType, PairRec, Arbs
    <3> QED
        BY <2>1, <2>2, <3>1, <3>2, PairAppended
  <2> QED
      BY <2>1, <2>3
<1>5. EngineType'
    BY <1>3 DEF RegisterOrder, EngineType
<1>6. TrackerType'
    BY <1>2, <1>3, <1>4 DEF RegisterOrder, TrackerType, OrderRec, PairRec, EngineType
<1>7. Progress'
    BY <1>1, <1>2, <1>3, <1>4, RegisterFacts DEF RegisterOrder, Progress, InCheck, EngineType
<1>8. CheckInv'
  <2>1. /\ Len(orders) \in Nat /\ Len(arb_pairs) \in Nat
        /\ Len(arb_pairs') >= Len(arb_pairs) /\ Len(arb_pairs') \in Nat
      BY <1>1, <1>3, <1>4, Numbers DEF TrackerType, EngineType, Arbs
  <2>2. \A i \in DOMAIN failures : failures[i] <= Len(arb_pairs')
      BY <2>1, Numbers DEF CheckInv, CheckType, Arbs
  <2> QED
      BY <1>2, <1>3, <2>1, <2>2 DEF RegisterOrder, CheckInv, CheckType, EngineType, check, external
<1>9. IdsInv'
  <2>1. CASE leg = "buy"
      BY <1>1, <1>3, <2>1 DEF RegisterOrder, IdsInv, InCheck, BuyId, SellId, external
  <2>2. CASE leg = "sell"
    <3>1. \A v \in Venues : last_order_id[v] <= 2 * fired
        BY <1>1, VenueFacts, Numbers
           DEF RegisterOrder, IdsInv, BuyId, SellId, BuyOrder, SellOrder, NoId, Arbs
    <3> QED
        BY <1>1, <1>2, <1>3, <2>2, <3>1, RegisterFacts DEF RegisterOrder, IdsInv, external
  <2> QED
      BY <2>1, <2>2 DEF EngineType
<1>10. MapInv'
  <2>1. epc' # "order" /\ oid_to_local' = oid_to_local
      BY <1>3 DEF RegisterOrder, EngineType
  <2>2. \A o \in DOMAIN oid_to_local : o <= Len(orders) + 1
      BY Numbers DEF MapInv, TrackerType, Orders
  <2> QED
      BY <1>2, <2>1, <2>2 DEF MapInv
<1>11. TrackerConsistent'
  <2>1. /\ oid # NoId => oid \in DOMAIN oid_to_local /\ exch[oid] \in Sent
        /\ oid_to_local' = oid_to_local /\ exch' = exch
      BY VenueFacts DEF RegisterOrder, MapInv, IdsInv, external
  <2>2. \A n \in 1 .. Len(orders') : n \in 1 .. Len(orders) \/ n = Current
      BY <1>1, <1>2 DEF TrackerType
  <2>3. \A a \in 1 .. Len(arb_pairs') :
          arb_pairs'[a] = [buy |-> BuyOrder(a), sell |-> SellOrder(a)]
      BY <1>1, <1>3, <1>4, Numbers DEF TrackerConsistent, EngineType, Arbs
  <2> QED
      BY <1>1, <1>2, <2>1, <2>2, <2>3 DEF TrackerConsistent, Registered, Sent
<1>12. CheckType' /\ LedgerType' /\ ReportType'
    BY Frames DEF RegisterOrder, check, bound, checkVars, external
<1> QED
    BY <1>5, <1>6, <1>7, <1>8, <1>9, <1>10, <1>11, <1>12

\* What is registered are orders and arbs of the instance, and a record names
\* two registered orders.
LEMMA RegisteredFacts ==
  ASSUME Inv
  PROVE  /\ Len(orders) \in Nat /\ Len(arb_pairs) \in Nat
         /\ Len(orders) <= 2 * MaxArbs /\ 2 * Len(arb_pairs) <= Len(orders)
         /\ \A n \in 1 .. Len(orders) : n \in Orders /\ orders[n].state \in OrderState
         /\ \A a \in 1 .. Len(arb_pairs) :
              /\ a \in Arbs
              /\ arb_pairs[a].buy = BuyOrder(a) /\ arb_pairs[a].sell = SellOrder(a)
              /\ BuyOrder(a) \in 1 .. Len(orders) /\ SellOrder(a) \in 1 .. Len(orders)
<1> USE DEF Inv, Structure, TypeOK
<1>1. Len(orders) \in Nat /\ Len(arb_pairs) \in Nat
    BY DEF TrackerType
<1>2. Len(orders) <= 2 * MaxArbs /\ 2 * Len(arb_pairs) <= Len(orders)
    BY <1>1, Numbers DEF Progress, InCheck, EngineType
<1>3. \A n \in 1 .. Len(orders) : n \in Orders /\ orders[n].state \in OrderState
  <2> TAKE n \in 1 .. Len(orders)
  <2>1. orders \in Seq(OrderRec)
      BY DEF TrackerType, OrderRec
  <2>2. n \in Orders
      BY <1>1, <1>2, Numbers DEF Orders
  <2>3. orders[n] \in OrderRec
      BY <2>1
  <2> QED
      BY <2>2, <2>3 DEF OrderRec
<1>4. \A a \in 1 .. Len(arb_pairs) :
        /\ a \in Arbs
        /\ BuyOrder(a) \in 1 .. Len(orders) /\ SellOrder(a) \in 1 .. Len(orders)
    BY <1>1, <1>2, Numbers DEF Arbs, BuyOrder, SellOrder
<1>5. \A a \in 1 .. Len(arb_pairs) :
        arb_pairs[a].buy = BuyOrder(a) /\ arb_pairs[a].sell = SellOrder(a)
  <2> TAKE a \in 1 .. Len(arb_pairs)
  <2>1. arb_pairs[a] = [buy |-> BuyOrder(a), sell |-> SellOrder(a)]
      BY DEF TrackerConsistent
  <2> QED
      BY <2>1
<1> QED
    BY <1>1, <1>2, <1>3, <1>4, <1>5

LEMMA CheckTimeoutsStep ==
  ASSUME Inv, CheckTimeouts
  PROVE  Inv'
<1> USE DEF Inv, Structure, TypeOK
<1>1. /\ 1 .. aged \subseteq 1 .. Len(orders) /\ 1 .. aged \subseteq Orders
      /\ checks + 1 \in Nat
    BY RegisteredFacts DEF CheckTimeouts, CheckInv, CheckType
<1>2. EngineType' /\ CheckType'
    BY <1>1 DEF CheckTimeouts, EngineType, CheckType, external
<1>3. Progress' /\ CheckInv' /\ IdsInv' /\ MapInv'
    BY <1>1 DEF CheckTimeouts, Progress, CheckInv, IdsInv, MapInv, InCheck, BuyId, SellId,
       tracker, external
<1>4. TrackerType' /\ LedgerType' /\ ReportType' /\ TrackerConsistent'
    BY Frames DEF CheckTimeouts, external, tracker
<1> QED
    BY <1>2, <1>3, <1>4

LEMMA ScanOrderStep ==
  ASSUME Inv, NEW n \in Orders, ScanOrder(n)
  PROVE  Inv'
<1> USE DEF Inv, Structure, TypeOK
<1>1. EngineType' /\ CheckType'
    BY Numbers DEF ScanOrder, EngineType, CheckType, bound, external, Orders
<1>2. n \in 1 .. Len(orders)
    BY DEF ScanOrder, CheckInv
<1>3. CheckInv'
    BY <1>2 DEF ScanOrder, CheckInv, tracker, external
<1>4. Progress' /\ IdsInv' /\ MapInv'
    BY DEF ScanOrder, Progress, IdsInv, MapInv, InCheck, BuyId, SellId, tracker, external
<1>5. TrackerType' /\ LedgerType' /\ ReportType' /\ TrackerConsistent'
    BY Frames DEF ScanOrder, external, tracker
<1> QED
    BY <1>1, <1>3, <1>4, <1>5

LEMMA MarkTimeoutStep ==
  ASSUME Inv, MarkTimeout
  PROVE  Inv'
<1> USE DEF Inv, Structure, TypeOK
<1>1. marking \in 1 .. Len(orders) /\ marking \in Orders
    BY RegisteredFacts DEF MarkTimeout, CheckInv
<1>2. /\ orders' \in Seq(OrderRec) /\ Len(orders') = Len(orders)
      /\ \A m \in 1 .. Len(orders) : orders'[m].oid = orders[m].oid
  <2>1. orders \in Seq(OrderRec) /\ "TIMEOUT" \in OrderState
      BY DEF TrackerType, OrderRec, OrderState
  <2>2. orders' = [orders EXCEPT ![marking].state = "TIMEOUT"]
      BY DEF MarkTimeout
  <2> QED
      BY <1>1, <2>1, <2>2, StateWritten
<1>3. EngineType' /\ CheckType'
    BY <1>1 DEF MarkTimeout, EngineType, CheckType, external
<1>4. TrackerType'
    BY <1>2 DEF MarkTimeout, TrackerType, OrderRec
<1>5. Progress' /\ CheckInv' /\ IdsInv' /\ MapInv'
    BY <1>2 DEF MarkTimeout, Progress, CheckInv, IdsInv, MapInv, InCheck, BuyId, SellId,
       external
<1>6. TrackerConsistent'
    BY <1>2 DEF MarkTimeout, TrackerConsistent, Registered, external
<1>7. LedgerType' /\ ReportType'
    BY Frames DEF MarkTimeout, external
<1> QED
    BY <1>3, <1>4, <1>5, <1>6, <1>7

LEMMA CollectRecordStep ==
  ASSUME Inv, CollectRecord
  PROVE  Inv'
<1> USE DEF Inv, Structure, TypeOK
<1>1. rec \in 1 .. Len(arb_pairs) /\ rec \in Arbs
    BY RegisteredFacts DEF CollectRecord, CheckInv, CheckType
<1>2. /\ failures' \in Seq(Arbs)
      /\ \A i \in DOMAIN failures' : failures'[i] <= Len(arb_pairs)
    BY <1>1 DEF CollectRecord, CheckInv, CheckType
<1>3. CheckType' /\ CheckInv'
    BY <1>2 DEF CollectRecord, CheckType, CheckInv, bound, thread, tracker, external
<1>4. EngineType' /\ TrackerType' /\ LedgerType' /\ ReportType' /\ Progress' /\ IdsInv'
        /\ MapInv' /\ TrackerConsistent'
    BY Frames DEF CollectRecord, thread, tracker, external, engineVars
<1> QED
    BY <1>3, <1>4

LEMMA HandleBuyLegStep ==
  ASSUME Inv, HandleBuyLeg
  PROVE  Inv'
<1> USE DEF Inv, Structure, TypeOK
<1>1. Head(failures) \in 1 .. Len(arb_pairs)
    BY Numbers DEF HandleBuyLeg, CheckInv, CheckType, Arbs
<1>2. arb_pairs[Head(failures)].buy \in 1 .. Len(orders)
    BY <1>1, RegisteredFacts
<1>3. bs' \in OrderState
    BY <1>2, RegisteredFacts DEF HandleBuyLeg
<1>4. EngineType' /\ CheckType'
    BY <1>3 DEF HandleBuyLeg, EngineType, CheckType, bound, external
<1>5. Progress' /\ CheckInv' /\ IdsInv' /\ MapInv'
    BY DEF HandleBuyLeg, Progress, CheckInv, IdsInv, MapInv, InCheck, BuyId, SellId,
       tracker, external
<1>6. TrackerType' /\ LedgerType' /\ ReportType' /\ TrackerConsistent'
    BY Frames DEF HandleBuyLeg, external, tracker
<1> QED
    BY <1>4, <1>5, <1>6

LEMMA HandleSellLegStep ==
  ASSUME Inv, HandleSellLeg
  PROVE  Inv'
<1> USE DEF Inv, Structure, TypeOK
<1>1. Head(failures) \in Arbs /\ failures # <<>>
    BY DEF HandleSellLeg, CheckInv, CheckType
<1>2. /\ Tail(failures) \in Seq(Arbs)
      /\ \A i \in DOMAIN Tail(failures) : Tail(failures)[i] <= Len(arb_pairs)
    BY <1>1, Numbers DEF CheckInv, CheckType
<1>3. LedgerType'
  <2> DEFINE a == Head(failures)
             ss == orders[arb_pairs[a].sell].state
  <2>1. PICK amount \in Int : Adjust(a, amount) \/ UNCHANGED money
      BY <1>1, CorrectForm DEF HandleSellLeg
  <2>2. quote_balance' \in Int /\ booked' \in [Arbs -> Int] /\ corrected' \subseteq Arbs
      BY <1>1, <2>1, BookType DEF Adjust, LedgerType, money
  <2>3. alarms' \subseteq Arbs \X {"long", "short"}
      BY <1>1 DEF HandleSellLeg, Correct, LedgerType, money
  <2> QED
      BY <2>2, <2>3 DEF LedgerType
<1>4. EngineType' /\ CheckType'
    BY <1>2 DEF HandleSellLeg, EngineType, CheckType, OrderState, bound, external
<1>5. CheckInv'
    BY <1>2 DEF HandleSellLeg, CheckInv, tracker, external
<1>6. Progress' /\ IdsInv' /\ MapInv'
    BY DEF HandleSellLeg, Progress, IdsInv, MapInv, InCheck, BuyId, SellId, tracker, external
<1>7. TrackerType' /\ ReportType' /\ TrackerConsistent'
    BY Frames DEF HandleSellLeg, external, tracker
<1> QED
    BY <1>3, <1>4, <1>5, <1>6, <1>7

LEMMA CheckDoneStep ==
  ASSUME Inv, CheckDone
  PROVE  Inv'
<1> USE DEF Inv, Structure, TypeOK
<1>1. EngineType' /\ CheckType'
    BY DEF CheckDone, EngineType, CheckType, bound, external
<1>2. Progress' /\ CheckInv' /\ IdsInv' /\ MapInv'
    BY DEF CheckDone, Progress, CheckInv, IdsInv, MapInv, InCheck, BuyId, SellId, tracker,
       external
<1>3. TrackerType' /\ LedgerType' /\ ReportType' /\ TrackerConsistent'
    BY Frames DEF CheckDone, external, tracker
<1> QED
    BY <1>1, <1>2, <1>3

\* Where an update goes is the order it is about.
LEMMA TakeUpdateStep ==
  ASSUME Inv, TakeUpdate
  PROVE  Inv'
<1> USE DEF Inv, Structure, TypeOK
<1>1. Head(updates) \in UpdateRec /\ updates' \in Seq(UpdateRec)
  <2>1. updates \in Seq(UpdateRec)
      BY DEF ReportType, UpdateRec
  <2> QED
      BY <2>1, UpdateTaken, UpdateRequeued DEF TakeUpdate
<1>2. StateOf(Head(updates).status) \in OrderState
    BY DEF StateOf, OrderState
<1>3. ReportType'
    BY <1>1, <1>2 DEF TakeUpdate, ReportType, TrackerType, UpdateRec
<1>4. EngineType' /\ CheckType' /\ TrackerType' /\ LedgerType' /\ Progress' /\ CheckInv'
        /\ IdsInv' /\ MapInv' /\ TrackerConsistent'
    BY Frames DEF TakeUpdate, thread, check, bound, tracker, engineVars, checkVars
<1> QED
    BY <1>3, <1>4

LEMMA WriteUpdateStep ==
  ASSUME Inv, WriteUpdate
  PROVE  Inv'
<1> USE DEF Inv, Structure, TypeOK
<1>1. PICK u \in ou :
        orders' = IF u.local <= Len(orders)
                  THEN [orders EXCEPT ![u.local].state = u.state] ELSE orders
    BY DEF WriteUpdate
<1>2. u.local \in Orders /\ u.local >= 1 /\ u.state \in OrderState
    BY Numbers DEF ReportType, Orders
<1>3. /\ orders' \in Seq(OrderRec) /\ Len(orders') = Len(orders)
      /\ \A m \in 1 .. Len(orders) : orders'[m].oid = orders[m].oid
  <2>1. orders \in Seq(OrderRec)
      BY DEF TrackerType, OrderRec
  <2>2. CASE u.local <= Len(orders)
    <3>1. u.local \in 1 .. Len(orders)
        BY <1>2, <2>2, RegisteredFacts, Numbers DEF Orders
    <3> QED
        BY <1>1, <1>2, <2>1, <2>2, <3>1, StateWritten
  <2>3. CASE ~(u.local <= Len(orders))
      BY <1>1, <2>1, <2>3
  <2> QED
      BY <2>2, <2>3
<1>4. TrackerType' /\ CheckType' /\ ReportType'
    BY <1>3 DEF WriteUpdate, TrackerType, OrderRec, CheckType, ReportType, check, external
<1>5. Progress' /\ CheckInv' /\ MapInv'
    BY <1>3 DEF WriteUpdate, Progress, CheckInv, MapInv, InCheck, Venue, thread, check, external
<1>6. IdsInv'
    BY <1>3 DEF WriteUpdate, IdsInv, InCheck, BuyId, SellId, Current, thread, external
<1>7. TrackerConsistent'
    BY <1>3 DEF WriteUpdate, TrackerConsistent, Registered, external
<1>8. EngineType' /\ LedgerType'
    BY Frames DEF WriteUpdate, thread, engineVars
<1> QED
    BY <1>4, <1>5, <1>6, <1>7, <1>8

LEMMA ReportStep ==
  ASSUME Inv, NEW o \in Orders, NEW status \in Sent, Report(o, status)
  PROVE  Inv'
<1> USE DEF Inv, Structure, TypeOK
<1>1. /\ exch'[o] = status /\ exch' \in [Orders -> ExchState]
      /\ \A p \in Orders : p # o => exch'[p] = exch[p]
    BY DEF Report, ReportType, Sent, ExchState
<1>2. updates' \in Seq(UpdateRec)
  <2>1. updates \in Seq(UpdateRec) /\ [oid |-> o, status |-> status] \in UpdateRec
      BY DEF ReportType, UpdateRec, Sent, ExchState
  <2> QED
      BY <2>1, UpdateQueued DEF Report
<1>3. ReportType'
    BY <1>1, <1>2 DEF Report, ReportType, UpdateRec
<1>4. \A p \in Orders : exch[p] \in Sent => exch'[p] \in Sent
    BY <1>1
<1>5. IdsInv'
  <2>1. \A v \in Venues : last_order_id'[v] # NoId => exch'[last_order_id'[v]] \in Sent
      BY <1>4, VenueFacts DEF Report, IdsInv
  <2>2. epc = "wait" => exch'[Current] # "unsent"
      BY <1>1, CurrentFacts DEF IdsInv, Progress, Sent
  <2> QED
      BY <2>1, <2>2
         DEF Report, IdsInv, InCheck, BuyId, SellId, Current, thread, tracker
<1>6. TrackerConsistent'
    BY <1>4, RegisteredFacts DEF Report, TrackerConsistent, Registered, tracker, Sent
<1>7. EngineType' /\ CheckType' /\ TrackerType' /\ LedgerType' /\ Progress' /\ CheckInv'
        /\ MapInv'
    BY Frames DEF Report, thread, check, bound, tracker, engineVars, checkVars
<1> QED
    BY <1>3, <1>5, <1>6, <1>7

LEMMA ExpireStep ==
  ASSUME Inv, Expire
  PROVE  Inv'
<1> USE DEF Inv, Structure, TypeOK
<1>1. CheckType' /\ CheckInv'
    BY RegisteredFacts DEF Expire, CheckType, CheckInv, check, thread, tracker
<1>2. EngineType' /\ TrackerType' /\ LedgerType' /\ ReportType' /\ Progress' /\ IdsInv'
        /\ MapInv' /\ TrackerConsistent'
    BY Frames DEF Expire, thread, tracker, engineVars
<1> QED
    BY <1>1, <1>2

\* The end of engine_loop() moves nothing but its phase.
LEMMA EndingStep ==
  ASSUME Inv, LeaveLoop \/ DrainDone
  PROVE  Inv'
<1> USE DEF Inv, Structure, TypeOK
<1>1. EngineType'
    BY DEF LeaveLoop, DrainDone, EngineType
<1>2. CheckType' /\ TrackerType' /\ LedgerType' /\ ReportType' /\ Progress' /\ CheckInv'
        /\ IdsInv' /\ MapInv' /\ TrackerConsistent'
    BY Frames DEF LeaveLoop, DrainDone, check, bound, tracker, external, engineVars, checkVars
<1> QED
    BY <1>1, <1>2

LEMMA InvInit == Init => Inv
<1> SUFFICES ASSUME Init
             PROVE  Inv
    OBVIOUS
<1>1. EngineType
    BY Numbers DEF Init, EngineType, Venues
<1>2. CheckType
  <2>1. todo \subseteq Orders /\ marking \in Nat /\ rec \in Nat /\ checks \in Nat
          /\ aged \in Nat /\ marked \subseteq Orders
      BY DEF Init
  <2>2. failures \in Seq(Arbs)
      BY DEF Init
  <2>3. bs \in OrderState /\ news \in BOOLEAN
      BY DEF Init, OrderState
  <2> QED
      BY <2>1, <2>2, <2>3 DEF CheckType
<1>3. TrackerType
    BY DEF Init, TrackerType
<1>4. LedgerType /\ ReportType
    BY Numbers DEF Init, LedgerType, ReportType, ExchState
<1>5. Progress /\ CheckInv
    BY DEF Init, Progress, CheckInv, InCheck
<1>6. IdsInv
    BY DEF Init, IdsInv, InCheck, NoId
<1>7. MapInv /\ TrackerConsistent
    BY DEF Init, MapInv, TrackerConsistent, Registered
<1> QED
    BY <1>1, <1>2, <1>3, <1>4, <1>5, <1>6, <1>7 DEF Inv, TypeOK, Structure

LEMMA InvStep == Inv /\ [Next]_vars => Inv'
<1> SUFFICES ASSUME Inv, [Next]_vars
             PROVE  Inv'
    OBVIOUS
<1>1. ASSUME NEW v \in BuyVenues, Fire(v) PROVE Inv'
    BY <1>1, FireStep
<1>2. ASSUME NEW n \in Orders, ScanOrder(n) PROVE Inv'
    BY <1>2, ScanOrderStep
<1>3. ASSUME NEW o \in Orders, Accept(o) \/ Partial(o) \/ Execute(o) \/ Cancel(o)
      PROVE  Inv'
    BY <1>3, ReportForm, ReportStep DEF Inv
<1>4. CASE UNCHANGED vars
  <2>1. EngineType' /\ CheckType' /\ TrackerType' /\ LedgerType' /\ ReportType' 
          /\ Progress' /\ CheckInv' /\ IdsInv' /\ MapInv' /\ TrackerConsistent'
      BY <1>4, Frames DEF Inv, TypeOK, Structure, vars, thread, check, bound, tracker,
         external, engineVars, checkVars
  <2> QED
      BY <2>1 DEF Inv, TypeOK, Structure
<1> QED
    BY <1>1, <1>2, <1>3, <1>4, SendOrderStep, SendAcceptedStep, SendFailedStep,
       RegisterOidStep, RegisterOrderStep, CheckTimeoutsStep, MarkTimeoutStep,
       CollectRecordStep, HandleBuyLegStep, HandleSellLegStep, CheckDoneStep,
       EndingStep, TakeUpdateStep, WriteUpdateStep, ExpireStep
       DEF Next, Engine, Check, OrderUpdates, Environment

LEMMA InvAlways == Spec => []Inv
<1> QED
    BY InvInit, InvStep, PTL DEF Spec

\* Every variable keeps its type: no local id or exchange id is outside the
\* orders sent, no map or list holds anything but orders.
THEOREM TypeCorrect == Spec => []TypeOK
<1> QED
    BY InvAlways, PTL DEF Inv

\* The tracker (register_order, track_arb, update_by_exchange_oid) names every
\* order by its own id, whatever sends fail and however the reports interleave.
THEOREM TrackerNamesItsOrders == Spec => []TrackerConsistent
<1> QED
    BY InvAlways, PTL DEF Inv, Structure
-----------------------------------------------------------------------------
(* Every step preserves Truth.                                             *)

\* What the states stand for: a step of the exchange never falsifies one, and
\* a report is true when it is sent.
LEMMA MeansFacts ==
  /\ \A e \in ExchState : e \in Means("PENDING") /\ e \in Means("TIMEOUT")
  /\ Means("FILLED") = {"executed"}
  /\ \A st \in OrderState : "unsent" \in Means(st) => "flying" \in Means(st)
  /\ \A st \in OrderState : \A e \in {"flying", "open", "partial"} : \A f \in Sent :
       e \in Means(st) /\ (e = "partial" => f \in {"executed", "cancelled"})
         => f \in Means(st)
  /\ \A e \in Sent : e \in Means(StateOf(e))
<1>1. \A e \in ExchState : e \in Means("PENDING") /\ e \in Means("TIMEOUT")
    BY DEF Means
<1>2. Means("FILLED") = {"executed"}
    BY DEF Means
<1>3. \A st \in OrderState : "unsent" \in Means(st) => "flying" \in Means(st)
    BY DEF Means, OrderState, ExchState
<1>4. \A st \in OrderState : \A e \in {"flying", "open", "partial"} : \A f \in Sent :
        e \in Means(st) /\ (e = "partial" => f \in {"executed", "cancelled"})
          => f \in Means(st)
    BY DEF Means, OrderState, ExchState, Sent
<1>5. \A e \in Sent : e \in Means(StateOf(e))
    BY DEF Means, StateOf, ExchState, Sent
<1> QED
    BY <1>1, <1>2, <1>3, <1>4, <1>5

\* The parts of Truth stay true when their variables stay the same.
LEMMA TruthFrames ==
  /\ LaterUnsent /\ UNCHANGED <<epc, leg, fired, exch>> => LaterUnsent'
  /\ ReportsTrue /\ UNCHANGED <<ou, updates, exch>> => ReportsTrue'
  /\ NoPhantomFill /\ UNCHANGED <<orders, exch>> => NoPhantomFill'
  /\ HeldTrue /\ UNCHANGED <<epc, failures, bs, exch>> => HeldTrue'
  /\ AlarmTruthful /\ UNCHANGED <<alarms, exch>> => AlarmTruthful'
<1>1. LaterUnsent /\ UNCHANGED <<epc, leg, fired, exch>> => LaterUnsent'
    BY DEF LaterUnsent, Current
<1>2. ReportsTrue /\ UNCHANGED <<ou, updates, exch>> => ReportsTrue'
    BY DEF ReportsTrue
<1>3. NoPhantomFill /\ UNCHANGED <<orders, exch>> => NoPhantomFill'
    BY DEF NoPhantomFill, Registered
<1>4. HeldTrue /\ UNCHANGED <<epc, failures, bs, exch>> => HeldTrue'
    BY DEF HeldTrue
<1>5. AlarmTruthful /\ UNCHANGED <<alarms, exch>> => AlarmTruthful'
    BY DEF AlarmTruthful
<1> QED
    BY <1>1, <1>2, <1>3, <1>4, <1>5

\* The exchange's states are all a part of Truth depends on when the reports,
\* the tracker and the alarms stay the same.
LEMMA ExchangeMoves ==
  ASSUME Inv, Truth, \A p \in Orders : \A st \in OrderState :
                       exch[p] \in Means(st) => exch'[p] \in Means(st),
         UNCHANGED <<ou, orders, alarms>>
  PROVE  /\ \A u \in ou' : exch'[u.local] \in Means(u.state)
         /\ \A i \in DOMAIN updates :
              exch'[updates[i].oid] \in Means(StateOf(updates[i].status))
         /\ NoPhantomFill' /\ AlarmTruthful'
<1> USE DEF Inv, TypeOK, Truth
<1>1. \A u \in ou' : exch'[u.local] \in Means(u.state)
    BY DEF ReportsTrue, ReportType
<1>2. \A i \in DOMAIN updates :
        exch'[updates[i].oid] \in Means(StateOf(updates[i].status))
  <2> TAKE i \in DOMAIN updates
  <2>1. updates[i].oid \in Orders
    <3>1. updates \in Seq(UpdateRec)
        BY DEF ReportType, UpdateRec
    <3>2. updates[i] \in UpdateRec
        BY <3>1
    <3> QED
        BY <3>2 DEF UpdateRec
  <2>2. StateOf(updates[i].status) \in OrderState
      BY DEF StateOf, OrderState
  <2> QED
      BY <2>1, <2>2 DEF ReportsTrue
<1>3. NoPhantomFill'
    BY RegisteredFacts DEF NoPhantomFill, Registered
<1>4. AlarmTruthful'
    BY MeansFacts, Numbers DEF AlarmTruthful, OrderState
<1> QED
    BY <1>1, <1>2, <1>3, <1>4

\* The record being handled is a registered pair.
LEMMA FailureFacts ==
  ASSUME Inv, failures # <<>>
  PROVE  /\ Head(failures) \in 1 .. Len(arb_pairs) /\ Head(failures) \in Arbs
         /\ BuyOrder(Head(failures)) \in Orders
BY Numbers, RegisteredFacts DEF Inv, Structure, TypeOK, CheckInv, CheckType, Arbs

LEMMA SendOrderTruth ==
  ASSUME Inv, Truth, SendOrder
  PROVE  Truth'
<1> USE DEF Inv, Structure, TypeOK, Truth
<1>1. Current \in Orders /\ Current' = Current /\ Current \in Nat /\ fired \in Nat
    BY CurrentFacts DEF SendOrder, Progress, EngineType, Current, Orders
<1>2. exch[Current] = "unsent"
    BY <1>1 DEF LaterUnsent, SendOrder
<1>3. exch'[Current] = "flying" /\ \A p \in Orders : p # Current => exch'[p] = exch[p]
    BY <1>1 DEF SendOrder, ReportType
<1>4. \A p \in Orders : \A st \in OrderState :
        exch[p] \in Means(st) => exch'[p] \in Means(st)
    BY <1>2, <1>3, MeansFacts
<1>5. /\ \A u \in ou' : exch'[u.local] \in Means(u.state)
      /\ \A i \in DOMAIN updates :
           exch'[updates[i].oid] \in Means(StateOf(updates[i].status))
      /\ NoPhantomFill' /\ AlarmTruthful'
    BY <1>4, ExchangeMoves DEF SendOrder, tracker, money
<1>6. ReportsTrue' /\ HeldTrue'
    BY <1>5 DEF SendOrder, ReportsTrue, HeldTrue
<1>7. LaterUnsent'
    BY <1>1, <1>3, CurrentFacts DEF SendOrder, LaterUnsent, Progress, Orders, EngineType
<1> QED
    BY <1>5, <1>6, <1>7

LEMMA ReportTruth ==
  ASSUME Inv, Truth, NEW o \in Orders, NEW status \in Sent, Report(o, status),
         exch[o] \in {"flying", "open", "partial"},
         exch[o] = "partial" => status \in {"executed", "cancelled"}
  PROVE  Truth'
<1> USE DEF Inv, TypeOK, Truth
<1>1. exch'[o] = status /\ \A p \in Orders : p # o => exch'[p] = exch[p]
    BY DEF Report, ReportType
<1>2. \A p \in Orders : \A st \in OrderState :
        exch[p] \in Means(st) => exch'[p] \in Means(st)
    BY <1>1, MeansFacts
<1>3. /\ \A u \in ou' : exch'[u.local] \in Means(u.state)
      /\ \A i \in DOMAIN updates :
           exch'[updates[i].oid] \in Means(StateOf(updates[i].status))
      /\ NoPhantomFill' /\ AlarmTruthful'
    BY <1>2, ExchangeMoves DEF Report, tracker, money
<1>4. ReportsTrue'
  <2> DEFINE x == [oid |-> o, status |-> status]
  <2>1. updates \in Seq(UpdateRec) /\ x \in UpdateRec
      BY DEF ReportType, UpdateRec, Sent, ExchState
  <2>2. \A i \in DOMAIN updates' :
          updates'[i] = x \/ (i \in DOMAIN updates /\ updates'[i] = updates[i])
      BY <2>1, UpdateQueued DEF Report
  <2>3. exch'[x.oid] \in Means(StateOf(x.status))
      BY <1>1, MeansFacts
  <2> HIDE DEF x
  <2>4. \A i \in DOMAIN updates' :
          exch'[updates'[i].oid] \in Means(StateOf(updates'[i].status))
      BY <1>3, <2>2, <2>3
  <2> QED
      BY <1>3, <2>4 DEF ReportsTrue
<1>5. LaterUnsent'
    BY <1>1 DEF Report, LaterUnsent, Current, thread
<1>6. HeldTrue'
  <2>1. epc = "sell_leg" => BuyOrder(Head(failures)) \in Orders
      BY FailureFacts DEF Structure, CheckInv
  <2> QED
      BY <1>2, <2>1 DEF Report, HeldTrue, thread, check, CheckType
<1> QED
    BY <1>3, <1>4, <1>5, <1>6

\* Steps that touch neither the exchange nor what is believed of it.
LEMMA QuietTruth ==
  ASSUME Inv, Truth,
         \/ \E v \in BuyVenues : Fire(v)
         \/ SendAccepted \/ SendFailed \/ RegisterOid \/ CheckTimeouts
         \/ \E n \in Orders : ScanOrder(n)
         \/ CollectRecord \/ CheckDone \/ LeaveLoop \/ DrainDone
         \/ Expire \/ UNCHANGED vars
  PROVE  Truth'
<1> USE DEF Truth
<1>1. UNCHANGED <<exch, updates, ou, orders, alarms>>
    BY DEF Fire, SendAccepted, SendFailed, RegisterOid, CheckTimeouts, ScanOrder,
       CollectRecord, CheckDone, LeaveLoop, DrainDone, Expire, vars, external, tracker, money
<1>2. ReportsTrue' /\ NoPhantomFill' /\ AlarmTruthful'
    BY <1>1, TruthFrames
<1>3. HeldTrue'
  <2>1. epc' # "sell_leg" \/ UNCHANGED <<epc, failures, bs>>
      BY DEF Fire, SendAccepted, SendFailed, AfterSend, RegisterOid, CheckTimeouts,
         ScanOrder, CollectRecord, CheckDone, LeaveLoop, DrainDone, Expire, vars, thread, check
  <2> QED
      BY <1>1, <2>1, TruthFrames DEF HeldTrue
<1>4. LaterUnsent'
  <2>1. CASE \E v \in BuyVenues : Fire(v)
      BY <1>1, <2>1 DEF Fire, LaterUnsent, Current, Leg, BuyOrder, Orders, Inv, TypeOK, EngineType
  <2>2. CASE SendAccepted \/ SendFailed
      BY <1>1, <2>2 DEF SendAccepted, SendFailed, AfterSend, LaterUnsent, Current, Leg,
         BuyOrder, SellOrder, Orders, Inv, TypeOK, EngineType
  <2>3. CASE RegisterOid \/ CheckTimeouts \/ (\E n \in Orders : ScanOrder(n)) \/ CheckDone
      BY <1>1, <2>3 DEF RegisterOid, CheckTimeouts, ScanOrder, CheckDone, LaterUnsent, Current
  <2>4. CASE CollectRecord \/ LeaveLoop \/ DrainDone \/ Expire \/ UNCHANGED vars
      BY <1>1, <2>4, TruthFrames DEF CollectRecord, LeaveLoop, DrainDone, Expire, vars, thread
  <2> QED
      BY <2>1, <2>2, <2>3, <2>4
<1> QED
    BY <1>2, <1>3, <1>4

\* A new order is PENDING, which says nothing of it.
LEMMA RegisterOrderTruth ==
  ASSUME Inv, Truth, RegisterOrder
  PROVE  Truth'
<1> USE DEF Inv, TypeOK, Truth
<1> DEFINE x == [oid |-> last_order_id[Venue], state |-> "PENDING"]
<1>1. /\ Len(orders') = Len(orders) + 1
      /\ orders'[Len(orders) + 1].state = "PENDING"
      /\ \A n \in 1 .. Len(orders) : orders'[n] = orders[n]
  <2>1. orders \in Seq(OrderRec)
      BY DEF TrackerType, OrderRec
  <2>2. x \in OrderRec
      BY VenueFacts DEF OrderRec, OrderState
  <2>3. orders' = Append(orders, x) /\ x.state = "PENDING"
      BY DEF RegisterOrder
  <2> QED
      BY <2>1, <2>2, <2>3, OrderAppended
<1>2. Len(orders) + 1 \in Orders
    BY RegisterFacts DEF RegisterOrder
<1>3. exch[Len(orders) + 1] \in Means("PENDING")
    BY <1>2, MeansFacts DEF ReportType
<1>4. NoPhantomFill'
    BY <1>1, <1>3, RegisteredFacts DEF RegisterOrder, NoPhantomFill, Registered, external
<1>5. LaterUnsent' /\ HeldTrue'
    BY DEF RegisterOrder, LaterUnsent, HeldTrue, external
<1>6. ReportsTrue' /\ AlarmTruthful'
    BY TruthFrames DEF RegisterOrder, external, money
<1> QED
    BY <1>4, <1>5, <1>6

\* So does the timeout mark.
LEMMA MarkTimeoutTruth ==
  ASSUME Inv, Truth, MarkTimeout
  PROVE  Truth'
<1> USE DEF Inv, TypeOK, Truth
<1>1. marking \in 1 .. Len(orders) /\ marking \in Orders
    BY RegisteredFacts DEF MarkTimeout, Structure, CheckInv
<1>2. /\ Len(orders') = Len(orders) /\ orders'[marking].state = "TIMEOUT"
      /\ \A n \in 1 .. Len(orders) : n # marking => orders'[n] = orders[n]
  <2>1. orders \in Seq(OrderRec) /\ "TIMEOUT" \in OrderState
      BY DEF TrackerType, OrderRec, OrderState
  <2> QED
      BY <1>1, <2>1, StateWritten DEF MarkTimeout
<1>3. exch[marking] \in Means("TIMEOUT")
    BY <1>1, MeansFacts DEF ReportType
<1>4. NoPhantomFill'
    BY <1>2, <1>3 DEF MarkTimeout, NoPhantomFill, Registered, external
<1>5. LaterUnsent' /\ HeldTrue'
    BY DEF MarkTimeout, LaterUnsent, HeldTrue, external
<1>6. ReportsTrue' /\ AlarmTruthful'
    BY TruthFrames DEF MarkTimeout, external, money
<1> QED
    BY <1>4, <1>5, <1>6

\* handle_leg_failure() reads the two states at different moments.
LEMMA HandleBuyLegTruth ==
  ASSUME Inv, Truth, HandleBuyLeg
  PROVE  Truth'
<1> USE DEF Inv, TypeOK, Truth
<1>1. Head(failures) \in 1 .. Len(arb_pairs)
    BY FailureFacts DEF HandleBuyLeg
<1>2. bs' = orders[BuyOrder(Head(failures))].state /\ BuyOrder(Head(failures)) \in Registered
    BY <1>1, RegisteredFacts DEF HandleBuyLeg, Registered
<1>3. HeldTrue'
    BY <1>2 DEF HandleBuyLeg, HeldTrue, NoPhantomFill, external
<1>4. LaterUnsent'
    BY DEF HandleBuyLeg, LaterUnsent, external
<1>5. ReportsTrue' /\ NoPhantomFill' /\ AlarmTruthful'
    BY TruthFrames DEF HandleBuyLeg, external, tracker, money
<1> QED
    BY <1>3, <1>4, <1>5

LEMMA HandleSellLegTruth ==
  ASSUME Inv, Truth, HandleSellLeg
  PROVE  Truth'
<1> USE DEF Inv, TypeOK, Truth
<1> DEFINE a == Head(failures)
           ss == orders[arb_pairs[a].sell].state
<1>1. a \in 1 .. Len(arb_pairs) /\ a \in Arbs
    BY FailureFacts DEF HandleSellLeg, Structure, CheckInv
<1>2. bs = "FILLED" => exch[BuyOrder(a)] = "executed"
    BY MeansFacts DEF HandleSellLeg, HeldTrue
<1>3. ss = "FILLED" => exch[SellOrder(a)] = "executed"
    BY <1>1, RegisteredFacts, MeansFacts DEF NoPhantomFill, Registered
<1>4. AlarmTruthful'
  <2>1. Correct(a, ss) /\ UNCHANGED exch
      BY DEF HandleSellLeg, external
  <2>2. CASE alarms' = alarms
      BY <2>1, <2>2 DEF AlarmTruthful
  <2>3. CASE bs = "FILLED" /\ alarms' = alarms \cup {<<a, "long">>}
      BY <1>2, <2>1, <2>3 DEF AlarmTruthful
  <2>4. CASE ss = "FILLED" /\ alarms' = alarms \cup {<<a, "short">>}
      BY <1>3, <2>1, <2>4 DEF AlarmTruthful
  <2> QED
      BY <2>1, <2>2, <2>3, <2>4 DEF Correct, money
<1>5. LaterUnsent' /\ HeldTrue'
    BY DEF HandleSellLeg, LaterUnsent, HeldTrue, external
<1>6. ReportsTrue' /\ NoPhantomFill'
    BY TruthFrames DEF HandleSellLeg, external, tracker
<1> QED
    BY <1>4, <1>5, <1>6

\* The report taken from the connection is about the order it is applied to.
LEMMA TakeUpdateTruth ==
  ASSUME Inv, Truth, TakeUpdate
  PROVE  Truth'
<1> USE DEF Inv, TypeOK, Truth
<1> DEFINE u == Head(updates)
<1>1. /\ u = updates[1] /\ 1 \in DOMAIN updates
      /\ \A i \in DOMAIN updates' : \E j \in DOMAIN updates : updates'[i] = updates[j]
  <2>1. updates \in Seq(UpdateRec) /\ updates # <<>>
      BY DEF TakeUpdate, ReportType, UpdateRec
  <2>2. u = updates[1] /\ 1 \in DOMAIN updates
      BY <2>1, UpdateTaken
  <2>3. CASE updates' = Tail(updates)
      BY <2>1, <2>3, UpdateTaken
  <2>4. CASE updates' = Append(Tail(updates), Head(updates))
      BY <2>1, <2>4, UpdateRequeued
  <2> QED
      BY <2>2, <2>3, <2>4 DEF TakeUpdate
<1>2. exch[u.oid] \in Means(StateOf(u.status))
    BY <1>1 DEF ReportsTrue
<1>3. \A x \in ou' : x = [local |-> u.oid, state |-> StateOf(u.status)]
    BY DEF TakeUpdate, Structure, TrackerConsistent
<1>4. ReportsTrue'
    BY <1>1, <1>2, <1>3 DEF TakeUpdate, ReportsTrue
<1>5. LaterUnsent' /\ NoPhantomFill' /\ HeldTrue' /\ AlarmTruthful'
    BY TruthFrames DEF TakeUpdate, thread, check, tracker, money
<1> QED
    BY <1>4, <1>5

LEMMA WriteUpdateTruth ==
  ASSUME Inv, Truth, WriteUpdate
  PROVE  Truth'
<1> USE DEF Inv, TypeOK, Truth
<1>1. PICK u \in ou :
        orders' = IF u.local <= Len(orders)
                  THEN [orders EXCEPT ![u.local].state = u.state] ELSE orders
    BY DEF WriteUpdate
<1>2. u.local \in Orders /\ u.state \in OrderState /\ exch[u.local] \in Means(u.state)
    BY DEF ReportType, ReportsTrue
<1>3. NoPhantomFill'
  <2>1. CASE u.local <= Len(orders)
    <3>1. orders \in Seq(OrderRec) /\ u.local \in 1 .. Len(orders)
        BY <1>2, <2>1, RegisteredFacts DEF TrackerType, OrderRec, Orders
    <3>2. /\ Len(orders') = Len(orders) /\ orders'[u.local].state = u.state
          /\ \A n \in 1 .. Len(orders) : n # u.local => orders'[n] = orders[n]
        BY <1>1, <1>2, <2>1, <3>1, StateWritten
    <3> QED
        BY <1>2, <3>2 DEF WriteUpdate, NoPhantomFill, Registered, external
  <2>2. CASE ~(u.local <= Len(orders))
      BY <1>1, <2>2, TruthFrames DEF WriteUpdate, external
  <2> QED
      BY <2>1, <2>2
<1>4. ReportsTrue'
    BY DEF WriteUpdate, ReportsTrue, external
<1>5. LaterUnsent' /\ HeldTrue' /\ AlarmTruthful'
    BY TruthFrames DEF WriteUpdate, thread, check, money, external
<1> QED
    BY <1>3, <1>4, <1>5

LEMMA TruthInit == Init => Truth
<1> SUFFICES ASSUME Init
             PROVE  Truth
    OBVIOUS
<1>1. LaterUnsent /\ HeldTrue /\ AlarmTruthful
    BY DEF Init, LaterUnsent, HeldTrue, AlarmTruthful
<1>2. ReportsTrue /\ NoPhantomFill
    BY DEF Init, ReportsTrue, NoPhantomFill, Registered
<1> QED
    BY <1>1, <1>2 DEF Truth

LEMMA TruthStep == Inv /\ Truth /\ [Next]_vars => Truth'
<1> SUFFICES ASSUME Inv, Truth, [Next]_vars
             PROVE  Truth'
    OBVIOUS
<1>1. ASSUME NEW o \in Orders, Accept(o) \/ Partial(o) \/ Execute(o) \/ Cancel(o)
      PROVE  Truth'
    BY <1>1, ReportForm, ReportTruth DEF Inv
<1> QED
    BY <1>1, QuietTruth, SendOrderTruth, RegisterOrderTruth, MarkTimeoutTruth,
       HandleBuyLegTruth, HandleSellLegTruth, TakeUpdateTruth, WriteUpdateTruth
       DEF Next, Engine, Check, OrderUpdates, Environment

LEMMA TruthAlways == Spec => []Truth
<1> QED
    BY InvAlways, TruthInit, TruthStep, PTL DEF Spec

\* Whatever the tracker believes of an order was true at the exchange and
\* still is: update() writes to the order the report is about, and neither the
\* timeout mark nor a registration claims anything of the exchange.
THEOREM FillsAreReal == Spec => []NoPhantomFill
<1> QED
    BY TruthAlways, PTL DEF Truth

\* A hedge alarm of handle_leg_failure() names a leg that was executed, though
\* the order-updates thread may write between its two reads.
THEOREM AlarmsAreReal == Spec => []AlarmTruthful
<1> QED
    BY TruthAlways, PTL DEF Truth
-----------------------------------------------------------------------------
(* Every step preserves OnlyMarked.                                        *)

LEMMA RegisterOrderMarked ==
  ASSUME Inv, OnlyMarked, RegisterOrder
  PROVE  OnlyMarked'
<1> USE DEF Inv, TypeOK, OnlyMarked
<1> DEFINE x == [oid |-> last_order_id[Venue], state |-> "PENDING"]
<1>1. /\ Len(orders') = Len(orders) + 1
      /\ orders'[Len(orders) + 1].state = "PENDING"
      /\ \A n \in 1 .. Len(orders) : orders'[n] = orders[n]
  <2>1. orders \in Seq(OrderRec)
      BY DEF TrackerType, OrderRec
  <2>2. x \in OrderRec
      BY VenueFacts DEF OrderRec, OrderState
  <2>3. orders' = Append(orders, x) /\ x.state = "PENDING"
      BY DEF RegisterOrder
  <2> QED
      BY <2>1, <2>2, <2>3, OrderAppended
<1>2. \A n \in Registered' : orders'[n].state = "TIMEOUT" => n \in marked'
    BY <1>1, RegisteredFacts DEF RegisterOrder, Registered
<1> QED
    BY <1>2 DEF RegisterOrder, CorrectedAfterTimeout, check, money

LEMMA MarkTimeoutMarked ==
  ASSUME Inv, OnlyMarked, MarkTimeout
  PROVE  OnlyMarked'
<1> USE DEF Inv, TypeOK, OnlyMarked
<1>1. marking \in 1 .. Len(orders)
    BY DEF MarkTimeout, Structure, CheckInv
<1>2. /\ Len(orders') = Len(orders)
      /\ \A n \in 1 .. Len(orders) : n # marking => orders'[n] = orders[n]
  <2>1. orders \in Seq(OrderRec) /\ "TIMEOUT" \in OrderState
      BY DEF TrackerType, OrderRec, OrderState
  <2> QED
      BY <1>1, <2>1, StateWritten DEF MarkTimeout
<1>3. \A n \in Registered' : orders'[n].state = "TIMEOUT" => n \in marked'
    BY <1>2 DEF MarkTimeout, Registered
<1>4. CorrectedAfterTimeout'
    BY DEF MarkTimeout, CorrectedAfterTimeout, money
<1> QED
    BY <1>3, <1>4 DEF MarkTimeout, money

LEMMA CollectRecordMarked ==
  ASSUME Inv, OnlyMarked, CollectRecord
  PROVE  OnlyMarked'
<1> USE DEF Inv, TypeOK, OnlyMarked
<1>1. rec \in 1 .. Len(arb_pairs) /\ rec \in Arbs
    BY RegisteredFacts DEF CollectRecord, Structure, CheckInv, CheckType
<1>2. TimedOut(rec) => {BuyOrder(rec), SellOrder(rec)} \cap marked # {}
    BY <1>1, RegisteredFacts DEF TimedOut, Registered
<1>3. \A i \in DOMAIN failures' :
        (failures'[i] = rec /\ TimedOut(rec))
          \/ (i \in DOMAIN failures /\ failures'[i] = failures[i])
    BY <1>1 DEF CollectRecord, CheckType
<1>4. \A i \in DOMAIN failures' :
        {BuyOrder(failures'[i]), SellOrder(failures'[i])} \cap marked # {}
    BY <1>2, <1>3
<1> QED
    BY <1>4 DEF CollectRecord, CorrectedAfterTimeout, Registered, thread, tracker, money

LEMMA HandleSellLegMarked ==
  ASSUME Inv, OnlyMarked, HandleSellLeg
  PROVE  OnlyMarked'
<1> USE DEF Inv, TypeOK, OnlyMarked
<1> DEFINE a == Head(failures)
<1>1. /\ failures # <<>> /\ a \in Arbs
      /\ {BuyOrder(a), SellOrder(a)} \cap marked # {}
  <2>1. failures # <<>> /\ a \in Arbs
      BY FailureFacts DEF HandleSellLeg, Structure, CheckInv
  <2>2. 1 \in DOMAIN failures /\ a = failures[1]
      BY <2>1 DEF CheckType
  <2> QED
      BY <2>1, <2>2
<1>2. \A i \in DOMAIN Tail(failures) :
        i + 1 \in DOMAIN failures /\ Tail(failures)[i] = failures[i + 1]
    BY <1>1 DEF CheckType
<1>3. corrected' \subseteq corrected \cup {a}
    BY <1>1, CorrectForm DEF HandleSellLeg, Adjust, money
<1>4. CorrectedAfterTimeout'
    BY <1>1, <1>3 DEF HandleSellLeg, CorrectedAfterTimeout
<1> QED
    BY <1>2, <1>4 DEF HandleSellLeg, Registered, tracker

LEMMA UpdateMarked ==
  ASSUME Inv, OnlyMarked, TakeUpdate \/ WriteUpdate
  PROVE  OnlyMarked'
<1> USE DEF Inv, TypeOK, OnlyMarked
<1>1. CASE TakeUpdate
  <2>1. \A u \in ou' : u.state # "TIMEOUT"
      BY <1>1 DEF TakeUpdate, StateOf
  <2> QED
      BY <1>1, <2>1
         DEF TakeUpdate, CorrectedAfterTimeout, Registered, thread, check, tracker, money
<1>2. CASE WriteUpdate
  <2>1. PICK u \in ou :
          orders' = IF u.local <= Len(orders)
                    THEN [orders EXCEPT ![u.local].state = u.state] ELSE orders
      BY <1>2 DEF WriteUpdate
  <2>2. u.local \in Orders /\ u.state \in OrderState /\ u.state # "TIMEOUT"
      BY DEF ReportType
  <2>3. \A n \in Registered' : orders'[n].state = "TIMEOUT" => n \in marked
    <3>1. CASE u.local <= Len(orders)
      <4>1. orders \in Seq(OrderRec) /\ u.local \in 1 .. Len(orders)
          BY <2>2, <3>1, RegisteredFacts DEF TrackerType, OrderRec, Orders
      <4>2. /\ Len(orders') = Len(orders) /\ orders'[u.local].state = u.state
            /\ \A n \in 1 .. Len(orders) : n # u.local => orders'[n] = orders[n]
          BY <2>1, <2>2, <3>1, <4>1, StateWritten
      <4> QED
          BY <2>2, <4>2 DEF Registered
    <3>2. CASE ~(u.local <= Len(orders))
        BY <2>1, <3>2 DEF Registered
    <3> QED
        BY <3>1, <3>2
  <2> QED
      BY <1>2, <2>3 DEF WriteUpdate, CorrectedAfterTimeout, thread, check, money
<1> QED
    BY <1>1, <1>2

\* The other steps move none of what OnlyMarked speaks of.
LEMMA OtherMarked ==
  ASSUME OnlyMarked, UNCHANGED <<orders, ou, failures, corrected, marked>>
  PROVE  OnlyMarked'
BY DEF OnlyMarked, CorrectedAfterTimeout, Registered

LEMMA MarkedInit == Init => OnlyMarked
<1> SUFFICES ASSUME Init
             PROVE  OnlyMarked
    OBVIOUS
<1>1. CorrectedAfterTimeout
    BY DEF Init, CorrectedAfterTimeout
<1> QED
    BY <1>1 DEF Init, OnlyMarked, Registered

LEMMA MarkedStep == Inv /\ OnlyMarked /\ [Next]_vars => OnlyMarked'
<1> SUFFICES ASSUME Inv, OnlyMarked, [Next]_vars
             PROVE  OnlyMarked'
    OBVIOUS
<1>1. CASE \/ \E v \in BuyVenues : Fire(v)
           \/ SendOrder \/ SendAccepted \/ SendFailed \/ RegisterOid \/ CheckTimeouts
           \/ \E n \in Orders : ScanOrder(n)
           \/ HandleBuyLeg \/ CheckDone \/ LeaveLoop \/ DrainDone
           \/ Expire \/ UNCHANGED vars
  <2>1. UNCHANGED <<orders, ou, failures, corrected, marked>>
      BY <1>1 DEF Fire, SendOrder, SendAccepted, SendFailed, RegisterOid, CheckTimeouts, ScanOrder,
         HandleBuyLeg, CheckDone, LeaveLoop, DrainDone, Expire, vars, thread, check, tracker, money
  <2> QED
      BY <2>1, OtherMarked
<1>2. ASSUME NEW o \in Orders, Accept(o) \/ Partial(o) \/ Execute(o) \/ Cancel(o)
      PROVE  OnlyMarked'
  <2>1. UNCHANGED <<orders, ou, failures, corrected, marked>>
      BY <1>2 DEF Accept, Partial, Execute, Cancel, Report, thread, check, tracker, money
  <2> QED
      BY <2>1, OtherMarked
<1> QED
    BY <1>1, <1>2, RegisterOrderMarked, MarkTimeoutMarked, CollectRecordMarked,
       HandleSellLegMarked, UpdateMarked
       DEF Next, Engine, Check, OrderUpdates, Environment

\* handle_leg_failure() corrects the booking of an arb, by all of its profit or
\* by the penalty, only when one of the arb's own legs was marked by
\* check_timeouts(): never that of another arb, never on a mere delay.
THEOREM CorrectionsAreJustified == Spec => []CorrectedAfterTimeout
<1>1. OnlyMarked => CorrectedAfterTimeout
    BY DEF OnlyMarked
<1> QED
    BY <1>1, InvAlways, MarkedInit, MarkedStep, PTL DEF Spec
-----------------------------------------------------------------------------
(* Every step preserves LastReport, and no step undoes a fill.             *)

FillKept ==
  \A n \in Registered :
    orders[n].state = "FILLED" /\ marking # n => orders'[n].state = "FILLED"

\* What a step must do for LastReport and FillKept when it leaves the reports
\* alone: keep the orders, and make none of them FILLED.
LEMMA ReportsAlone ==
  ASSUME Inv, LastReport, UNCHANGED <<ou, updates>>,
         \A n \in Registered' : orders'[n].state = "FILLED" =>
           n \in Registered /\ orders[n].state = "FILLED"
  PROVE  LastReport'
BY DEF LastReport

LEMMA RegisterOrderLast ==
  ASSUME Inv, LastReport, RegisterOrder
  PROVE  LastReport' /\ FillKept
<1> USE DEF Inv, TypeOK
<1> DEFINE x == [oid |-> last_order_id[Venue], state |-> "PENDING"]
<1>1. /\ Len(orders') = Len(orders) + 1 /\ Len(orders) \in Nat
      /\ orders'[Len(orders) + 1].state = "PENDING"
      /\ \A n \in 1 .. Len(orders) : orders'[n] = orders[n]
  <2>1. orders \in Seq(OrderRec)
      BY DEF TrackerType, OrderRec
  <2>2. x \in OrderRec
      BY VenueFacts DEF OrderRec, OrderState
  <2>3. orders' = Append(orders, x) /\ x.state = "PENDING"
      BY DEF RegisterOrder
  <2> QED
      BY <2>1, <2>2, <2>3, OrderAppended
<1>2. \A n \in Registered' : orders'[n].state = "FILLED" =>
        n \in Registered /\ orders[n].state = "FILLED"
    BY <1>1 DEF Registered
<1>3. LastReport'
    BY <1>2, ReportsAlone DEF RegisterOrder, external
<1> QED
    BY <1>1, <1>3 DEF FillKept, Registered

LEMMA MarkTimeoutLast ==
  ASSUME Inv, LastReport, MarkTimeout
  PROVE  LastReport' /\ FillKept
<1> USE DEF Inv, TypeOK
<1>1. marking \in 1 .. Len(orders)
    BY DEF MarkTimeout, Structure, CheckInv
<1>2. /\ Len(orders') = Len(orders) /\ orders'[marking].state = "TIMEOUT"
      /\ \A n \in 1 .. Len(orders) : n # marking => orders'[n] = orders[n]
  <2>1. orders \in Seq(OrderRec) /\ "TIMEOUT" \in OrderState
      BY DEF TrackerType, OrderRec, OrderState
  <2> QED
      BY <1>1, <2>1, StateWritten DEF MarkTimeout
<1>3. \A n \in Registered' : orders'[n].state = "FILLED" =>
        n \in Registered /\ orders[n].state = "FILLED"
    BY <1>2 DEF Registered
<1>4. LastReport'
    BY <1>3, ReportsAlone DEF MarkTimeout, external
<1> QED
    BY <1>2, <1>4 DEF FillKept, Registered

LEMMA TakeUpdateLast ==
  ASSUME MaxRepeats = 0, Inv, LastReport, TakeUpdate
  PROVE  LastReport' /\ FillKept
<1> USE DEF Inv, TypeOK, LastReport
<1> DEFINE u == Head(updates)
<1>1. /\ u = updates[1] /\ 1 \in DOMAIN updates
      /\ \A i \in DOMAIN Tail(updates) :
           i + 1 \in DOMAIN updates /\ Tail(updates)[i] = updates[i + 1]
      /\ \A i \in DOMAIN Tail(updates) : i \in Nat /\ i >= 1
  <2>1. updates \in Seq(UpdateRec) /\ updates # <<>>
      BY DEF TakeUpdate, ReportType, UpdateRec
  <2> QED
      BY <2>1, UpdateTaken
<1>2. /\ updates' = Tail(updates) /\ UNCHANGED <<orders, marking>>
      /\ \A x \in ou' : x = [local |-> u.oid, state |-> StateOf(u.status)]
  <2>1. ~(repeats < MaxRepeats)
      BY DEF ReportType
  <2> QED
      BY <2>1 DEF TakeUpdate, Structure, TrackerConsistent, tracker, check
<1>3. \A i, j \in DOMAIN updates' :
        i < j /\ updates'[i].oid = updates'[j].oid => updates'[i].status # "executed"
    BY <1>1, <1>2
<1>4. \A x \in ou' : x.state = "FILLED" =>
        \A i \in DOMAIN updates' : updates'[i].oid # x.local
  <2>1. StateOf(u.status) = "FILLED" => u.status = "executed"
      BY DEF StateOf
  <2> QED
      BY <1>1, <1>2, <2>1
<1>5. \A n \in Registered' : orders'[n].state = "FILLED" =>
        /\ \A i \in DOMAIN updates' : updates'[i].oid # n
        /\ \A x \in ou' : x.local # n
    BY <1>1, <1>2 DEF Registered
<1> QED
    BY <1>2, <1>3, <1>4, <1>5 DEF FillKept, Registered

LEMMA WriteUpdateLast ==
  ASSUME Inv, LastReport, WriteUpdate
  PROVE  LastReport' /\ FillKept
<1> USE DEF Inv, TypeOK, LastReport
<1>1. PICK u \in ou :
        orders' = IF u.local <= Len(orders)
                  THEN [orders EXCEPT ![u.local].state = u.state] ELSE orders
    BY DEF WriteUpdate
<1>2. ou' = {} /\ UNCHANGED updates
    BY DEF WriteUpdate, external
<1>3. CASE u.local <= Len(orders)
  <2>1. orders \in Seq(OrderRec) /\ u.local \in 1 .. Len(orders) /\ u.state \in OrderState
      BY <1>3, RegisteredFacts DEF TrackerType, ReportType, OrderRec, Orders
  <2>2. /\ Len(orders') = Len(orders) /\ orders'[u.local].state = u.state
        /\ \A n \in 1 .. Len(orders) : n # u.local => orders'[n] = orders[n]
      BY <1>1, <1>3, <2>1, StateWritten
  <2>3. \A n \in Registered' : orders'[n].state = "FILLED" =>
          \A i \in DOMAIN updates : updates[i].oid # n
      BY <2>2 DEF Registered
  <2> QED
      BY <1>2, <2>2, <2>3 DEF FillKept, Registered
<1>4. CASE ~(u.local <= Len(orders))
    BY <1>1, <1>2, <1>4 DEF FillKept, Registered
<1> QED
    BY <1>3, <1>4

\* An order that still moves was not reported executed before.
LEMMA ReportLast ==
  ASSUME Inv, Truth, LastReport, NEW o \in Orders, NEW status \in Sent, Report(o, status),
         exch[o] \in {"flying", "open", "partial"}
  PROVE  LastReport' /\ FillKept
<1> USE DEF Inv, TypeOK, LastReport
<1> DEFINE x == [oid |-> o, status |-> status]
<1>1. UNCHANGED <<orders, ou>> /\ FillKept
    BY DEF Report, tracker, FillKept
<1>2. CASE updates' = Append(updates, x)
  <2>1. updates \in Seq(UpdateRec) /\ x \in UpdateRec
      BY DEF ReportType, UpdateRec, Sent, ExchState
  <2>2. /\ DOMAIN updates = 1 .. Len(updates) /\ Len(updates) \in Nat
        /\ DOMAIN updates' = 1 .. Len(updates) + 1
        /\ updates'[Len(updates) + 1] = x
        /\ \A i \in 1 .. Len(updates) : updates'[i] = updates[i]
      BY <1>2, <2>1
  <2>3. \A i \in DOMAIN updates : updates[i].oid = o => updates[i].status # "executed"
    <3>1. "executed" \in ExchState /\ StateOf("executed") = "FILLED"
        BY DEF ExchState, StateOf
    <3> QED
        BY <3>1, MeansFacts DEF Truth, ReportsTrue
  <2>4. \A u \in ou : u.state = "FILLED" => u.local # o
      BY MeansFacts DEF Truth, ReportsTrue
  <2>5. \A n \in Registered : orders[n].state = "FILLED" => n # o /\ \A u \in ou : u.local # n
      BY MeansFacts DEF Truth, NoPhantomFill
  <2>6. x.oid = o
      OBVIOUS
  <2> HIDE DEF x
  <2>7. \A i, j \in DOMAIN updates' :
          i < j /\ updates'[i].oid = updates'[j].oid => updates'[i].status # "executed"
      BY <2>2, <2>3, <2>6
  <2>8. \A u \in ou : u.state = "FILLED" => \A i \in DOMAIN updates' : updates'[i].oid # u.local
      BY <2>2, <2>4, <2>6
  <2>9. \A n \in Registered : orders[n].state = "FILLED" =>
          \A i \in DOMAIN updates' : updates'[i].oid # n
      BY <2>2, <2>5, <2>6
  <2> QED
      BY <1>1, <2>5, <2>7, <2>8, <2>9 DEF Registered
<1>3. CASE UNCHANGED updates
    BY <1>1, <1>3 DEF Registered
<1> QED
    BY <1>1, <1>2, <1>3 DEF Report

LEMMA LastInit == Init => LastReport
BY DEF Init, LastReport, Registered

LEMMA LastStep ==
  ASSUME MaxRepeats = 0
  PROVE  Inv /\ Truth /\ LastReport /\ [Next]_vars => LastReport' /\ FillKept
<1> SUFFICES ASSUME Inv, Truth, LastReport, [Next]_vars
             PROVE  LastReport' /\ FillKept
    OBVIOUS
<1>1. CASE \/ \E v \in BuyVenues : Fire(v)
           \/ SendOrder \/ SendAccepted \/ SendFailed \/ RegisterOid \/ CheckTimeouts
           \/ \E n \in Orders : ScanOrder(n)
           \/ CollectRecord \/ HandleBuyLeg \/ HandleSellLeg \/ CheckDone
           \/ LeaveLoop \/ DrainDone \/ Expire \/ UNCHANGED vars
  <2>1. UNCHANGED <<orders, ou, updates>>
      BY <1>1 DEF Fire, SendOrder, SendAccepted, SendFailed, RegisterOid, CheckTimeouts,
         ScanOrder, CollectRecord, HandleBuyLeg, HandleSellLeg, CheckDone, LeaveLoop, DrainDone,
         Expire, vars,
         tracker, external
  <2> QED
      BY <2>1 DEF LastReport, FillKept, Registered
<1>2. ASSUME NEW o \in Orders, Accept(o) \/ Partial(o) \/ Execute(o) \/ Cancel(o)
      PROVE  LastReport' /\ FillKept
    BY <1>2, ReportForm, ReportLast DEF Inv
<1> QED
    BY <1>1, <1>2, RegisterOrderLast, MarkTimeoutLast, TakeUpdateLast, WriteUpdateLast
       DEF Next, Engine, Check, OrderUpdates, Environment

LEMMA LastAlways ==
  ASSUME MaxRepeats = 0
  PROVE  Spec => []LastReport
<1>1. Inv /\ Truth /\ LastReport /\ [Next]_vars => LastReport'
    BY LastStep
<1> QED
    BY <1>1, InvAlways, TruthAlways, LastInit, PTL DEF Spec

\* When no report is delivered twice, no later one undoes a FILLED that update()
\* has written; only the mark of a check_timeouts() that read PENDING before the
\* fill may.
THEOREM FillsStay ==
  ASSUME MaxRepeats = 0
  PROVE  Spec => FillIsFinal
<1>1. Inv /\ Truth /\ LastReport /\ [Next]_vars => [FillKept]_vars
    BY LastStep
<1>2. Spec => [][FillKept]_vars
    BY <1>1, InvAlways, TruthAlways, LastAlways, PTL DEF Spec
<1>3. FillIsFinal <=> [][FillKept]_vars
    BY DEF FillIsFinal, FillKept
<1> QED
    BY <1>2, <1>3, PTL
=============================================================================
