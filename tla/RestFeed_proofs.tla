--------------------------- MODULE RestFeed_proofs ---------------------------
(* Proofs about the paper trader's feed: every request of a cycle is       *)
(* counted once, what is counted OK reaches the engine, and an older book  *)
(* of a symbol and venue never follows a newer one, for any number of      *)
(* symbols, any ring and any number of cycles.                             *)
EXTENDS RestFeed, SequenceLemmas, FiniteSetTheorems, TLAPS

Results == {"book", "refused", "error"}
Response == [slot : Slots, result : Results]

\* A book that waits to be pushed, and one that has yet to be counted.
InPush == ppc \in {"push", "full"}
Holding == ppc \in {"push", "full", "count"}

RestType ==
    /\ g_stop \in BOOLEAN /\ running_ \in BOOLEAN
    /\ ppc \in {"cycle", "fire", "harvest", "push", "full", "count", "exited"}
    /\ epc \in {"loop", "drain", "stop", "join", "done"}
    /\ cycle \in Nat /\ cycle <= MaxCycles
    /\ flight \subseteq Slots /\ attached \subseteq Slots /\ finished \in Seq(Response)
    /\ polls_ok \in Nat /\ polls_err \in Nat /\ asked \in Nat /\ given_up \in Nat
    /\ queue \in Seq(Ticks) /\ Len(queue) <= N /\ tick \in Ticks \cup {NoTick}
    /\ processed \in Seq(Ticks)
    /\ IF Holding THEN pushing \in Ticks ELSE pushing = NoTick

\* A slot's request is running, or has ended and is yet to be read, but not
\* both and not twice; between two cycles there is none.
RequestInv ==
    /\ ppc \in {"fire", "harvest", "push", "full", "count"} => cycle >= 1
    /\ ppc = "cycle" => finished = <<>>
    /\ running_ /\ ppc # "fire" => flight = {}
    /\ \A i \in DOMAIN finished : finished[i].slot \notin flight
    /\ \A i, j \in DOMAIN finished : i < j => finished[i].slot # finished[j].slot

InHand == IF Holding THEN 1 ELSE 0

\* Every request since the start is counted, in hand, to be read, or running.
CountInv ==
    polls_ok + polls_err + InHand + Len(finished) + Cardinality(flight) = asked

Waiting == IF InPush THEN <<pushing>> ELSE <<>>
Line == processed \o queue \o Waiting

\* The slots of this cycle whose book has not been taken yet.
Open == flight \cup {finished[k].slot : k \in DOMAIN finished}
Held == IF Holding THEN {pushing.slot} ELSE {}

\* Attached are the handles of the requests that run or wait to be read, and that
\* of the book in hand.
AttachedInv == attached = Open \cup Held /\ Open \cap Held = {}

OrderInv ==
    /\ \A i, j \in DOMAIN Line :
         i < j /\ Line[i].slot = Line[j].slot => Line[i].cycle < Line[j].cycle
    /\ \A i \in DOMAIN Line : Line[i].cycle <= cycle
    /\ \A i \in DOMAIN Line : Line[i].cycle = cycle => Line[i].slot \notin Open

Inv == RestType /\ RequestInv /\ CountInv /\ OrderInv /\ AttachedInv /\ OkPollsArrive
-----------------------------------------------------------------------------
(* Constants and values.                                                   *)

LEMMA Constants ==
    /\ N \in Nat \ {0} /\ MaxCycles \in Nat /\ IsFiniteSet(Slots)
    /\ \A t \in Ticks : t.slot \in Slots /\ t.cycle \in Nat
<1>1. IsFiniteSet(Slots) /\ N \in Nat \ {0} /\ MaxCycles \in Nat
  BY RestAssumption DEF RestAssumption
<1>2. \A t \in Ticks : t.slot \in Slots /\ t.cycle \in Nat
  BY <1>1 DEF Ticks, Cycles
<1>3. QED  BY <1>1, <1>2

LEMMA NoTickIsNone == NoTick \notin Ticks
<1>1. \A t \in Ticks : "cycle" \in DOMAIN t
  BY DEF Ticks
<1>2. "cycle" \notin DOMAIN NoTick
  BY DEF NoTick
<1>3. QED  BY <1>1, <1>2

-----------------------------------------------------------------------------
(* The line from the poller to process_tick().                             *)

LEMMA LineIsSeq ==
    ASSUME RestType
    PROVE  /\ processed \in Seq(Ticks) /\ queue \in Seq(Ticks) /\ Line \in Seq(Ticks)
           /\ processed \o queue \in Seq(Ticks)
           /\ ~InPush => Line = processed \o queue
           /\ InPush => Line = (processed \o queue) \o <<pushing>> /\ pushing \in Ticks
<1>1. processed \in Seq(Ticks) /\ queue \in Seq(Ticks) /\ processed \o queue \in Seq(Ticks)
  BY ConcatProperties DEF RestType
<1>2. CASE InPush
  <2>1. pushing \in Ticks /\ Waiting = <<pushing>>
    BY <1>2 DEF RestType, Waiting, InPush, Holding
  <2>2. <<pushing>> \in Seq(Ticks)
    BY <2>1
  <2>3. QED  BY <1>1, <1>2, <2>1, <2>2, ConcatProperties DEF Line
<1>3. CASE ~InPush
  <2>1. Waiting = <<>>
    BY <1>3 DEF Waiting
  <2>2. QED  BY <1>1, <1>3, <2>1, ConcatEmptySeq DEF Line
<1>4. QED  BY <1>2, <1>3

\* The line stands still, and no slot is opened.
LEMMA SameOrder ==
    ASSUME OrderInv, Line' = Line, cycle' = cycle, Open' \subseteq Open
    PROVE  OrderInv'
BY DEF OrderInv

\* A cycle begins: what is in line is of earlier ones.
LEMMA CycleOrder ==
    ASSUME RestType, OrderInv, Line' = Line, cycle' = cycle + 1
    PROVE  OrderInv'
<1>1. \A i \in DOMAIN Line : Line[i].cycle \in Nat
  <2>1. \A i \in DOMAIN Line : Line[i] \in Ticks
    BY LineIsSeq, LenProperties
  <2>2. QED  BY <2>1, Constants
<1>2. PICK c \in Nat : c = cycle
  BY DEF RestType
<1>3. \A i \in DOMAIN Line : Line[i].cycle <= c + 1 /\ Line[i].cycle # c + 1
  BY <1>1, <1>2 DEF OrderInv
<1>4. QED  BY <1>2, <1>3 DEF OrderInv

\* A book is taken: its slot was open, so no other book of this cycle is its.
LEMMA TakeOrder ==
    ASSUME RestType, OrderInv, NEW t \in Ticks, Line' = Append(Line, t),
           cycle' = cycle, t.cycle = cycle, t.slot \in Open, Open' \subseteq Open \ {t.slot}
    PROVE  OrderInv'
<1>1. /\ Line \in Seq(Ticks) /\ Len(Line) \in Nat
      /\ DOMAIN Line' = 1 .. Len(Line) + 1 /\ DOMAIN Line = 1 .. Len(Line)
      /\ \A i \in DOMAIN Line' : IF i = Len(Line) + 1 THEN Line'[i] = t
                                 ELSE i \in DOMAIN Line /\ Line'[i] = Line[i]
  BY LineIsSeq, Appended
<1>2. cycle \in Nat
  BY DEF RestType
<1>3. \A i \in DOMAIN Line : Line[i].cycle \in Nat
  <2>1. \A i \in DOMAIN Line : Line[i] \in Ticks
    BY <1>1, LenProperties
  <2>2. QED  BY <2>1, Constants
<1>4. ASSUME NEW i \in DOMAIN Line, Line[i].slot = t.slot
      PROVE  Line[i].cycle < t.cycle
  <2>1. Line[i].cycle # cycle /\ Line[i].cycle <= cycle
    BY <1>4 DEF OrderInv
  <2>2. QED  BY <1>2, <1>3, <1>4, <2>1
<1>5. \A i, j \in DOMAIN Line' :
        i < j /\ Line'[i].slot = Line'[j].slot => Line'[i].cycle < Line'[j].cycle
  <2>1. SUFFICES ASSUME NEW i \in DOMAIN Line', NEW j \in DOMAIN Line',
                        i < j, Line'[i].slot = Line'[j].slot
                 PROVE  Line'[i].cycle < Line'[j].cycle
    OBVIOUS
  <2>2. i \in DOMAIN Line /\ Line'[i] = Line[i]
    BY <1>1, <2>1
  <2>3. CASE j = Len(Line) + 1
    BY <1>1, <1>4, <2>1, <2>2, <2>3
  <2>4. CASE j # Len(Line) + 1
    BY <1>1, <2>1, <2>2, <2>4 DEF OrderInv
  <2>5. QED  BY <2>3, <2>4
<1>6. \A i \in DOMAIN Line' : Line'[i].cycle <= cycle
  BY <1>1, <1>2 DEF OrderInv
<1>7. \A i \in DOMAIN Line' : Line'[i].cycle = cycle => Line'[i].slot \notin Open'
  BY <1>1 DEF OrderInv
<1>8. QED  BY <1>5, <1>6, <1>7 DEF OrderInv

\* A book given up at the shutdown was the last in line.
LEMMA DropOrder ==
    ASSUME RestType, OrderInv, InPush, Line' = processed \o queue, cycle' = cycle,
           Open' \subseteq Open
    PROVE  OrderInv'
<1>1. /\ processed \o queue \in Seq(Ticks) /\ Line = (processed \o queue) \o <<pushing>>
      /\ pushing \in Ticks
  BY LineIsSeq
<1>2. <<pushing>> \in Seq(Ticks)
  BY <1>1
<1>3. \A i \in DOMAIN Line' : i \in DOMAIN Line /\ Line'[i] = Line[i]
  BY <1>1, <1>2, ConcatProperties, LenProperties
<1>4. \A i, j \in DOMAIN Line' :
        i < j /\ Line'[i].slot = Line'[j].slot => Line'[i].cycle < Line'[j].cycle
  BY <1>3 DEF OrderInv
<1>5. \A i \in DOMAIN Line' : Line'[i].cycle <= cycle
  BY <1>3 DEF OrderInv
<1>6. \A i \in DOMAIN Line' : Line'[i].cycle = cycle => Line'[i].slot \notin Open'
  BY <1>3 DEF OrderInv
<1>7. QED  BY <1>4, <1>5, <1>6 DEF OrderInv
-----------------------------------------------------------------------------
(* The counts.                                                             *)

LEMMA Countable ==
    ASSUME RestType
    PROVE  /\ polls_ok \in Int /\ polls_err \in Int /\ InHand \in Int
           /\ Len(finished) \in Int /\ Cardinality(flight) \in Int /\ asked \in Int
           /\ IsFiniteSet(flight)
<1>1. IsFiniteSet(flight) /\ Cardinality(flight) \in Nat
  <2>1. flight \in SUBSET Slots /\ IsFiniteSet(Slots)
    BY Constants DEF RestType
  <2>2. IsFiniteSet(flight)
    BY <2>1, FS_Subset
  <2>3. QED  BY <2>2, FS_CardinalityType
<1>2. Len(finished) \in Nat
  BY LenProperties DEF RestType
<1>3. QED  BY <1>1, <1>2 DEF RestType, InHand

\* A step that only moves requests on keeps the sum.
LEMMA SameCount ==
    ASSUME RestType, CountInv, asked' = asked,
           NEW ok \in Int, NEW err \in Int, NEW hand \in Int, NEW fin \in Int, NEW fl \in Int,
           polls_ok' = polls_ok + ok, polls_err' = polls_err + err,
           InHand' = InHand + hand, Len(finished') = Len(finished) + fin,
           Cardinality(flight') = Cardinality(flight) + fl,
           ok + err + hand + fin + fl = 0
    PROVE  CountInv'
<1>1. PICK a \in Int, b \in Int, h \in Int, l \in Int, f \in Int, t \in Int :
        /\ a = polls_ok /\ b = polls_err /\ h = InHand /\ l = Len(finished)
        /\ f = Cardinality(flight) /\ t = asked
  BY Countable
<1>2. a + b + h + l + f = t
  BY <1>1 DEF CountInv
<1>3. (a + ok) + (b + err) + (h + hand) + (l + fin) + (f + fl) = t
  BY <1>2
<1>4. /\ polls_ok' = a + ok /\ polls_err' = b + err /\ InHand' = h + hand
      /\ Len(finished') = l + fin /\ Cardinality(flight') = f + fl /\ asked' = t
  BY <1>1
<1>5. QED  BY <1>3, <1>4 DEF CountInv

\* A new cycle adds the requests it starts.
LEMMA MoreCount ==
    ASSUME RestType, CountInv, finished = <<>>, flight = {}, ~Holding, ~Holding',
           IsFiniteSet(flight'), asked' = asked + Cardinality(flight'), finished' = <<>>,
           UNCHANGED <<polls_ok, polls_err>>
    PROVE  CountInv'
<1>1. PICK a \in Int, b \in Int, t \in Int, f \in Int :
        a = polls_ok /\ b = polls_err /\ t = asked /\ f = Cardinality(flight')
  BY Countable, FS_CardinalityType
<1>2. InHand = 0 /\ InHand' = 0 /\ Len(finished) = 0 /\ Len(finished') = 0
      /\ Cardinality(flight) = 0
  BY EmptySeq, FS_EmptySet DEF InHand
<1>3. a + b + 0 + 0 + 0 = t
  BY <1>1, <1>2, Zenon DEF CountInv
<1>4. a + b + 0 + 0 + f = t + f
  BY <1>3
<1>5. polls_ok' = a /\ polls_err' = b /\ asked' = t + f
  BY <1>1
<1>6. QED  BY <1>1, <1>2, <1>4, <1>5, Zenon DEF CountInv

-----------------------------------------------------------------------------
(* One lemma per action.                                                   *)

LEMMA BeginStep ==
    ASSUME Inv, BeginCycle
    PROVE  Inv'
<1>1. RestType /\ RequestInv /\ CountInv /\ OrderInv /\ AttachedInv /\ OkPollsArrive
  BY DEF Inv
<1>2. /\ ppc = "cycle" /\ running_ /\ cycle < MaxCycles /\ cycle' = cycle + 1
      /\ ppc' = "fire" /\ finished = <<>> /\ flight = {}
      /\ UNCHANGED <<g_stop, running_, finished, pushing, given_up, polls_ok, polls_err,
                     queue, tick, epc, processed>>
  BY <1>1 DEF BeginCycle, RequestInv, polls, ring
<1>3. ~InPush /\ ~InPush' /\ ~Holding /\ ~Holding'
  BY <1>2 DEF InPush, Holding
<1>4. cycle \in Nat /\ cycle' \in Nat /\ cycle' >= 1 /\ cycle' <= MaxCycles
  BY <1>1, <1>2, Constants DEF RestType
<1>5. PICK started \in SUBSET (Slots \ attached) :
        /\ attached' = attached \cup started /\ flight' = started
        /\ asked' = asked + Cardinality(started)
  BY DEF BeginCycle
<1>6. IsFiniteSet(flight') /\ Cardinality(flight') \in Nat
  <2>1. flight' \in SUBSET Slots /\ IsFiniteSet(Slots)
    BY <1>5, Constants
  <2>2. IsFiniteSet(flight')
    BY <2>1, FS_Subset
  <2>3. QED  BY <2>2, FS_CardinalityType
<1>7. RestType'
  <2>1. attached' \subseteq Slots /\ flight' \subseteq Slots
    BY <1>1, <1>5 DEF RestType
  <2>2. asked' \in Nat
    BY <1>1, <1>5, <1>6 DEF RestType
  <2>3. QED  BY <1>1, <1>2, <1>3, <1>4, <2>1, <2>2 DEF RestType
<1>8. RequestInv'
  <2>1. DOMAIN finished' = {}
    BY <1>2
  <2>2. QED  BY <1>2, <1>4, <2>1 DEF RequestInv
<1>9. CountInv'
  BY <1>1, <1>2, <1>3, <1>5, <1>6, MoreCount
<1>10. OrderInv'
  <2>1. Line' = Line
    BY <1>2, <1>3 DEF Line, Waiting
  <2>2. QED  BY <1>1, <1>2, <2>1, CycleOrder
<1>11. AttachedInv'
  <2>1. DOMAIN finished = {} /\ DOMAIN finished' = {}
    BY <1>2
  <2>2. Open = {} /\ Held = {} /\ Held' = {} /\ Open' = started
    BY <1>2, <1>3, <1>5, <2>1 DEF Open, Held
  <2>3. attached' = started
    BY <1>1, <1>5, <2>2 DEF AttachedInv
  <2>4. QED  BY <2>2, <2>3 DEF AttachedInv
<1>12. OkPollsArrive'
  BY <1>1, <1>2 DEF OkPollsArrive
<1>13. QED  BY <1>7, <1>8, <1>9, <1>10, <1>11, <1>12 DEF Inv

\* Steps of the poller that only move its program counter.
LEMMA MoveSteps ==
    ASSUME Inv, Exit \/ Fired \/ Harvested \/ PushFull
    PROVE  Inv'
<1>1. RestType /\ RequestInv /\ CountInv /\ OrderInv /\ AttachedInv /\ OkPollsArrive
  BY DEF Inv
<1>2. UNCHANGED <<g_stop, running_, cycle, attached, flight, finished, pushing, asked,
                  given_up, polls_ok, polls_err, queue, tick, epc, processed>>
  BY DEF Exit, Fired, Harvested, PushFull, GoesOn, polls, ring
<1>3. /\ ppc' \in {"cycle", "harvest", "full", "exited"} /\ ppc # "count"
      /\ InPush' <=> InPush
      /\ Holding' <=> Holding
      /\ ppc' \in {"harvest", "full"} => ppc \in {"fire", "push"}
      /\ ppc' = "cycle" => finished = <<>>
      /\ running_ /\ ppc' # "fire" => flight = {}
  BY <1>1 DEF Exit, Fired, Harvested, PushFull, GoesOn, InPush, Holding, RequestInv
<1>4. RestType'
  BY <1>1, <1>2, <1>3 DEF RestType
<1>5. RequestInv'
  BY <1>1, <1>2, <1>3 DEF RequestInv
<1>6. CountInv'
  <2>1. InHand' = InHand
    BY <1>3 DEF InHand
  <2>2. QED  BY <1>1, <1>2, <2>1 DEF CountInv
<1>7. OrderInv' /\ AttachedInv'
  <2>1. Waiting' = Waiting /\ Held' = Held
    BY <1>2, <1>3 DEF Waiting, Held
  <2>2. Line' = Line /\ Open' = Open
    BY <1>2, <2>1 DEF Line, Open
  <2>3. QED  BY <1>1, <1>2, <2>1, <2>2, SameOrder DEF AttachedInv
<1>8. OkPollsArrive'
  BY <1>1, <1>2, <1>3 DEF OkPollsArrive
<1>9. QED  BY <1>4, <1>5, <1>6, <1>7, <1>8 DEF Inv

LEMMA CompleteStep ==
    ASSUME Inv, NEW s \in Slots, NEW result \in Results, Complete(s, result)
    PROVE  Inv'
<1> DEFINE r == [slot |-> s, result |-> result]
<1>1. RestType /\ RequestInv /\ CountInv /\ OrderInv /\ AttachedInv /\ OkPollsArrive
  BY DEF Inv
<1>2. /\ ppc = "fire" /\ s \in flight /\ flight' = flight \ {s}
      /\ finished' = Append(finished, r)
      /\ UNCHANGED <<g_stop, running_, ppc, cycle, attached, pushing, asked, given_up,
                     polls_ok, polls_err, queue, tick, epc, processed>>
  BY DEF Complete, polls, ring
<1>3. r \in Response /\ r.slot = s
  BY <1>1 DEF Response, RestType
<1> HIDE DEF r
<1>4. /\ finished' \in Seq(Response) /\ Len(finished') = Len(finished) + 1
      /\ Len(finished) \in Nat /\ finished \in Seq(Response)
      /\ DOMAIN finished = 1 .. Len(finished) /\ DOMAIN finished' = 1 .. Len(finished) + 1
      /\ \A i \in DOMAIN finished' : IF i = Len(finished) + 1 THEN finished'[i] = r
                                     ELSE i \in DOMAIN finished /\ finished'[i] = finished[i]
  <2>1. finished \in Seq(Response)
    BY <1>1 DEF RestType
  <2>2. QED  BY <1>2, <1>3, <2>1, Appended
<1>5. RestType'
  <2>1. Holding' <=> Holding
    BY <1>2 DEF Holding
  <2>2. QED  BY <1>1, <1>2, <1>4, <2>1 DEF RestType
<1>6. RequestInv'
  <2>1. \A i \in DOMAIN finished' : finished'[i].slot \notin flight'
    BY <1>1, <1>2, <1>3, <1>4 DEF RequestInv
  <2>2. ASSUME NEW i \in DOMAIN finished', NEW j \in DOMAIN finished', i < j
        PROVE  finished'[i].slot # finished'[j].slot
    <3>1. i \in DOMAIN finished /\ finished'[i] = finished[i]
      BY <1>4, <2>2
    <3>2. CASE j = Len(finished) + 1
      BY <1>1, <1>2, <1>3, <1>4, <3>1, <3>2 DEF RequestInv
    <3>3. CASE j # Len(finished) + 1
      BY <1>1, <1>4, <2>2, <3>1, <3>3 DEF RequestInv
    <3>4. QED  BY <3>2, <3>3
  <2>3. QED  BY <1>1, <1>2, <2>1, <2>2 DEF RequestInv
<1>7. CountInv'
  <2>1. Cardinality(flight') = Cardinality(flight) - 1
    BY <1>1, <1>2, Countable, FS_RemoveElement
  <2>2. /\ InHand \in Int /\ polls_ok \in Int /\ polls_err \in Int
        /\ Cardinality(flight) \in Int
    BY <1>1, Countable
  <2>3. InHand' = InHand
    BY <1>2 DEF InHand, Holding
  <2>4. /\ polls_ok' = polls_ok + 0 /\ polls_err' = polls_err + 0 /\ InHand' = InHand + 0
        /\ Cardinality(flight') = Cardinality(flight) + (-1)
    BY <1>2, <2>1, <2>2, <2>3
  <2>5. 0 \in Int /\ 1 \in Int /\ -1 \in Int /\ 0 + 0 + 0 + 1 + (-1) = 0
    OBVIOUS
  <2>6. QED  BY <1>1, <1>2, <1>4, <2>4, <2>5, SameCount, Zenon
<1>8. OrderInv'
  <2>1. Line' = Line
    BY <1>2 DEF Line, Waiting, InPush
  <2>2. Open' \subseteq Open
    BY <1>2, <1>3, <1>4 DEF Open
  <2>3. QED  BY <1>1, <1>2, <2>1, <2>2, SameOrder
<1>9. AttachedInv'
  <2>1. Open' = Open
    BY <1>2, <1>3, <1>4 DEF Open
  <2>2. Held' = Held
    BY <1>2 DEF Held, Holding
  <2>3. QED  BY <1>1, <1>2, <2>1, <2>2 DEF AttachedInv
<1>10. OkPollsArrive'
  BY <1>1, <1>2 DEF OkPollsArrive
<1>11. QED  BY <1>5, <1>6, <1>7, <1>8, <1>9, <1>10 DEF Inv

\* A response is read: a book is taken, anything else is counted as an error.
LEMMA ReadOne ==
    ASSUME Inv, ppc = "harvest", finished # <<>>, finished' = Tail(finished),
           flight' = flight
    PROVE  /\ Head(finished) \in Response /\ finished' \in Seq(Response)
           /\ Len(finished') = Len(finished) + (-1)
           /\ Head(finished).slot \in Open /\ Open' = Open \ {Head(finished).slot}
           /\ \A i \in DOMAIN finished' : finished'[i].slot \notin flight'
           /\ \A i, j \in DOMAIN finished' : i < j => finished'[i].slot # finished'[j].slot
<1>1. RestType /\ RequestInv
  BY DEF Inv
<1>2. /\ Tail(finished) \in Seq(Response) /\ Head(finished) \in Response
      /\ Head(finished) = finished[1] /\ 1 \in DOMAIN finished
      /\ Len(Tail(finished)) = Len(finished) - 1 /\ Len(finished) \in Nat
      /\ \A i \in DOMAIN Tail(finished) :
           i + 1 \in DOMAIN finished /\ i \in Nat /\ i >= 1 /\ Tail(finished)[i] = finished[i + 1]
  BY <1>1, Behead DEF RestType
<1>3. \A i \in DOMAIN finished' :
        finished'[i].slot \notin flight' /\ finished'[i].slot # finished[1].slot
  BY <1>1, <1>2 DEF RequestInv
<1>4. \A i, j \in DOMAIN finished' : i < j => finished'[i].slot # finished'[j].slot
  BY <1>1, <1>2 DEF RequestInv
<1>5. finished[1].slot \notin flight
  BY <1>1, <1>2 DEF RequestInv
<1>6. Open' = Open \ {finished[1].slot}
  <2>1. Open' \subseteq Open \ {finished[1].slot}
    BY <1>2, <1>3, <1>5 DEF Open
  <2>2. ASSUME NEW k \in DOMAIN finished, finished[k].slot # finished[1].slot
        PROVE  \E i \in DOMAIN finished' : finished'[i].slot = finished[k].slot
    <3>1. DOMAIN finished = 1 .. Len(finished) /\ DOMAIN finished' = 1 .. Len(finished) - 1
      BY <1>1, <1>2, LenProperties DEF RestType
    <3>2. k \in 2 .. Len(finished) /\ k - 1 \in DOMAIN finished' /\ (k - 1) + 1 = k
      BY <1>2, <2>2, <3>1
    <3>3. finished'[k - 1] = finished[k]
      BY <1>2, <3>2
    <3>4. QED  BY <3>2, <3>3
  <2>3. Open \ {finished[1].slot} \subseteq Open'
    BY <2>2 DEF Open
  <2>4. QED  BY <2>1, <2>3
<1>7. finished[1].slot \in Open
  BY <1>2 DEF Open
<1>8. Len(finished') = Len(finished) + (-1)
  BY <1>2
<1>9. QED  BY <1>2, <1>3, <1>4, <1>6, <1>7, <1>8

LEMMA BookStep ==
    ASSUME Inv, HarvestBook
    PROVE  Inv'
<1> DEFINE t == [slot |-> Head(finished).slot, cycle |-> cycle]
<1>1. RestType /\ RequestInv /\ CountInv /\ OrderInv /\ AttachedInv /\ OkPollsArrive
  BY DEF Inv
<1>2. /\ ppc = "harvest" /\ finished # <<>> /\ pushing' = t /\ finished' = Tail(finished)
      /\ ppc' = "push"
      /\ UNCHANGED <<g_stop, running_, cycle, attached, flight, asked, given_up, polls_ok,
                     polls_err, queue, tick, epc, processed>>
  BY DEF HarvestBook, polls, ring
<1>3. /\ Head(finished) \in Response /\ finished' \in Seq(Response)
      /\ Len(finished') = Len(finished) + (-1)
      /\ Head(finished).slot \in Open /\ Open' = Open \ {Head(finished).slot}
      /\ \A i \in DOMAIN finished' : finished'[i].slot \notin flight'
      /\ \A i, j \in DOMAIN finished' : i < j => finished'[i].slot # finished'[j].slot
  BY <1>2, ReadOne
<1>4. t \in Ticks /\ t.slot = Head(finished).slot /\ t.cycle = cycle
  <2>1. cycle \in Cycles
    BY <1>1, <1>2, Constants DEF RestType, RequestInv, Cycles
  <2>2. Head(finished).slot \in Slots
    BY <1>1, <1>3 DEF Response, RestType
  <2>3. QED  BY <2>1, <2>2 DEF Ticks
<1> HIDE DEF t
<1>5. InPush' /\ ~InPush /\ Holding' /\ ~Holding
  BY <1>2 DEF InPush, Holding
<1>6. RestType'
  BY <1>1, <1>2, <1>3, <1>4, <1>5 DEF RestType
<1>7. RequestInv'
  BY <1>1, <1>2, <1>3 DEF RequestInv
<1>8. CountInv'
  <2>1. /\ polls_ok \in Int /\ polls_err \in Int /\ Cardinality(flight) \in Int
    BY <1>1, Countable
  <2>2. /\ polls_ok' = polls_ok + 0 /\ polls_err' = polls_err + 0 /\ InHand' = InHand + 1
        /\ Cardinality(flight') = Cardinality(flight) + 0
    BY <1>2, <1>5, <2>1 DEF InHand
  <2>3. 0 \in Int /\ 1 \in Int /\ -1 \in Int /\ 0 + 0 + 1 + (-1) + 0 = 0
    OBVIOUS
  <2>4. QED  BY <1>1, <1>2, <1>3, <2>2, <2>3, SameCount, Zenon
<1>9. OrderInv'
  <2>1. Line \in Seq(Ticks) /\ Line = processed \o queue /\ Line' = (processed \o queue) \o <<t>>
    BY <1>1, <1>2, <1>5, LineIsSeq DEF Line, Waiting
  <2>2. Line' = Append(Line, t)
    BY <1>4, <2>1, Appended
  <2>3. QED  BY <1>1, <1>2, <1>3, <1>4, <2>2, TakeOrder
<1>10. AttachedInv'
  <2>1. Held = {} /\ Held' = {Head(finished).slot}
    BY <1>2, <1>4, <1>5 DEF Held
  <2>2. QED  BY <1>1, <1>2, <1>3, <2>1 DEF AttachedInv
<1>11. OkPollsArrive'
  BY <1>1, <1>2 DEF OkPollsArrive
<1>12. QED  BY <1>6, <1>7, <1>8, <1>9, <1>10, <1>11 DEF Inv

LEMMA ErrorStep ==
    ASSUME Inv, HarvestError
    PROVE  Inv'
<1>1. RestType /\ RequestInv /\ CountInv /\ OrderInv /\ AttachedInv /\ OkPollsArrive
  BY DEF Inv
<1>2. /\ ppc = "harvest" /\ finished # <<>> /\ finished' = Tail(finished)
      /\ polls_err' = polls_err + 1 /\ attached' = attached \ {Head(finished).slot}
      /\ UNCHANGED <<g_stop, running_, ppc, cycle, flight, pushing, asked, given_up,
                     polls_ok, queue, tick, epc, processed>>
  BY DEF HarvestError, ring
<1>3. /\ finished' \in Seq(Response)
      /\ Len(finished') = Len(finished) + (-1)
      /\ Open' = Open \ {Head(finished).slot}
      /\ \A i \in DOMAIN finished' : finished'[i].slot \notin flight'
      /\ \A i, j \in DOMAIN finished' : i < j => finished'[i].slot # finished'[j].slot
  BY <1>2, ReadOne
<1>4. ~InPush /\ ~InPush' /\ ~Holding /\ ~Holding'
  BY <1>2 DEF InPush, Holding
<1>5. polls_err' \in Nat
  BY <1>1, <1>2 DEF RestType
<1>6. RestType'
  BY <1>1, <1>2, <1>3, <1>4, <1>5 DEF RestType
<1>7. RequestInv'
  BY <1>1, <1>2, <1>3 DEF RequestInv
<1>8. CountInv'
  <2>1. /\ polls_ok \in Int /\ InHand \in Int /\ Cardinality(flight) \in Int
    BY <1>1, Countable
  <2>2. /\ polls_ok' = polls_ok + 0 /\ InHand' = InHand + 0
        /\ Cardinality(flight') = Cardinality(flight) + 0
    BY <1>2, <1>4, <2>1 DEF InHand
  <2>3. 0 \in Int /\ 1 \in Int /\ -1 \in Int /\ 0 + 1 + 0 + (-1) + 0 = 0
    OBVIOUS
  <2>4. QED  BY <1>1, <1>2, <1>3, <2>2, <2>3, SameCount, Zenon
<1>9. OrderInv'
  <2>1. Line' = Line
    BY <1>2, <1>4 DEF Line, Waiting
  <2>2. QED  BY <1>1, <1>2, <1>3, <2>1, SameOrder
<1>10. AttachedInv'
  <2>1. Held = {} /\ Held' = {}
    BY <1>4 DEF Held
  <2>2. QED  BY <1>1, <1>2, <1>3, <2>1 DEF AttachedInv
<1>11. OkPollsArrive'
  BY <1>1, <1>2 DEF OkPollsArrive
<1>12. QED  BY <1>6, <1>7, <1>8, <1>9, <1>10, <1>11 DEF Inv

\* push_fn returns, after a successful push or at the shutdown.
LEMMA ReturnSteps ==
    ASSUME Inv, Push \/ (AfterFull /\ g_stop)
    PROVE  Inv'
<1>1. RestType /\ RequestInv /\ CountInv /\ OrderInv /\ AttachedInv /\ OkPollsArrive
  BY DEF Inv
<1>2. /\ ppc \in {"push", "full"} /\ ppc' = "count"
      /\ UNCHANGED <<g_stop, running_, cycle, attached, flight, finished, pushing, asked,
                     polls_ok, polls_err, tick, epc, processed>>
  BY DEF Push, AfterFull, Ring!Send, polls, ring
<1>3. InPush /\ ~InPush' /\ Holding /\ Holding'
  BY <1>2 DEF InPush, Holding
<1>4. pushing \in Ticks
  BY <1>1, <1>3 DEF RestType
<1>5. \/ queue' = Append(queue, pushing) /\ Len(queue) < N /\ given_up' = given_up
      \/ queue' = queue /\ g_stop /\ given_up' = given_up + 1
  BY DEF Push, AfterFull, Ring!Send, ring
<1>6. /\ queue \in Seq(Ticks) /\ Len(queue) \in Nat /\ given_up \in Nat /\ Len(queue) <= N
  BY <1>1, LenProperties DEF RestType
<1>7. /\ queue' \in Seq(Ticks) /\ Len(queue') <= N /\ given_up' \in Nat
      /\ Len(queue') + given_up' = (Len(queue) + given_up) + 1
      /\ given_up' > 0 => given_up > 0 \/ g_stop
  <2>1. CASE queue' = queue /\ g_stop /\ given_up' = given_up + 1
    BY <1>6, <2>1
  <2>2. CASE queue' = Append(queue, pushing) /\ Len(queue) < N /\ given_up' = given_up
    <3>1. queue' \in Seq(Ticks) /\ Len(queue') = Len(queue) + 1
      BY <1>4, <1>6, <2>2, Appended
    <3>2. QED  BY <1>6, <2>2, <3>1, Constants
  <2>3. QED  BY <1>5, <2>1, <2>2
<1>8. RestType'
  BY <1>1, <1>2, <1>3, <1>7 DEF RestType
<1>9. RequestInv'
  BY <1>1, <1>2 DEF RequestInv
<1>10. CountInv'
  BY <1>1, <1>2, <1>3 DEF CountInv, InHand
<1>11. Open' = Open /\ Held' = Held
  BY <1>2, <1>3 DEF Open, Held
<1>12. OrderInv'
  <2>1. /\ processed \in Seq(Ticks) /\ queue \in Seq(Ticks)
        /\ Line = (processed \o queue) \o <<pushing>>
        /\ Line' = processed \o queue'
    <3>1. processed \in Seq(Ticks) /\ queue \in Seq(Ticks)
          /\ Line = (processed \o queue) \o <<pushing>>
      BY <1>1, <1>3, LineIsSeq
    <3>2. processed \o queue' \in Seq(Ticks)
      BY <1>7, <3>1, ConcatProperties
    <3>3. Line' = (processed \o queue') \o <<>>
      BY <1>2, <1>3 DEF Line, Waiting
    <3>4. QED  BY <3>1, <3>2, <3>3, ConcatEmptySeq
  <2>2. CASE queue' = Append(queue, pushing)
    <3>1. Line' = Line
      BY <1>4, <2>1, <2>2, PutIn
    <3>2. QED  BY <1>1, <1>2, <1>11, <3>1, SameOrder
  <2>3. CASE queue' = queue
    BY <1>1, <1>2, <1>3, <1>11, <2>1, <2>3, DropOrder
  <2>4. QED  BY <1>5, <2>2, <2>3
<1>13. AttachedInv'
  BY <1>1, <1>2, <1>11 DEF AttachedInv
<1>14. OkPollsArrive'
  <2>1. PICK p \in Nat, q \in Nat, g \in Nat, o \in Nat :
          p = Len(processed) /\ q = Len(queue) /\ g = given_up /\ o = polls_ok
    BY <1>1, <1>6, LenProperties DEF RestType
  <2>2. o + 0 = p + q + g /\ (given_up > 0 => g_stop)
    BY <1>1, <1>2, <2>1 DEF OkPollsArrive
  <2>3. PICK r \in Nat, h \in Nat : r = Len(queue') /\ h = given_up'
    BY <1>7, LenProperties
  <2>4. o + 1 = p + r + h
    BY <1>7, <2>1, <2>2, <2>3
  <2>5. polls_ok' = o /\ Len(processed') = p /\ g_stop' = g_stop
    BY <1>2, <2>1
  <2>6. QED  BY <1>2, <1>7, <2>2, <2>3, <2>4, <2>5 DEF OkPollsArrive
<1>15. QED  BY <1>8, <1>9, <1>10, <1>12, <1>13, <1>14 DEF Inv

\* The poll is counted and its handle taken off the multi handle.
LEMMA CountedStep ==
    ASSUME Inv, Counted
    PROVE  Inv'
<1>1. RestType /\ RequestInv /\ CountInv /\ OrderInv /\ AttachedInv /\ OkPollsArrive
  BY DEF Inv
<1>2. /\ ppc = "count" /\ ppc' = "harvest" /\ pushing' = NoTick /\ polls_ok' = polls_ok + 1
      /\ attached' = attached \ {pushing.slot}
      /\ UNCHANGED <<g_stop, running_, cycle, flight, finished, asked, given_up, polls_err,
                     queue, tick, epc, processed>>
  BY DEF Counted, CountsPoll, ring
<1>3. ~InPush /\ ~InPush' /\ Holding /\ ~Holding' /\ InHand' = InHand + (-1)
  BY <1>2 DEF InPush, Holding, InHand
<1>4. RestType'
  <2>1. polls_ok' \in Nat
    BY <1>1, <1>2 DEF RestType
  <2>2. QED  BY <1>1, <1>2, <1>3, <2>1 DEF RestType
<1>5. RequestInv'
  BY <1>1, <1>2 DEF RequestInv
<1>6. CountInv'
  <2>1. /\ polls_err \in Int /\ Len(finished) \in Int /\ Cardinality(flight) \in Int
    BY <1>1, Countable
  <2>2. /\ polls_err' = polls_err + 0 /\ Len(finished') = Len(finished) + 0
        /\ Cardinality(flight') = Cardinality(flight) + 0
    BY <1>2, <2>1
  <2>3. 0 \in Int /\ 1 \in Int /\ -1 \in Int /\ 1 + 0 + (-1) + 0 + 0 = 0
    OBVIOUS
  <2>4. QED  BY <1>1, <1>2, <1>3, <2>2, <2>3, SameCount, Zenon
<1>7. Open' = Open /\ Held = {pushing.slot} /\ Held' = {}
  BY <1>2, <1>3 DEF Open, Held
<1>8. OrderInv'
  <2>1. Line' = Line
    BY <1>2, <1>3 DEF Line, Waiting
  <2>2. QED  BY <1>1, <1>2, <1>7, <2>1, SameOrder
<1>9. AttachedInv'
  BY <1>1, <1>2, <1>7 DEF AttachedInv
<1>10. OkPollsArrive'
  <2>1. polls_ok \in Nat /\ polls_ok' + 0 = polls_ok + 1
    BY <1>1, <1>2 DEF RestType
  <2>2. QED  BY <1>1, <1>2, <2>1 DEF OkPollsArrive
<1>11. QED  BY <1>4, <1>5, <1>6, <1>8, <1>9, <1>10 DEF Inv

LEMMA RetryStep ==
    ASSUME Inv, AfterFull, ~g_stop
    PROVE  Inv'
<1>1. RestType /\ RequestInv /\ CountInv /\ OrderInv /\ AttachedInv /\ OkPollsArrive
  BY DEF Inv
<1>2. /\ ppc = "full" /\ ppc' = "push"
      /\ UNCHANGED <<g_stop, running_, cycle, attached, flight, finished, pushing, asked,
                     given_up, polls_ok, polls_err, queue, tick, epc, processed>>
  BY DEF AfterFull, polls, ring
<1>3. InPush /\ InPush' /\ Holding /\ Holding'
  BY <1>2 DEF InPush, Holding
<1>4. RestType' /\ RequestInv'
  BY <1>1, <1>2, <1>3 DEF RestType, RequestInv
<1>5. CountInv'
  BY <1>1, <1>2, <1>3 DEF CountInv, InHand
<1>6. OrderInv' /\ AttachedInv'
  <2>1. Line' = Line /\ Open' = Open /\ Held' = Held
    BY <1>2, <1>3 DEF Line, Waiting, Open, Held
  <2>2. QED  BY <1>1, <1>2, <2>1, SameOrder DEF AttachedInv
<1>7. OkPollsArrive'
  BY <1>1, <1>2 DEF OkPollsArrive
<1>8. QED  BY <1>4, <1>5, <1>6, <1>7 DEF Inv

\* A book moves from the ring to process_tick().
LEMMA ProcessStep ==
    ASSUME Inv, Process
    PROVE  Inv'
<1>1. RestType /\ RequestInv /\ CountInv /\ OrderInv /\ AttachedInv /\ OkPollsArrive
  BY DEF Inv
<1>2. /\ queue # <<>> /\ tick' = Head(queue) /\ queue' = Tail(queue)
      /\ processed' = Append(processed, Head(queue))
      /\ UNCHANGED <<g_stop, running_, ppc, cycle, attached, flight, finished, pushing,
                     asked, given_up, polls_ok, polls_err, epc>>
  BY DEF Process, Ring!Receive, poller, polls
<1>3. /\ queue \in Seq(Ticks) /\ processed \in Seq(Ticks)
      /\ Head(queue) \in Ticks /\ Tail(queue) \in Seq(Ticks)
      /\ Len(Tail(queue)) = Len(queue) - 1 /\ Len(queue) \in Nat /\ Len(queue) >= 1
  <2>1. queue \in Seq(Ticks) /\ processed \in Seq(Ticks)
    BY <1>1 DEF RestType
  <2>2. QED  BY <1>2, <2>1, Behead
<1>4. processed' \in Seq(Ticks) /\ Len(processed') = Len(processed) + 1 /\ Len(processed) \in Nat
  BY <1>2, <1>3, Appended
<1>5. (InPush' <=> InPush) /\ (Holding' <=> Holding)
  BY <1>2 DEF InPush, Holding
<1>6. RestType'
  <2>1. Len(queue') <= N
    BY <1>1, <1>2, <1>3, Constants DEF RestType
  <2>2. QED  BY <1>1, <1>2, <1>3, <1>4, <1>5, <2>1 DEF RestType
<1>7. RequestInv'
  BY <1>1, <1>2 DEF RequestInv
<1>8. CountInv'
  BY <1>1, <1>2, <1>5 DEF CountInv, InHand
<1>9. OrderInv' /\ AttachedInv'
  <2>1. Append(processed, Head(queue)) \o Tail(queue) = processed \o queue
    BY <1>2, <1>3, HandedOver
  <2>2. Waiting' = Waiting /\ Held' = Held
    BY <1>2, <1>5 DEF Waiting, Held
  <2>3. Line' = Line /\ Open' = Open
    BY <1>2, <2>1, <2>2 DEF Line, Open
  <2>4. QED  BY <1>1, <1>2, <2>2, <2>3, SameOrder DEF AttachedInv
<1>10. OkPollsArrive'
  <2>1. PICK p \in Nat, q \in Nat : p = Len(processed) /\ q = Len(queue)
    BY <1>3, <1>4
  <2>2. Len(processed') = p + 1 /\ Len(queue') = q - 1 /\ q >= 1
    BY <1>2, <1>3, <1>4, <2>1
  <2>3. PICK g \in Nat : g = given_up
    BY <1>1 DEF RestType
  <2>4. (p + 1) + (q - 1) + g = p + q + g
    BY <2>2
  <2>5. QED  BY <1>1, <1>2, <2>1, <2>2, <2>3, <2>4 DEF OkPollsArrive
<1>11. QED  BY <1>6, <1>7, <1>8, <1>9, <1>10 DEF Inv

\* The steps of the shutdown and of the clock.
LEMMA OtherSteps ==
    ASSUME Inv, EngineStops \/ DrainDone \/ StopPoller \/ Join \/ Stop
    PROVE  Inv'
<1>1. RestType /\ RequestInv /\ CountInv /\ OrderInv /\ AttachedInv /\ OkPollsArrive
  BY DEF Inv
<1>2. UNCHANGED <<ppc, cycle, attached, flight, finished, pushing, asked, given_up, polls_ok,
                  polls_err, queue, tick, processed>>
  BY DEF EngineStops, DrainDone, StopPoller, Join, Stop, poller, polls, ring
<1>3. /\ epc' \in {"loop", "drain", "stop", "join", "done"}
      /\ running_' = running_ \/ running_' = FALSE
      /\ g_stop' = g_stop \/ g_stop' = TRUE
  BY <1>1 DEF EngineStops, DrainDone, StopPoller, Join, Stop, RestType
<1>5. (InPush' <=> InPush) /\ (Holding' <=> Holding)
  BY <1>2 DEF InPush, Holding
<1>6. RestType'
  BY <1>1, <1>2, <1>3, <1>5 DEF RestType
<1>7. RequestInv'
  BY <1>1, <1>2, <1>3 DEF RequestInv
<1>8. CountInv'
  BY <1>1, <1>2, <1>3, <1>5 DEF CountInv, InHand
<1>9. OrderInv' /\ AttachedInv'
  <2>1. Waiting' = Waiting /\ Held' = Held
    BY <1>2, <1>5 DEF Waiting, Held
  <2>2. Line' = Line /\ Open' = Open
    BY <1>2, <2>1 DEF Line, Open
  <2>3. QED  BY <1>1, <1>2, <2>1, <2>2, SameOrder DEF AttachedInv
<1>10. OkPollsArrive'
  BY <1>1, <1>2, <1>3 DEF OkPollsArrive
<1>11. QED  BY <1>6, <1>7, <1>8, <1>9, <1>10 DEF Inv
-----------------------------------------------------------------------------
LEMMA Initially ==
    ASSUME Init
    PROVE  Inv
<1>1. /\ cycle = 0 /\ attached = {} /\ flight = {} /\ asked = 0 /\ given_up = 0
      /\ finished = <<>> /\ pushing = NoTick
      /\ polls_ok = 0 /\ polls_err = 0 /\ queue = <<>> /\ tick = NoTick
      /\ epc = "loop" /\ processed = <<>> /\ g_stop = FALSE
      /\ running_ \in BOOLEAN /\ ppc \in {"cycle", "exited"}
  BY DEF Init, Ring!Init
<1>2. ~InPush /\ ~Holding
  BY <1>1 DEF InPush, Holding
<1>3. Len(<<>>) = 0 /\ Cardinality({}) = 0 /\ <<>> \in Seq(Ticks) /\ <<>> \in Seq(Response)
  BY EmptySeq, FS_EmptySet
<1>4. RestType
  <2>1. cycle \in Nat /\ cycle <= MaxCycles
    BY <1>1, Constants
  <2>2. Len(queue) <= N
    BY <1>1, <1>3, Constants
  <2>3. QED  BY <1>1, <1>2, <1>3, <2>1, <2>2 DEF RestType
<1>5. RequestInv
  <2>1. DOMAIN finished = {}
    BY <1>1
  <2>2. QED  BY <1>1, <2>1 DEF RequestInv
<1>6. CountInv
  <2>1. InHand = 0 /\ Len(finished) = 0 /\ Cardinality(flight) = 0
    BY <1>1, <1>2, <1>3 DEF InHand
  <2>2. QED  BY <1>1, <2>1 DEF CountInv
<1>7. OrderInv
  <2>1. Line = processed \o queue
    BY <1>2, <1>4, LineIsSeq
  <2>2. <<>> \o <<>> = <<>>
    OBVIOUS
  <2>3. DOMAIN Line = {}
    BY <1>1, <2>1, <2>2
  <2>4. QED  BY <2>3 DEF OrderInv
<1>8. AttachedInv
  <2>1. DOMAIN finished = {}
    BY <1>1
  <2>2. QED  BY <1>1, <1>2, <2>1 DEF AttachedInv, Open, Held
<1>9. OkPollsArrive
  BY <1>1, <1>3 DEF OkPollsArrive
<1>10. QED  BY <1>4, <1>5, <1>6, <1>7, <1>8, <1>9 DEF Inv

LEMMA Step ==
    ASSUME Inv, [Next]_vars
    PROVE  Inv'
<1>1. CASE Poller
  <2>1. CASE Requests
    BY <2>1, CompleteStep DEF Requests, Results
  <2>2. CASE AfterFull
    BY <2>2, ReturnSteps, RetryStep
  <2>3. QED
    BY <1>1, <2>1, <2>2, BeginStep, MoveSteps, BookStep, ErrorStep, ReturnSteps,
       CountedStep DEF Poller
<1>2. CASE Main
  BY <1>2, ProcessStep, OtherSteps DEF Main, EngineTick, DrainTick
<1>3. CASE Stop
  BY <1>3, OtherSteps
<1>4. CASE UNCHANGED vars
  <2>1. UNCHANGED <<g_stop, running_, ppc, cycle, attached, flight, finished, pushing, asked,
                    given_up, polls_ok, polls_err, queue, tick, epc, processed>>
    BY <1>4 DEF vars, poller, polls, ring
  <2>2. (InPush' <=> InPush) /\ (Holding' <=> Holding)
    BY <2>1 DEF InPush, Holding
  <2>3. RestType' /\ RequestInv'
    BY <2>1, <2>2 DEF Inv, RestType, RequestInv
  <2>4. CountInv' /\ OkPollsArrive'
    BY <2>1, <2>2 DEF Inv, CountInv, InHand, OkPollsArrive
  <2>5. Line' = Line /\ Open' = Open /\ Held' = Held
    BY <2>1, <2>2 DEF Line, Waiting, Open, Held
  <2>6. OrderInv' /\ AttachedInv'
    BY <2>1, <2>5, SameOrder DEF Inv, AttachedInv
  <2>7. QED  BY <2>3, <2>4, <2>6 DEF Inv
<1>5. QED  BY <1>1, <1>2, <1>3, <1>4 DEF Next

LEMMA Invariant == Spec => []Inv
BY Initially, Step, PTL DEF Spec

\* Every variable of the paper trader's feed keeps its type, and a response
\* that waits to be read belongs to a request that is over.
THEOREM TypeCorrect == Spec => []TypeOK
<1>1. Inv => TypeOK
  <2>1. SUFFICES ASSUME Inv PROVE TypeOK
    OBVIOUS
  <2>2. RestType /\ RequestInv /\ AttachedInv
    BY <2>1 DEF Inv
  <2>3. \A i \in DOMAIN finished : finished[i].slot \in attached \ flight
    BY <2>2 DEF RequestInv, AttachedInv, Open
  <2>4. flight \subseteq attached
    BY <2>2 DEF AttachedInv, Open
  <2>5. pushing \in Ticks \cup {NoTick} /\ (Holding <=> pushing # NoTick)
    BY <2>2, NoTickIsNone DEF RestType
  <2>6. cycle \in 0 .. MaxCycles
    BY <2>2, Constants DEF RestType
  <2>7. QED  BY <2>2, <2>3, <2>4, <2>5, <2>6 DEF RestType, TypeOK, Holding
<1>2. QED  BY <1>1, Invariant, PTL

\* Every request that was started is answered and counted exactly once before
\* the next cycle begins, and its handle is free again, for any number of
\* symbols, venues and cycles and whichever requests fail to start.
THEOREM RequestsAreCounted == Spec => []EachRequestCounted
<1>1. Inv => EachRequestCounted
  <2>1. SUFFICES ASSUME Inv, running_, ppc = "cycle"
                 PROVE  /\ polls_ok + polls_err = asked
                        /\ finished = <<>> /\ attached = {}
    BY DEF EachRequestCounted
  <2>2. RestType /\ flight = {} /\ finished = <<>> /\ ~Holding
    BY <2>1 DEF Inv, RequestInv, Holding
  <2>3. InHand = 0 /\ Len(finished) = 0 /\ Cardinality(flight) = 0
    BY <2>2, EmptySeq, FS_EmptySet DEF InHand
  <2>4. PICK a \in Int, b \in Int, t \in Int : a = polls_ok /\ b = polls_err /\ t = asked
    BY <2>2, Countable
  <2>5. a + b + 0 + 0 + 0 = t
    BY <2>1, <2>3, <2>4, Zenon DEF Inv, CountInv
  <2>6. polls_ok + polls_err = asked
    BY <2>4, <2>5
  <2>7. attached = {}
    <3>1. DOMAIN finished = {}
      BY <2>2
    <3>2. QED  BY <2>1, <2>2, <3>1 DEF Inv, AttachedInv, Open, Held
  <2>8. QED  BY <2>2, <2>6, <2>7
<1>2. QED  BY <1>1, Invariant, PTL

\* "polls OK" counts the books the engine processed, those left in the ring and
\* those given up at the shutdown, for any ring and any number of polls.
THEOREM CountedBooksArrive == Spec => []OkPollsArrive
<1>1. Inv => OkPollsArrive
  BY DEF Inv
<1>2. QED  BY <1>1, Invariant, PTL

\* A book of a symbol and venue is never followed by an older one or by
\* itself, in whatever order the responses come and also at the shutdown.
THEOREM BooksGrowNewer == Spec => []NewestLast
<1>1. Inv => NewestLast
  <2>1. SUFFICES ASSUME Inv PROVE NewestLast
    OBVIOUS
  <2>2. RestType /\ OrderInv
    BY <2>1 DEF Inv
  <2>3. processed \o queue \in Seq(Ticks)
    BY <2>2, LineIsSeq
  <2>4. \A i \in 1 .. Len(processed \o queue) :
          i \in DOMAIN Line /\ Line[i] = (processed \o queue)[i]
    <3>1. CASE InPush
      <4>1. Line = (processed \o queue) \o <<pushing>> /\ pushing \in Ticks
        BY <2>2, <3>1, LineIsSeq
      <4>2. <<pushing>> \in Seq(Ticks)
        BY <4>1
      <4>3. QED  BY <2>3, <4>1, <4>2, ConcatProperties, LenProperties
    <3>2. CASE ~InPush
      BY <2>2, <2>3, <3>2, LineIsSeq, LenProperties
    <3>3. QED  BY <3>1, <3>2
  <2>5. QED  BY <2>2, <2>4 DEF OrderInv, NewestLast
<1>2. QED  BY <1>1, Invariant, PTL
=============================================================================
