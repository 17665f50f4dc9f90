--------------------------- MODULE SpscRing_proofs ---------------------------
(* Proofs about SpscRing for every capacity, every wrap of the counters    *)
(* and every item type.                                                    *)
EXTENDS SpscRing, Sequences, SequenceTheorems, TLAPS

\* The counters' modulus is a positive multiple of the capacity.
LEMMA ModulusFacts == M \in Nat /\ M >= N + N /\ 0 \in Pos /\ N \in Nat /\ N >= 2
<1>1. N * K >= N + N
  BY RingAssumption
<1>2. N * K \in Nat
  BY RingAssumption
<1> QED
  BY <1>1, <1>2, RingAssumption DEF M, Pos

\* Slot() names a slot.
LEMMA SlotInSlots == \A p \in Int : Slot(p) \in Slots
BY RingAssumption DEF Slot, Slots

\* Two residues that differ by a multiple of the capacity are equal.
LEMMA ResidueUnique ==
  ASSUME NEW x \in 0 .. N - 1, NEW y \in 0 .. N - 1, NEW c \in Int,
         x - y = N * c
  PROVE  x = y
<1>1. CASE c >= 1
  <2>1. N * c >= N
    BY <1>1, RingAssumption
  <2> QED
    BY <2>1, RingAssumption
<1>2. CASE c <= -1
  <2>1. N * c <= -N
    BY <1>2, RingAssumption
  <2> QED
    BY <2>1, RingAssumption
<1>3. CASE c = 0
  BY <1>3, RingAssumption
<1> QED
  BY <1>1, <1>2, <1>3

\* Two positions less than a capacity apart never share a slot.
LEMMA DistinctSlots ==
  ASSUME NEW p \in Int, NEW q \in Int, p < q, q < p + N
  PROVE  Slot(p) # Slot(q)
<1> SUFFICES ASSUME Slot(p) = Slot(q) PROVE FALSE
  OBVIOUS
<1> DEFINE a == p \div N
           b == q \div N
<1>1. /\ a \in Int /\ b \in Int
      /\ p = N * a + Slot(p)
      /\ q = N * b + Slot(q)
  BY RingAssumption DEF Slot
<1> HIDE DEF a, b
<1>2. q - p = N * (b - a)
  <2>1. q - p = N * b - N * a
    BY <1>1, SlotInSlots, RingAssumption DEF Slots
  <2> QED
    BY <2>1, <1>1, RingAssumption
<1>3. b - a >= 1
  <2>1. CASE b - a <= 0
    <3>1. N * (b - a) <= 0
      BY <2>1, <1>1, RingAssumption
    <3> QED
      BY <3>1, <1>2
  <2> QED
    BY <2>1, <1>1
<1>4. N * (b - a) >= N
  BY <1>3, <1>1, RingAssumption
<1> QED
  BY <1>2, <1>4, RingAssumption

\* Going once round the counter does not change the slot.
LEMMA SlotPeriodic == \A p \in Int : Slot(p + M) = Slot(p)
<1> SUFFICES ASSUME NEW p \in Int PROVE Slot(p + M) = Slot(p)
  OBVIOUS
<1> DEFINE a == p \div N
           b == (p + M) \div N
<1>1. a \in Int /\ p = N * a + Slot(p) /\ Slot(p) \in Slots
  BY RingAssumption, SlotInSlots DEF Slot
<1>2. b \in Int /\ p + M = N * b + Slot(p + M) /\ Slot(p + M) \in Slots
  BY RingAssumption, SlotInSlots, ModulusFacts DEF Slot
<1> HIDE DEF a, b
<1>3. Slot(p + M) - Slot(p) = N * (a + K - b)
  <2>1. N * (a + K - b) = N * a + N * K - N * b
    BY <1>1, <1>2, RingAssumption
  <2>2. N * K = M
    BY DEF M
  <2> QED
    BY <2>1, <2>2, <1>1, <1>2, RingAssumption, ModulusFacts DEF Slots
<1>4. a + K - b \in Int
  BY <1>1, <1>2, RingAssumption
<1>5. Slot(p) \in 0 .. N - 1 /\ Slot(p + M) \in 0 .. N - 1
  BY <1>1, <1>2 DEF Slots
<1> HIDE DEF M
<1> QED
  BY <1>3, <1>4, <1>5, ResidueUnique
-----------------------------------------------------------------------------
(* Arithmetic of wrapped positions, without any multiplication.            *)

\* A step of a counter is a counter value.
LEMMA IncType == \A p \in Pos : Inc(p) \in Pos
BY ModulusFacts DEF Inc, Pos

\* A distance is a counter value.
LEMMA DistType == \A p, q \in Pos : Dist(p, q) \in 0 .. M - 1
BY ModulusFacts DEF Dist, Pos

\* Only equal positions have distance zero.
LEMMA DistZero == \A p, q \in Pos : Dist(p, q) = 0 <=> p = q
BY ModulusFacts DEF Dist, Pos

\* Advancing the leading position lengthens the distance by one.
LEMMA DistInc ==
  \A p, q \in Pos : Dist(p, q) < N => Dist(Inc(p), q) = Dist(p, q) + 1
BY ModulusFacts DEF Dist, Inc, Pos

\* Advancing the trailing position shortens the distance by one.
LEMMA DistIncSecond ==
  \A p, q \in Pos : p # q => Dist(p, Inc(q)) = Dist(p, q) - 1
BY ModulusFacts DEF Dist, Inc, Pos
-----------------------------------------------------------------------------
\* Every variable keeps its type, for every capacity and counter modulus.
THEOREM TypeCorrect == Spec => []TypeOK
<1>1. Init => TypeOK
  BY ModulusFacts DEF Init, TypeOK
<1>2. TypeOK /\ [Next]_vars => TypeOK'
  <2> SUFFICES ASSUME TypeOK, [Next]_vars PROVE TypeOK'
    OBVIOUS
  <2> USE DEF TypeOK
  <2>1. ASSUME NEW p \in Pos, PushFull(p) PROVE TypeOK'
    BY <2>1 DEF PushFull, consumer
  <2>2. ASSUME NEW i \in Items, NEW p \in Pos, PushClaim(i, p) PROVE TypeOK'
    BY <2>2 DEF PushClaim, consumer
  <2>3. ASSUME PushStore PROVE TypeOK'
    BY <2>3, SlotInSlots DEF PushStore, consumer
  <2>4. ASSUME PushPublish PROVE TypeOK'
    BY <2>4, IncType DEF PushPublish, consumer
  <2>5. ASSUME NEW p \in Pos, PopEmpty(p) PROVE TypeOK'
    BY <2>5 DEF PopEmpty, producer
  <2>6. ASSUME NEW p \in Pos, PopClaim(p) PROVE TypeOK'
    BY <2>6 DEF PopClaim, producer
  <2>7. ASSUME PopCopy PROVE TypeOK'
    <3>1. Slot(read_pos) \in Slots
      BY SlotInSlots, ModulusFacts DEF Pos
    <3> QED
      BY <2>7, <3>1 DEF PopCopy, producer
  <2>8. ASSUME PopRelease PROVE TypeOK'
    BY <2>8, IncType DEF PopRelease, producer
  <2>9. CASE UNCHANGED vars
    BY <2>9 DEF vars, producer, consumer
  <2> QED
    BY <2>1, <2>2, <2>3, <2>4, <2>5, <2>6, <2>7, <2>8, <2>9
    DEF Next, Producer, Consumer
<1> QED
  BY <1>1, <1>2, PTL DEF Spec
-----------------------------------------------------------------------------
\* The window of positions is inductive together with the types.
LEMMA WindowStep == TypeOK /\ WindowInv /\ [Next]_vars => WindowInv'
<1> SUFFICES ASSUME TypeOK, WindowInv, [Next]_vars PROVE WindowInv'
  OBVIOUS
<1>0. /\ write_pos \in Pos /\ read_pos \in Pos
      /\ seenRead \in Pos /\ seenWrite \in Pos
  BY DEF TypeOK
<1>1. ASSUME NEW p \in Pos, PushFull(p) PROVE WindowInv'
  BY <1>0, <1>1, ModulusFacts
  DEF Dist, Pos, PushFull, WindowInv, Visible, consumer
<1>2. ASSUME NEW i \in Items, NEW p \in Pos, PushClaim(i, p) PROVE WindowInv'
  BY <1>0, <1>2, ModulusFacts
  DEF Dist, Pos, PushClaim, WindowInv, Visible, consumer
<1>3. ASSUME PushStore PROVE WindowInv'
  BY <1>3 DEF PushStore, WindowInv, consumer
<1>4. ASSUME PushPublish PROVE WindowInv'
  BY <1>0, <1>4, ModulusFacts
  DEF Dist, Pos, Inc, PushPublish, WindowInv, consumer
<1>5. ASSUME NEW p \in Pos, PopEmpty(p) PROVE WindowInv'
  BY <1>0, <1>5, ModulusFacts
  DEF Dist, Pos, PopEmpty, WindowInv, Visible, producer
<1>6. ASSUME NEW p \in Pos, PopClaim(p) PROVE WindowInv'
  BY <1>0, <1>6, ModulusFacts
  DEF Dist, Pos, PopClaim, WindowInv, Visible, producer
<1>7. ASSUME PopCopy PROVE WindowInv'
  BY <1>7 DEF PopCopy, WindowInv, producer
<1>8. ASSUME PopRelease PROVE WindowInv'
  BY <1>0, <1>8, ModulusFacts
  DEF Dist, Pos, Inc, PopRelease, WindowInv, producer
<1>9. CASE UNCHANGED vars
  BY <1>9 DEF vars, producer, consumer, WindowInv
<1> QED
  BY <1>1, <1>2, <1>3, <1>4, <1>5, <1>6, <1>7, <1>8, <1>9
  DEF Next, Producer, Consumer

\* The four positions stay in order within a window of N, for every N and
\* every wrap-around of the counters.
THEOREM WindowCorrect == Spec => []WindowInv
<1>1. Init => WindowInv
  BY ModulusFacts DEF Init, WindowInv, Dist
<1>2. TypeOK /\ WindowInv /\ [Next]_vars => WindowInv'
  BY WindowStep
<1> QED
  BY <1>1, <1>2, TypeCorrect, PTL DEF Spec
-----------------------------------------------------------------------------
\* Less than a capacity apart around the circle means different slots, also
\* when the counter wraps between the two positions.
LEMMA NearSlotsDiffer ==
  ASSUME NEW p \in Pos, NEW q \in Pos, 0 < Dist(p, q), Dist(p, q) < N
  PROVE  Slot(p) # Slot(q)
<1>1. CASE p >= q
  BY <1>1, DistinctSlots, ModulusFacts DEF Dist, Pos
<1>2. CASE p < q
  <2>1. q < p + M /\ p + M < q + N /\ p + M \in Int /\ q \in Int
    BY <1>2, ModulusFacts DEF Dist, Pos
  <2>2. Slot(q) # Slot(p + M)
    BY <2>1, DistinctSlots
  <2>3. Slot(p + M) = Slot(p)
    BY SlotPeriodic, ModulusFacts DEF Pos
  <2> QED
    BY <2>2, <2>3
<1> QED
  BY <1>1, <1>2, ModulusFacts DEF Pos

\* Inside a store and a copy the two slots differ.
LEMMA WindowExcludesRace == TypeOK /\ WindowInv => NoDataRace
<1> SUFFICES ASSUME TypeOK, WindowInv, ppc = "store", cpc = "copy"
             PROVE  Slot(write_pos) # Slot(read_pos)
  BY DEF NoDataRace
<1>1. /\ write_pos \in Pos /\ read_pos \in Pos
      /\ seenRead \in Pos /\ seenWrite \in Pos
  BY DEF TypeOK
<1>2. 0 < Dist(write_pos, read_pos) /\ Dist(write_pos, read_pos) < N
  BY <1>1, ModulusFacts DEF WindowInv, Dist, Pos
<1> QED
  BY <1>1, <1>2, NearSlotsDiffer

\* The two threads never access the same slot at the same time.
THEOREM RaceFree == Spec => []NoDataRace
BY TypeCorrect, WindowCorrect, WindowExcludesRace, PTL
-----------------------------------------------------------------------------
(* The ring implements the FIFO channel.                                   *)

\* What push() publishes is what it was given.
StoredInv == ppc = "publish" => data[Slot(write_pos)] = item

\* Between store and publish the slot keeps the pushed item: inductive.
LEMMA StoredStep == TypeOK /\ StoredInv /\ [Next]_vars => StoredInv'
<1> SUFFICES ASSUME TypeOK, StoredInv, [Next]_vars PROVE StoredInv'
  OBVIOUS
<1>1. CASE PushStore
  <2>1. Slot(write_pos) \in Slots
    BY SlotInSlots, ModulusFacts DEF TypeOK, Pos
  <2> QED
    BY <1>1, <2>1 DEF PushStore, StoredInv, TypeOK
<1>2. CASE PushPublish
  BY <1>2 DEF PushPublish, StoredInv
<1>3. CASE \E p \in Pos : PushFull(p)
  BY <1>3 DEF PushFull, StoredInv
<1>4. CASE \E i \in Items, p \in Pos : PushClaim(i, p)
  BY <1>4 DEF PushClaim, StoredInv
<1>5. CASE Consumer
  BY <1>5 DEF Consumer, PopEmpty, PopClaim, PopCopy, PopRelease, producer,
              StoredInv
<1>6. CASE UNCHANGED vars
  BY <1>6 DEF vars, producer, StoredInv
<1> QED
  BY <1>1, <1>2, <1>3, <1>4, <1>5, <1>6 DEF Next, Producer

\* Walking the distance from q to p round the ring ends in p's slot.
LEMMA SlotOfSum == \A p, q \in Pos : Slot(q + Dist(p, q)) = Slot(p)
<1> SUFFICES ASSUME NEW p \in Pos, NEW q \in Pos
             PROVE  Slot(q + Dist(p, q)) = Slot(p)
  OBVIOUS
<1>1. CASE p >= q
  <2>1. q + Dist(p, q) = p
    BY <1>1, ModulusFacts DEF Dist, Pos
  <2> QED
    BY <2>1
<1>2. CASE p < q
  <2>1. q + Dist(p, q) = p + M /\ p \in Int
    BY <1>2, ModulusFacts DEF Dist, Pos
  <2> QED
    BY <2>1, SlotPeriodic
<1> QED
  BY <1>1, <1>2, ModulusFacts DEF Pos

\* The number of items accepted and not yet copied.
held == Dist(write_pos, read_pos) - taken

\* How many items are held follows from the window.
LEMMA HeldFacts ==
  TypeOK /\ WindowInv =>
     /\ Dist(write_pos, read_pos) \in 0 .. N
     /\ held \in 0 .. N
     /\ ppc # "idle" => Dist(write_pos, read_pos) < N
     /\ cpc # "idle" => Dist(write_pos, read_pos) > 0
BY ModulusFacts DEF TypeOK, WindowInv, held, taken, Dist, Pos

\* The mapped queue is a sequence of the held items.
QueueView ==
  /\ queue \in Seq(Items \cup {Zero})
  /\ Len(queue) = held
  /\ \A i \in 1 .. held : queue[i] = data[Slot(read_pos + taken + i - 1)]

\* The refinement mapping yields a sequence of the held items.
LEMMA QueueIsSeq == TypeOK /\ WindowInv => QueueView
<1> SUFFICES ASSUME TypeOK, WindowInv PROVE QueueView
  OBVIOUS
<1>1. held \in Nat
  BY HeldFacts, ModulusFacts
<1>2. \A i \in 1 .. held :
         data[Slot(read_pos + taken + i - 1)] \in Items \cup {Zero}
  <2>1. \A i \in 1 .. held : Slot(read_pos + taken + i - 1) \in Slots
    BY SlotInSlots, ModulusFacts DEF TypeOK, Pos, taken
  <2> QED
    BY <2>1 DEF TypeOK
<1>3. queue = [i \in 1 .. held |-> data[Slot(read_pos + taken + i - 1)]]
  BY DEF queue, held
<1>4. queue \in [1 .. held -> Items \cup {Zero}]
  BY <1>2, <1>3
<1> QED
  BY <1>1, <1>3, <1>4 DEF QueueView

\* Two sequences of one length with the same elements are equal.
LEMMA SameSeq ==
  \A S, n : \A s, t \in Seq(S) :
     /\ Len(s) = n /\ Len(t) = n
     /\ \A i \in 1 .. n : s[i] = t[i]
     => s = t
BY SeqEqual

\* Storing the pushed item leaves the held ones alone.
LEMMA StoreStutters ==
  TypeOK /\ WindowInv /\ PushStore => UNCHANGED <<queue, out>>
<1> SUFFICES ASSUME TypeOK, WindowInv, PushStore
             PROVE  queue' = queue /\ out' = out
  OBVIOUS
<1>1. held' = held /\ taken' = taken /\ read_pos' = read_pos /\ out' = out
  BY DEF PushStore, consumer, held, taken
<1>2. /\ read_pos \in Pos /\ write_pos \in Pos /\ taken \in {0, 1}
      /\ held = Dist(write_pos, read_pos) - taken
      /\ Dist(write_pos, read_pos) \in 0 .. N - 1
  BY HeldFacts, ModulusFacts DEF TypeOK, held, taken, PushStore
<1>3. ASSUME NEW i \in 1 .. held
      PROVE  data'[Slot(read_pos + taken + i - 1)]
               = data[Slot(read_pos + taken + i - 1)]
  <2> DEFINE x == read_pos + taken + i - 1
             y == read_pos + Dist(write_pos, read_pos)
  <2>1. x \in Int /\ y \in Int /\ x < y /\ y < x + N
    BY <1>2, <1>3, ModulusFacts DEF Pos
  <2>2. Slot(x) # Slot(y)
    <3> HIDE DEF x, y
    <3> QED
      BY <2>1, DistinctSlots
  <2>3. Slot(x) # Slot(write_pos)
    BY <2>2, <1>2, SlotOfSum
  <2> QED
    BY <2>3 DEF PushStore
<1>4. queue' = [i \in 1 .. held' |-> data'[Slot(read_pos' + taken' + i - 1)]]
  BY DEF queue, held
<1>5. queue = [i \in 1 .. held |-> data[Slot(read_pos + taken + i - 1)]]
  BY DEF queue, held
<1> QED
  BY <1>1, <1>3, <1>4, <1>5

\* Publishing is the channel's Send.
LEMMA PublishSends ==
  TypeOK /\ WindowInv /\ WindowInv' /\ TypeOK' /\ StoredInv /\ PushPublish
    => Fifo!Send(item)
<1> SUFFICES ASSUME TypeOK, WindowInv, TypeOK', WindowInv', StoredInv, PushPublish
             PROVE  Fifo!Send(item)
  OBVIOUS
<1>1. /\ taken' = taken /\ read_pos' = read_pos /\ data' = data
      /\ out' = out /\ item' = item
  BY DEF PushPublish, consumer, taken
<1>2. /\ read_pos \in Pos /\ write_pos \in Pos /\ taken \in {0, 1}
      /\ held = Dist(write_pos, read_pos) - taken
      /\ Dist(write_pos, read_pos) \in 0 .. N - 1
      /\ held \in Nat
  BY HeldFacts, ModulusFacts DEF TypeOK, held, taken, PushPublish
<1>3. held' = held + 1
  BY <1>1, <1>2, DistInc, ModulusFacts DEF PushPublish, held
<1>4. data[Slot(read_pos + taken + held)] = item
  <2>1. read_pos + taken + held = read_pos + Dist(write_pos, read_pos)
    BY <1>2, ModulusFacts DEF Pos
  <2> QED
    BY <2>1, <1>2, SlotOfSum DEF StoredInv, PushPublish
<1>5. /\ queue \in Seq(Items \cup {Zero}) /\ Len(queue) = held
      /\ \A i \in 1 .. held : queue[i] = data[Slot(read_pos + taken + i - 1)]
  BY QueueIsSeq DEF QueueView
<1>6. /\ queue' \in Seq(Items \cup {Zero}) /\ Len(queue') = held + 1
      /\ \A i \in 1 .. held + 1 :
           queue'[i] = data[Slot(read_pos + taken + i - 1)]
  <2>1. QueueView'
    BY QueueIsSeq, PTL
  <2> QED
    BY <2>1, <1>1, <1>3 DEF QueueView
<1>7. queue'[held + 1] = item
  <2>1. read_pos + taken + (held + 1) - 1 = read_pos + taken + held
    BY <1>2, ModulusFacts DEF Pos
  <2> QED
    BY <2>1, <1>2, <1>4, <1>6
<1>8. queue' = Append(queue, item)
  <2>1. item \in Items \cup {Zero}
    BY DEF TypeOK
  <2>2. /\ Append(queue, item) \in Seq(Items \cup {Zero})
        /\ Len(Append(queue, item)) = held + 1
        /\ \A i \in 1 .. held : Append(queue, item)[i] = queue[i]
        /\ Append(queue, item)[held + 1] = item
    BY <2>1, <1>5, AppendProperties
  <2>3. \A i \in 1 .. held + 1 : queue'[i] = Append(queue, item)[i]
    BY <2>2, <1>2, <1>5, <1>6, <1>7
  <2> QED
    BY <2>2, <2>3, <1>6, SameSeq
<1>9. Len(queue) < N
  BY <1>2, <1>5, ModulusFacts
<1> QED
  BY <1>1, <1>8, <1>9 DEF Fifo!Send

\* Copying is the channel's Receive.
LEMMA CopyReceives ==
  TypeOK /\ WindowInv /\ TypeOK' /\ WindowInv' /\ PopCopy => Fifo!Receive
<1> SUFFICES ASSUME TypeOK, WindowInv, TypeOK', WindowInv', PopCopy
             PROVE  Fifo!Receive
  OBVIOUS
<1>1. /\ taken = 0 /\ taken' = 1 /\ read_pos' = read_pos /\ data' = data
      /\ out' = data[Slot(read_pos)] /\ read_pos \in Pos
      /\ held \in Nat /\ held > 0 /\ held' = held - 1
  BY HeldFacts, ModulusFacts DEF PopCopy, producer, taken, held, TypeOK
<1>2. /\ queue \in Seq(Items \cup {Zero}) /\ Len(queue) = held
      /\ \A i \in 1 .. held : queue[i] = data[Slot(read_pos + i - 1)]
  BY <1>1, QueueIsSeq, ModulusFacts DEF QueueView, Pos
<1>3. /\ queue' \in Seq(Items \cup {Zero}) /\ Len(queue') = held - 1
      /\ \A i \in 1 .. held - 1 : queue'[i] = data[Slot(read_pos + i)]
  <2>1. QueueView'
    BY QueueIsSeq, PTL
  <2>2. \A i \in 1 .. held - 1 : read_pos + 1 + i - 1 = read_pos + i
    BY <1>1, ModulusFacts DEF Pos
  <2> QED
    BY <2>1, <2>2, <1>1 DEF QueueView
<1>4. queue # <<>>
  BY <1>1, <1>2
<1>5. Head(queue) = data[Slot(read_pos)]
  <2>1. Head(queue) = queue[1] /\ read_pos + 1 - 1 = read_pos
    BY <1>1, <1>2, <1>4, HeadTailProperties, ModulusFacts DEF Pos
  <2> QED
    BY <2>1, <1>1, <1>2
<1>6. queue' = Tail(queue)
  <2>1. /\ Tail(queue) \in Seq(Items \cup {Zero})
        /\ Len(Tail(queue)) = held - 1
        /\ \A i \in 1 .. held - 1 : Tail(queue)[i] = queue[i + 1]
    BY <1>1, <1>2, <1>4, HeadTailProperties
  <2>2. \A i \in 1 .. held - 1 :
           /\ i + 1 \in 1 .. held
           /\ read_pos + (i + 1) - 1 = read_pos + i
    BY <1>1, ModulusFacts DEF Pos
  <2>3. \A i \in 1 .. held - 1 : queue'[i] = Tail(queue)[i]
    BY <2>1, <2>2, <1>2, <1>3
  <2> QED
    BY <2>1, <2>3, <1>3, SameSeq
<1> QED
  BY <1>1, <1>4, <1>5, <1>6 DEF Fifo!Receive

\* Giving the slot back changes nothing of the channel.
LEMMA ReleaseStutters ==
  TypeOK /\ WindowInv /\ PopRelease => UNCHANGED <<queue, out>>
<1> SUFFICES ASSUME TypeOK, WindowInv, PopRelease
             PROVE  queue' = queue /\ out' = out
  OBVIOUS
<1>1. /\ taken = 1 /\ taken' = 0 /\ read_pos' = Inc(read_pos)
      /\ data' = data /\ out' = out /\ write_pos' = write_pos
      /\ read_pos \in Pos /\ write_pos \in Pos
      /\ read_pos # write_pos
  BY HeldFacts, DistZero DEF PopRelease, producer, taken, TypeOK
<1>2. held' = held
  BY <1>1, DistIncSecond, DistType, ModulusFacts DEF held
<1>3. ASSUME NEW i \in 1 .. held
      PROVE  Slot(read_pos' + taken' + i - 1) = Slot(read_pos + taken + i - 1)
  <2>1. CASE read_pos + 1 = M
    <3>1. /\ read_pos + taken + i - 1 = (read_pos' + taken' + i - 1) + M
          /\ read_pos' + taken' + i - 1 \in Int
      BY <1>1, <2>1, HeldFacts, ModulusFacts DEF Inc, Pos
    <3> QED
      BY <3>1, SlotPeriodic
  <2>2. CASE read_pos + 1 # M
    BY <1>1, <2>2, ModulusFacts DEF Inc, Pos
  <2> QED
    BY <2>1, <2>2
<1>4. queue' = [i \in 1 .. held' |-> data'[Slot(read_pos' + taken' + i - 1)]]
  BY DEF queue, held
<1>5. queue = [i \in 1 .. held |-> data[Slot(read_pos + taken + i - 1)]]
  BY DEF queue, held
<1> QED
  BY <1>1, <1>2, <1>3, <1>4, <1>5

\* SPSCRingBuffer is a bounded FIFO channel: nothing is lost, duplicated,
\* reordered or torn between push() and pop(), for every capacity.
THEOREM RingIsFifo == Spec => ImplementsFifo
<1>1. Init => Fifo!Init
  BY ModulusFacts DEF Init, Fifo!Init, queue, taken, Dist
<1>2. /\ TypeOK /\ WindowInv /\ StoredInv /\ TypeOK' /\ WindowInv'
      /\ [Next]_vars
      => [Fifo!Next]_(Fifo!chan)
  <2> SUFFICES ASSUME TypeOK, WindowInv, StoredInv, TypeOK', WindowInv',
                      [Next]_vars
               PROVE  Fifo!Next \/ UNCHANGED <<queue, out>>
    BY DEF Fifo!chan
  <2>1. CASE PushStore
    BY <2>1, StoreStutters
  <2>2. CASE PushPublish
    BY <2>2, PublishSends DEF Fifo!Next, TypeOK, PushPublish
  <2>3. CASE PopCopy
    BY <2>3, CopyReceives DEF Fifo!Next
  <2>4. CASE PopRelease
    BY <2>4, ReleaseStutters
  <2>5. CASE \E p \in Pos : PushFull(p)
    BY <2>5 DEF PushFull, consumer, queue, taken
  <2>6. CASE \E i \in Items, p \in Pos : PushClaim(i, p)
    BY <2>6 DEF PushClaim, consumer, queue, taken
  <2>7. CASE \E p \in Pos : PopEmpty(p) \/ PopClaim(p)
    BY <2>7 DEF PopEmpty, PopClaim, producer, queue, taken
  <2>8. CASE UNCHANGED vars
    BY <2>8 DEF vars, consumer, queue, taken
  <2> QED
    BY <2>1, <2>2, <2>3, <2>4, <2>5, <2>6, <2>7, <2>8
    DEF Next, Producer, Consumer
<1>3. Init => StoredInv
  BY DEF Init, StoredInv
<1> QED
  BY <1>1, <1>2, <1>3, StoredStep, TypeCorrect, WindowCorrect, PTL
  DEF Spec, ImplementsFifo, Fifo!Spec
=============================================================================
