------------------------------ MODULE SpscRing ------------------------------
(* SPSCRingBuffer (hot_path/ring_buffer.hpp): the lock-free ring between   *)
(* the thread that produces ticks and the engine thread.                   *)
(*                                                                         *)
(* One action per access to shared memory.  The positions are free-running *)
(* size_t counters, kept here modulo M = N * K (the code has M = 2^64 and  *)
(* N a power of two, so pos & (N - 1) is pos % N and N divides M).  An     *)
(* acquire load returns any value the other thread has stored since the    *)
(* value seen before: stale values are allowed, going back is not.         *)
EXTENDS Integers

CONSTANTS N,      \* capacity of the ring
          K,      \* size_t wraps after N * K
          Items,  \* values of T that are pushed
          Zero    \* the zero-initialised content of a slot

ASSUME RingAssumption ==
    /\ N \in Nat /\ N >= 2
    /\ K \in Nat /\ K >= 2
    /\ Zero \notin Items

VARIABLES
    data,       \* the slots
    write_pos,  \* stored by the producer only
    read_pos,   \* stored by the consumer only
    ppc,        \* where push() is: "idle", "store", "publish"
    item,       \* push()'s argument
    seenRead,   \* read_pos as the producer last loaded it
    cpc,        \* where pop() is: "idle", "copy", "release"
    out,        \* pop()'s result
    seenWrite   \* write_pos as the consumer last loaded it

producer == <<ppc, item, seenRead>>
consumer == <<cpc, out, seenWrite>>
vars == <<data, write_pos, read_pos, producer, consumer>>

M == N * K
Pos == 0 .. M - 1
Slots == 0 .. N - 1

Slot(p) == p % N
\* Bug: the counter is taken for one that never wraps.
Inc_NoWrap(p) == p + 1
Inc(p) == IF p + 1 = M THEN 0 ELSE p + 1

\* a - b in size_t arithmetic.
Dist(a, b) == IF a >= b THEN a - b ELSE a - b + M

\* The values a load may return: those stored from `seen` up to `current`.
Visible(seen, current) == {p \in Pos : Dist(p, seen) <= Dist(current, seen)}

Init ==
    /\ data = [s \in Slots |-> Zero]
    /\ write_pos = 0 /\ read_pos = 0
    /\ ppc = "idle" /\ item = Zero /\ seenRead = 0
    /\ cpc = "idle" /\ out = Zero /\ seenWrite = 0
-----------------------------------------------------------------------------
(* push(), on the producer's thread.                                       *)

\* The ring looks full through the value of read_pos that was loaded.
PushFull(p) ==
    /\ ppc = "idle"
    /\ p \in Visible(seenRead, read_pos)
    /\ Dist(write_pos, p) >= N
    /\ seenRead' = p
    /\ UNCHANGED <<data, write_pos, read_pos, ppc, item, consumer>>

\* Bug: the full test written > N, one slot too late.
PushClaim_FullTooLate(i, p) ==
    /\ ppc = "idle"
    /\ p \in Visible(seenRead, read_pos)
    /\ Dist(write_pos, p) <= N
    /\ seenRead' = p
    /\ ppc' = "store" /\ item' = i
    /\ UNCHANGED <<data, write_pos, read_pos, consumer>>

PushClaim(i, p) ==
    /\ ppc = "idle"
    /\ p \in Visible(seenRead, read_pos)
    /\ Dist(write_pos, p) < N
    /\ seenRead' = p
    /\ ppc' = "store" /\ item' = i
    /\ UNCHANGED <<data, write_pos, read_pos, consumer>>

\* Bug: write_pos is advanced before the slot is filled.
PushStore_PublishFirst ==
    /\ ppc = "store"
    /\ write_pos' = Inc(write_pos)
    /\ ppc' = "publish"
    /\ UNCHANGED <<data, read_pos, item, seenRead, consumer>>

PushStore ==
    /\ ppc = "store"
    /\ data' = [data EXCEPT ![Slot(write_pos)] = item]
    /\ ppc' = "publish"
    /\ UNCHANGED <<write_pos, read_pos, item, seenRead, consumer>>

PushPublish ==
    /\ ppc = "publish"
    /\ write_pos' = Inc(write_pos)
    /\ ppc' = "idle"
    /\ UNCHANGED <<data, read_pos, item, seenRead, consumer>>
-----------------------------------------------------------------------------
(* pop(), on the engine's thread.                                          *)

PopEmpty(p) ==
    /\ cpc = "idle"
    /\ p \in Visible(seenWrite, write_pos)
    /\ p = read_pos
    /\ seenWrite' = p
    /\ UNCHANGED <<data, write_pos, read_pos, producer, cpc, out>>

\* Bug: the slot is given back before it is copied.
PopClaim_ReleaseFirst(p) ==
    /\ cpc = "idle"
    /\ p \in Visible(seenWrite, write_pos)
    /\ p # read_pos
    /\ seenWrite' = p
    /\ read_pos' = Inc(read_pos)
    /\ cpc' = "copy"
    /\ UNCHANGED <<data, write_pos, producer, out>>

PopClaim(p) ==
    /\ cpc = "idle"
    /\ p \in Visible(seenWrite, write_pos)
    /\ p # read_pos
    /\ seenWrite' = p
    /\ cpc' = "copy"
    /\ UNCHANGED <<data, write_pos, read_pos, producer, out>>

PopCopy ==
    /\ cpc = "copy"
    /\ out' = data[Slot(read_pos)]
    /\ cpc' = "release"
    /\ UNCHANGED <<data, write_pos, read_pos, producer, seenWrite>>

\* Bug: the slot is copied but not given back.
PopRelease_Keep ==
    /\ cpc = "release"
    /\ cpc' = "idle"
    /\ UNCHANGED <<data, write_pos, read_pos, producer, out, seenWrite>>

PopRelease ==
    /\ cpc = "release"
    /\ read_pos' = Inc(read_pos)
    /\ cpc' = "idle"
    /\ UNCHANGED <<data, write_pos, producer, out, seenWrite>>
-----------------------------------------------------------------------------
Producer ==
    \/ \E p \in Pos : PushFull(p)
    \/ \E i \in Items, p \in Pos : PushClaim(i, p)
    \/ PushStore
    \/ PushPublish

Consumer ==
    \/ \E p \in Pos : PopEmpty(p) \/ PopClaim(p)
    \/ PopCopy
    \/ PopRelease

Next == Producer \/ Consumer

Spec == Init /\ [][Next]_vars

\* A push that was begun is finished (there is no loop or lock in it); the
\* engine calls pop() in a loop; an atomic store becomes visible to the other
\* thread in finite time, so the load that succeeds is not put off for ever.
FairSpec ==
    /\ Spec
    /\ WF_vars(PushStore) /\ WF_vars(PushPublish)
    /\ WF_vars(PopClaim(write_pos)) /\ WF_vars(PopCopy) /\ WF_vars(PopRelease)
-----------------------------------------------------------------------------
\* Every variable keeps its type; the positions stay size_t values.
TypeOK ==
    /\ data \in [Slots -> Items \cup {Zero}]
    /\ write_pos \in Pos /\ read_pos \in Pos
    /\ seenRead \in Pos /\ seenWrite \in Pos
    /\ ppc \in {"idle", "store", "publish"}
    /\ cpc \in {"idle", "copy", "release"}
    /\ item \in Items \cup {Zero} /\ out \in Items \cup {Zero}
    /\ ppc # "idle" => item \in Items

\* The plain (non-atomic) accesses to a slot never overlap: the producer is
\* never storing into the slot the consumer is copying from, although each
\* decided on a possibly stale view of the other's position.
NoDataRace ==
    ~(ppc = "store" /\ cpc = "copy" /\ Slot(write_pos) = Slot(read_pos))

\* Around the circle of size_t values the four positions keep the order
\* seenRead, read_pos, seenWrite, write_pos within a window of N; inside a
\* push one slot is still free and inside a pop one is still filled.  This is
\* why comparing wrapped counters with >= N and == is sound.
WindowInv ==
    /\ Dist(write_pos, seenRead)
         = Dist(read_pos, seenRead) + Dist(seenWrite, read_pos)
             + Dist(write_pos, seenWrite)
    /\ Dist(write_pos, seenRead) <= N
    /\ ppc # "idle" => Dist(write_pos, seenRead) < N
    /\ cpc # "idle" => seenWrite # read_pos

\* The ring is a bounded FIFO channel: a push takes effect when it publishes,
\* a pop when it copies.
taken == IF cpc = "release" THEN 1 ELSE 0
queue == [i \in 1 .. Dist(write_pos, read_pos) - taken
            |-> data[Slot(read_pos + taken + i - 1)]]

Fifo == INSTANCE FifoChannel WITH received <- out
ImplementsFifo == Fifo!Spec

\* Whatever was published is eventually handed to the engine, also when the
\* producer keeps pushing and when the counters wrap.
Drains == \A p \in Pos : (write_pos = p) ~> (read_pos = p)
=============================================================================
