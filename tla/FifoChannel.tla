---------------------------- MODULE FifoChannel ----------------------------
(* What SPSCRingBuffer<T, N> promises to its two threads: a bounded FIFO   *)
(* channel.  The producer appends an item when there is room, the consumer *)
(* takes the oldest one; nothing is lost, duplicated, reordered or torn.   *)
EXTENDS Naturals, Sequences

CONSTANTS N,        \* capacity
          Items,    \* what travels through the channel
          Zero      \* content of the consumer's buffer before its first item

VARIABLES queue,    \* items accepted and not yet handed out, oldest first
          received  \* the item handed out last

chan == <<queue, received>>

Init == queue = <<>> /\ received = Zero

Send(i) ==
    /\ Len(queue) < N
    /\ queue' = Append(queue, i)
    /\ UNCHANGED received

Receive ==
    /\ queue # <<>>
    /\ received' = Head(queue)
    /\ queue' = Tail(queue)

Next == (\E i \in Items : Send(i)) \/ Receive

Spec == Init /\ [][Next]_chan
=============================================================================
