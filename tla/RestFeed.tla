------------------------------ MODULE RestFeed ------------------------------
(* The paper trader around the engine: RestPoller fetches all order books  *)
(* in parallel, cycle after cycle, and pushes them into the ring; the main *)
(* thread runs the engine loop and, on a signal or at the deadline, drains *)
(* the ring and stops the poller (rest_poller.cpp, paper_trader.cpp).      *)
(*                                                                         *)
(* A request belongs to a slot, one per symbol and venue.  Its book is     *)
(* known by its slot and the cycle it was asked for in.  The ring is the   *)
(* FIFO channel that SpscRing is proved to implement.                      *)
(* External: libcurl (each request ends: CURLOPT_TIMEOUT_MS), the signal.  *)
EXTENDS Integers, Sequences, FiniteSets

CONSTANTS
    Slots,     \* requests of a cycle: symbols times venues
    N,         \* capacity of the ring
    MaxCycles  \* bound: poll cycles

ASSUME RestAssumption ==
    /\ IsFiniteSet(Slots) /\ Slots # {}
    /\ N \in Nat \ {0} /\ MaxCycles \in Nat

VARIABLES
    g_stop,     \* paper_trader's shutdown flag
    running_,   \* RestPoller's own flag
    ppc,        \* poller thread: "cycle", "fire", "harvest", "push", "full", "count", "exited"
    cycle,      \* poller thread: cycles begun
    attached,   \* requests whose easy handle is on the multi handle
    flight,     \* those of them that are still running
    finished,   \* completed requests, for curl_multi_info_read(), in order
    pushing,    \* the tick push_fn was called with, until it is counted
    polls_ok, polls_err,
    queue,      \* the ring
    tick,       \* the engine's tick: the one popped last
    epc,        \* main thread: "loop", "drain", "stop", "join", "done"
    processed,  \* history: ticks handed to process_tick(), in order
    asked,      \* history: requests started
    given_up    \* history: books push_fn returned without pushing

ring == <<queue, tick>>
polls == <<polls_ok, polls_err>>
poller == <<ppc, cycle, attached, flight, finished, pushing, asked, given_up>>
vars == <<g_stop, running_, poller, polls, ring, epc, processed>>

Cycles == 1 .. MaxCycles
Ticks == [slot : Slots, cycle : Cycles]
NoTick == [slot |-> "none"]

Ring == INSTANCE FifoChannel WITH Items <- Ticks, Zero <- NoTick, received <- tick

Init ==
    /\ g_stop = FALSE /\ cycle = 0
    /\ \/ running_ = TRUE  /\ ppc = "cycle"
       \/ running_ = FALSE /\ ppc = "exited"  \* curl_multi_init() failed
    /\ attached = {} /\ flight = {} /\ finished = <<>> /\ pushing = NoTick
    /\ asked = 0 /\ given_up = 0
    /\ polls_ok = 0 /\ polls_err = 0
    /\ Ring!Init
    /\ epc = "loop" /\ processed = <<>>
-----------------------------------------------------------------------------
(* Poller thread: poll_loop().                                             *)

\* The slots are set up and added to the multi handle.  A slot whose easy handle
\* cannot be made or added (it is still attached, or libcurl has no memory) has
\* no request in this cycle, and no poll is counted for it.
BeginCycle ==
    /\ ppc = "cycle" /\ running_ /\ cycle < MaxCycles
    /\ \E started \in SUBSET (Slots \ attached) :
         /\ attached' = attached \cup started /\ flight' = started
         /\ asked' = asked + Cardinality(started)
    /\ cycle' = cycle + 1
    /\ ppc' = "fire"
    /\ UNCHANGED <<g_stop, running_, finished, pushing, given_up, polls, ring, epc,
                   processed>>

\* The poller's next step, when it does nothing else.
GoesOn(step) ==
    /\ ppc' = step
    /\ UNCHANGED <<g_stop, running_, cycle, attached, flight, finished, pushing, asked,
                   given_up, polls, ring, epc, processed>>

Exit == ppc = "cycle" /\ ~running_ /\ GoesOn("exited")

\* Bug: a request that ended is not taken off the running ones.
Complete_Again(s, result) ==
    /\ ppc = "fire" /\ s \in flight /\ Len(finished) < 2 * Cardinality(Slots)
    /\ finished' = Append(finished, [slot |-> s, result |-> result])
    /\ UNCHANGED <<g_stop, running_, ppc, cycle, attached, flight, pushing, asked, given_up,
                   polls, ring, epc, processed>>

\* curl_multi_perform(): a request ends with a usable book, with one that
\* parse_orderbook_json() refuses, or with an error, a timeout or another
\* status than 200.
Complete(s, result) ==
    /\ ppc = "fire" /\ s \in flight
    /\ flight' = flight \ {s}
    /\ finished' = Append(finished, [slot |-> s, result |-> result])
    /\ UNCHANGED <<g_stop, running_, ppc, cycle, attached, pushing, asked, given_up, polls,
                   ring, epc, processed>>

\* Requests that are still running when the poller is stopped are given up.
Fired == ppc = "fire" /\ (flight = {} \/ ~running_) /\ GoesOn("harvest")

\* parse_orderbook_json() makes a tick of the response.
HarvestBook ==
    /\ ppc = "harvest" /\ finished # <<>> /\ Head(finished).result = "book"
    /\ pushing' = [slot |-> Head(finished).slot, cycle |-> cycle]
    /\ finished' = Tail(finished)
    /\ ppc' = "push"
    /\ UNCHANGED <<g_stop, running_, cycle, attached, flight, asked, given_up, polls, ring,
                   epc, processed>>

HarvestError ==
    /\ ppc = "harvest" /\ finished # <<>> /\ Head(finished).result \in {"refused", "error"}
    /\ finished' = Tail(finished)
    /\ polls_err' = polls_err + 1
    /\ attached' = attached \ {Head(finished).slot}
    /\ UNCHANGED <<g_stop, running_, ppc, cycle, flight, pushing, asked, given_up, polls_ok,
                   ring, epc, processed>>

\* Nothing left to read; the rest of poll_ms is slept away.
Harvested == ppc = "harvest" /\ finished = <<>> /\ GoesOn("cycle")

\* A push finds the ring full when it is, and when it looks full through an old
\* value of read_pos; that takes N pushes since the start.
LooksFull == Len(processed \o queue) >= N

\* Bug: a push that succeeded does not end the loop.
Push_Again ==
    /\ ppc = "push"
    /\ Ring!Send(pushing)
    /\ UNCHANGED <<g_stop, running_, poller, polls, epc, processed>>

\* The engine may process the book before it is counted.
Push ==
    /\ ppc = "push"
    /\ Ring!Send(pushing)
    /\ ppc' = "count"
    /\ UNCHANGED <<g_stop, running_, cycle, attached, flight, finished, pushing, asked,
                   given_up, polls, epc, processed>>

\* Bug: a full ring counts as an answered poll.
PushFull_Drop == ppc = "push" /\ LooksFull /\ GoesOn("count")

PushFull == ppc = "push" /\ LooksFull /\ GoesOn("full")

\* Bug: the loop does not look at g_stop.
AfterFull_Spin == ppc = "full" /\ GoesOn("push")

\* while (!ring_buf.push(t) && !g_stop) yield.
AfterFull ==
    /\ ppc = "full"
    /\ \/ ~g_stop /\ ppc' = "push" /\ UNCHANGED given_up
       \/ g_stop /\ ppc' = "count" /\ given_up' = given_up + 1
    /\ UNCHANGED <<g_stop, running_, cycle, attached, flight, finished, pushing, asked, polls,
                   ring, epc, processed>>

\* push_fn has returned.
CountsPoll ==
    /\ ppc = "count"
    /\ polls_ok' = polls_ok + 1
    /\ pushing' = NoTick /\ ppc' = "harvest"

\* Bug: the easy handle of an answered request stays on the multi handle.
Counted_Attached ==
    /\ CountsPoll
    /\ UNCHANGED <<g_stop, running_, cycle, attached, flight, finished, asked, given_up,
                   polls_err, ring, epc, processed>>

\* The poll is OK, whether or not its book was pushed.  The easy handle is taken
\* off the multi handle, for the next cycle.
Counted ==
    /\ CountsPoll
    /\ attached' = attached \ {pushing.slot}
    /\ UNCHANGED <<g_stop, running_, cycle, flight, finished, asked, given_up, polls_err,
                   ring, epc, processed>>
-----------------------------------------------------------------------------
(* Main thread: engine loop, drain, RestPoller::stop().                    *)

\* The tick is written to the record file, then processed.
Process ==
    /\ Ring!Receive
    /\ processed' = Append(processed, tick')
    /\ UNCHANGED <<g_stop, running_, poller, polls, epc>>

EngineTick == epc = "loop" /\ ~g_stop /\ Process

EngineStops ==
    /\ epc = "loop" /\ g_stop
    /\ epc' = "drain"
    /\ UNCHANGED <<g_stop, running_, poller, polls, ring, processed>>

DrainTick == epc = "drain" /\ Process

\* A pop failed: the ring is empty, or the last push is not visible yet.
DrainDone ==
    /\ epc = "drain"
    /\ epc' = "stop"
    /\ UNCHANGED <<g_stop, running_, poller, polls, ring, processed>>

StopPoller ==
    /\ epc = "stop"
    /\ running_' = FALSE
    /\ epc' = "join"
    /\ UNCHANGED <<g_stop, poller, polls, ring, processed>>

Join ==
    /\ epc = "join" /\ ppc = "exited"
    /\ epc' = "done"
    /\ UNCHANGED <<g_stop, running_, poller, polls, ring, processed>>

\* The signal handler, or the deadline of --duration-minutes.
Stop ==
    /\ ~g_stop /\ g_stop' = TRUE
    /\ UNCHANGED <<running_, poller, polls, ring, epc, processed>>
-----------------------------------------------------------------------------
Requests == \E s \in Slots, result \in {"book", "refused", "error"} : Complete(s, result)

Poller ==
    \/ BeginCycle \/ Exit \/ Requests \/ Fired
    \/ HarvestBook \/ HarvestError \/ Harvested
    \/ Push \/ PushFull \/ AfterFull \/ Counted

Main == EngineTick \/ EngineStops \/ DrainTick \/ DrainDone \/ StopPoller \/ Join

Next == Poller \/ Main \/ Stop

Spec == Init /\ [][Next]_vars

\* Both threads keep running, and a request ends within its timeout.  No
\* fairness is assumed of the signal.
FairSpec == Spec /\ WF_vars(Poller) /\ WF_vars(Main)
-----------------------------------------------------------------------------
\* Every variable keeps its type.
TypeOK ==
    /\ g_stop \in BOOLEAN /\ running_ \in BOOLEAN
    /\ ppc \in {"cycle", "fire", "harvest", "push", "full", "count", "exited"}
    /\ cycle \in 0 .. MaxCycles /\ flight \subseteq attached /\ attached \subseteq Slots
    /\ \A i \in DOMAIN finished : finished[i].slot \in attached \ flight
    /\ pushing \in Ticks \cup {NoTick} /\ tick \in Ticks \cup {NoTick}
    /\ ppc \in {"push", "full", "count"} <=> pushing # NoTick
    /\ polls_ok \in Nat /\ polls_err \in Nat /\ asked \in Nat /\ given_up \in Nat
    /\ Len(queue) <= N
    /\ epc \in {"loop", "drain", "stop", "join", "done"}

\* When a cycle ends, every request started so far was answered and counted
\* exactly once, as OK or as an error: no response is left over for the next
\* cycle to mistake for its own, and no easy handle is left on the multi handle,
\* which would refuse its slot in every later cycle.
EachRequestCounted ==
    running_ /\ ppc = "cycle" =>
      /\ polls_ok + polls_err = asked
      /\ finished = <<>> /\ attached = {}

\* What the summary counts as "polls OK" are the order books that the engine
\* processed or that were left in the ring, and those given up on a full ring,
\* of which there are none before the shutdown.  A book may be processed before
\* it is counted.
OkPollsArrive ==
    /\ polls_ok + (IF ppc = "count" THEN 1 ELSE 0) = Len(processed) + Len(queue) + given_up
    /\ given_up > 0 => g_stop

\* An older book of a slot is never processed after a newer one, and none
\* twice, whatever the order in which the responses of a cycle come in and
\* also during the shutdown.
NewestLast ==
    \A i, j \in 1 .. Len(processed \o queue) :
      LET t == (processed \o queue)[i]
          u == (processed \o queue)[j]
      IN  i < j /\ t.slot = u.slot => t.cycle < u.cycle

\* The shutdown comes to an end: the poller does not wait for ever on a ring
\* nobody empties, nor the main thread on the poller.
ShutdownCompletes == g_stop ~> (epc = "done")
=============================================================================
