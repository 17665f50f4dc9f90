------------------------------- MODULE WsFeed -------------------------------
(* The live process around the engine: the WebSocket thread with its       *)
(* Socket.IO session and reconnections, the ring, the engine loop, and the *)
(* shutdown that a signal or the deadline starts (live.cpp, main).         *)
(*                                                                         *)
(* Venue v stands for the namespace /c2c<v>.  The ring is the FIFO channel *)
(* that SpscRing is proved to implement.  What process_tick() does with a  *)
(* tick is Backtest's and LiveOrders' subject; here it only has an order.  *)
(* External: IXWebSocket, the server, the signal.                          *)
EXTENDS Integers, Sequences

CONSTANTS
    N,        \* capacity of the ring
    MaxTicks, \* bound: order books the server sends
    MaxOpens, \* bound: connections
    MaxOdd    \* bound: repeated acks, messages the callback drops or fails on,
              \* namespaces the server disconnects

ASSUME FeedAssumption ==
    /\ N \in Nat \ {0} /\ MaxOpens \in Nat \ {0}
    /\ {MaxTicks, MaxOdd} \subseteq Nat

VARIABLES
    running,   \* g_running
    ready,     \* c2c1_ready, c2c2_ready
    pushing,   \* callback: the tick it is pushing, a sequence of at most one
    full,      \* callback: the last push() failed
    queue,     \* the ring
    tick,      \* the engine's t: the tick popped last
    epc,       \* main thread: "loop", "drain", "join", "done"; or the process
               \* "aborted"
    busy,      \* main thread: in process_tick()
    thread,    \* ws_thread and ou_thread: "run", "stopping", "stopped"
    link,      \* external: the connection
    inbox,     \* external: what the callback has yet to be called with
    joined,    \* external: the server's view of each namespace
    subs,      \* external: subscriptions the server holds on this connection
    used,      \* external: how much of each bound was used
    accepted,  \* history: ticks the callback took, in order
    processed  \* history: ticks handed to process_tick(), in order

session == <<ready, joined, subs>>
ring == <<queue, tick>>
vars == <<running, ready, pushing, full, queue, tick, epc, busy, thread, link, inbox, joined,
          subs, used, accepted, processed>>

Venues == {1, 2}
Ticks == 1 .. MaxTicks
Bounds == [ticks |-> MaxTicks, opens |-> MaxOpens, odd |-> MaxOdd]

Ring == INSTANCE FifoChannel WITH Items <- Ticks, Zero <- 0, received <- tick

Init ==
    /\ running = TRUE
    /\ ready = [v \in Venues |-> FALSE]
    /\ pushing = <<>> /\ full = FALSE
    /\ Ring!Init
    /\ epc = "loop" /\ busy = FALSE /\ thread = [t \in {"ws", "ou"} |-> "run"]
    /\ link = "down" /\ inbox = <<>>
    /\ joined = [v \in Venues |-> "no"] /\ subs = [v \in Venues |-> 0]
    /\ used = [b \in DOMAIN Bounds |-> 0]
    /\ accepted = <<>> /\ processed = <<>>
-----------------------------------------------------------------------------
(* The callback, on IXWebSocket's thread: it handles one message at a time *)
(* and is busy while it pushes.                                            *)

Called(kind) ==
    /\ thread["ws"] = "run" /\ pushing = <<>>
    /\ inbox # <<>> /\ Head(inbox).kind = kind

Receive(kind) == Called(kind) /\ inbox' = Tail(inbox)

\* What was not yet delivered is lost, and the server forgets the session.
LinkLost ==
    /\ link' = "down" /\ inbox' = <<>>
    /\ joined' = [v \in Venues |-> "no"] /\ subs' = [v \in Venues |-> 0]

\* Bug: the flags survive a reconnection.
OnOpen_KeepReady ==
    /\ Receive("open")
    /\ UNCHANGED <<running, session, pushing, full, ring, epc, busy, thread, link, used,
                   accepted, processed>>

OnOpen ==
    /\ Receive("open")
    /\ ready' = [v \in Venues |-> FALSE]
    /\ UNCHANGED <<running, joined, subs, pushing, full, ring, epc, busy, thread, link, used,
                   accepted, processed>>

\* EIO OPEN: both namespaces are asked for.
OnHello ==
    /\ Receive("hello")
    /\ joined' = [v \in Venues |-> "asked"]
    /\ UNCHANGED <<running, ready, subs, pushing, full, ring, epc, busy, thread, link, used,
                   accepted, processed>>

\* The server ignores a namespace it has disconnected meanwhile.
Subscribe(v) ==
    subs' = IF joined[v] = "acked" THEN [subs EXCEPT ![v] = @ + 1] ELSE subs

\* Bug: every ack subscribes.
OnAck_Always ==
    /\ Receive("ack")
    /\ LET v == Head(inbox).arg
       IN  ready' = [ready EXCEPT ![v] = TRUE] /\ Subscribe(v)
    /\ UNCHANGED <<running, joined, pushing, full, ring, epc, busy, thread, link, used,
                   accepted, processed>>

\* SIO CONNECT: the first ack of a connection subscribes.
OnAck ==
    /\ Receive("ack")
    /\ LET v == Head(inbox).arg
       IN  IF ready[v] THEN UNCHANGED <<ready, subs>>
                       ELSE ready' = [ready EXCEPT ![v] = TRUE] /\ Subscribe(v)
    /\ UNCHANGED <<running, joined, pushing, full, ring, epc, busy, thread, link, used,
                   accepted, processed>>

\* A malformed, crossed or unknown order book, another event; or the server
\* disconnecting a namespace, which the callback does not look for.
OnOther ==
    /\ \E kind \in {"junk", "kick"} : Receive(kind)
    /\ UNCHANGED <<running, session, pushing, full, ring, epc, busy, thread, link, used,
                   accepted, processed>>

\* get<std::string>() on a symbol that is not a string: it stands before the
\* try block, the exception leaves the callback and ends the process.
OnBadSymbol ==
    /\ Called("bad")
    /\ epc' = "aborted" /\ busy' = FALSE
    /\ thread' = [t \in DOMAIN thread |-> "stopped"]
    /\ LinkLost
    /\ UNCHANGED <<running, ready, pushing, full, ring, used, accepted, processed>>

OnTick ==
    /\ Receive("tick")
    /\ pushing' = <<Head(inbox).arg>>
    /\ accepted' = Append(accepted, Head(inbox).arg)
    /\ UNCHANGED <<running, session, full, ring, epc, busy, thread, link, used, processed>>
-----------------------------------------------------------------------------
(* while (!ring_buf.push(tick) && g_running) yield.                        *)

\* A push finds the ring full when it is, and when it looks full through an old
\* value of read_pos; that takes N pushes since the start.
LooksFull == Len(processed \o queue) >= N

\* Bug: a push that succeeded does not end the loop.
Push_Again ==
    /\ pushing # <<>> /\ ~full
    /\ Ring!Send(Head(pushing))
    /\ UNCHANGED <<running, session, pushing, full, epc, busy, thread, link, inbox, used,
                   accepted, processed>>

Push ==
    /\ pushing # <<>> /\ ~full
    /\ Ring!Send(Head(pushing))
    /\ pushing' = <<>>
    /\ UNCHANGED <<running, session, full, epc, busy, thread, link, inbox, used, accepted, processed>>

\* Bug: a tick that finds the ring full is dropped.
PushFull_Drop ==
    /\ pushing # <<>> /\ ~full /\ LooksFull
    /\ pushing' = <<>>
    /\ UNCHANGED <<running, session, full, ring, epc, busy, thread, link, inbox, used,
                   accepted, processed>>

PushFull ==
    /\ pushing # <<>> /\ ~full /\ LooksFull
    /\ full' = TRUE
    /\ UNCHANGED <<running, session, pushing, ring, epc, busy, thread, link, inbox, used,
                   accepted, processed>>

\* Bug: the loop does not look at g_running.
AfterFull_Spin ==
    /\ full /\ full' = FALSE
    /\ UNCHANGED <<running, session, pushing, ring, epc, busy, thread, link, inbox, used,
                   accepted, processed>>

\* Bug: the failure is still remembered when the loop is left.
AfterFull_StillFull ==
    /\ full /\ full' = ~running
    /\ pushing' = IF running THEN pushing ELSE <<>>
    /\ UNCHANGED <<running, session, ring, epc, busy, thread, link, inbox, used,
                   accepted, processed>>

AfterFull ==
    /\ full /\ full' = FALSE
    /\ pushing' = IF running THEN pushing ELSE <<>>
    /\ UNCHANGED <<running, session, ring, epc, busy, thread, link, inbox, used,
                   accepted, processed>>
-----------------------------------------------------------------------------
(* Main thread: engine_loop(), drain, joins.                               *)

\* A pop, and process_tick() is entered with the tick.
Process ==
    /\ ~busy /\ busy' = TRUE
    /\ Ring!Receive
    /\ processed' = Append(processed, tick')
    /\ UNCHANGED <<running, session, pushing, full, epc, thread, link, inbox, used, accepted>>

\* process_tick() returns; in live mode it may be sending an order, which has no
\* timeout.
TickReturns ==
    /\ busy /\ busy' = FALSE
    /\ UNCHANGED <<running, session, pushing, full, ring, epc, thread, link, inbox, used,
                   accepted, processed>>

\* The flag is tested before the pop; a pop after it was cleared is the
\* drain's first.
EngineTick == epc = "loop" /\ running /\ Process

EngineStops ==
    /\ epc = "loop" /\ ~busy /\ ~running
    /\ epc' = "drain"
    /\ UNCHANGED <<running, session, pushing, full, ring, busy, thread, link, inbox, used,
                   accepted, processed>>

DrainTick == epc = "drain" /\ Process

\* A pop failed: the ring is empty, or the last push is not visible yet.
DrainDone ==
    /\ epc = "drain" /\ ~busy
    /\ epc' = "join"
    /\ UNCHANGED <<running, session, pushing, full, ring, busy, thread, link, inbox, used,
                   accepted, processed>>

Join ==
    /\ epc = "join" /\ \A t \in DOMAIN thread : thread[t] = "stopped"
    /\ epc' = "done"
    /\ UNCHANGED <<running, session, pushing, full, ring, busy, thread, link, inbox, used,
                   accepted, processed>>

\* The signal handler, or the deadline of --duration-minutes.
Stop ==
    /\ running /\ running' = FALSE /\ epc # "aborted"
    /\ UNCHANGED <<session, pushing, full, ring, epc, busy, thread, link, inbox, used,
                   accepted, processed>>

\* ws_thread leaves its loop and calls ws.stop(): no further message is
\* delivered, and the call returns when the callback has.
StopSession ==
    /\ ~running /\ thread["ws"] = "run"
    /\ thread' = [thread EXCEPT !["ws"] = "stopping"]
    /\ LinkLost
    /\ UNCHANGED <<running, ready, pushing, full, ring, epc, busy, used, accepted, processed>>

SessionStopped ==
    /\ thread["ws"] = "stopping" /\ pushing = <<>>
    /\ thread' = [thread EXCEPT !["ws"] = "stopped"]
    /\ UNCHANGED <<running, session, pushing, full, ring, epc, busy, link, inbox, used,
                   accepted, processed>>

\* ou_thread: its callback never waits.
OrderUpdatesStop ==
    /\ ~running /\ thread["ou"] = "run"
    /\ thread' = [thread EXCEPT !["ou"] = "stopped"]
    /\ UNCHANGED <<running, session, pushing, full, ring, epc, busy, link, inbox, used,
                   accepted, processed>>
-----------------------------------------------------------------------------
(* External: the connection and the server.                                *)

Spend(b) == used[b] < Bounds[b] /\ used' = [used EXCEPT ![b] = @ + 1]
Deliver(kind, arg) == inbox' = Append(inbox, [kind |-> kind, arg |-> arg])
Quiet == UNCHANGED <<running, ready, pushing, full, ring, epc, busy, thread, accepted, processed>>

\* enableAutomaticReconnection().
Connect ==
    /\ link = "down" /\ thread["ws"] = "run" /\ Spend("opens")
    /\ link' = "up"
    /\ inbox' = <<[kind |-> "open", arg |-> 0], [kind |-> "hello", arg |-> 0]>>
    /\ UNCHANGED <<joined, subs>> /\ Quiet

Disconnect == link = "up" /\ LinkLost /\ UNCHANGED used /\ Quiet

Ack(v) ==
    /\ link = "up"
    /\ \/ joined[v] = "asked" /\ UNCHANGED used
       \/ joined[v] = "acked" /\ Spend("odd")
    /\ joined' = [joined EXCEPT ![v] = "acked"]
    /\ Deliver("ack", v)
    /\ UNCHANGED <<link, subs>> /\ Quiet

SendBook(v) ==
    /\ link = "up" /\ subs[v] > 0
    /\ \/ Spend("ticks") /\ Deliver("tick", used["ticks"] + 1)
       \/ Spend("odd") /\ (Deliver("junk", 0) \/ Deliver("bad", 0))
    /\ UNCHANGED <<link, joined, subs>> /\ Quiet

Kick(v) ==
    /\ link = "up" /\ joined[v] = "acked" /\ Spend("odd")
    /\ joined' = [joined EXCEPT ![v] = "kicked"] /\ subs' = [subs EXCEPT ![v] = 0]
    /\ Deliver("kick", 0)
    /\ UNCHANGED link /\ Quiet
-----------------------------------------------------------------------------
Callback ==
    \/ OnOpen \/ OnHello \/ OnAck \/ OnOther \/ OnBadSymbol \/ OnTick
    \/ Push \/ PushFull \/ AfterFull

Main == EngineTick \/ EngineStops \/ DrainTick \/ DrainDone \/ Join

Threads == StopSession \/ SessionStopped \/ OrderUpdatesStop

Environment ==
    \/ Stop \/ Connect \/ Disconnect
    \/ \E v \in Venues : Ack(v) \/ SendBook(v) \/ Kick(v)

Next == Callback \/ Main \/ TickReturns \/ Threads \/ Environment

Spec == Init /\ [][Next]_vars

\* Every thread keeps running; the library reconnects and the server answers
\* a CONNECT.  The stores of one thread become visible to the other, so a push
\* that would succeed does in the end.  No fairness is assumed of the books,
\* the signal or the kicks, nor of process_tick(): a send has no timeout.
FairSpec ==
    /\ Spec
    /\ WF_vars(Callback) /\ SF_vars(Push) /\ WF_vars(Main)
    /\ WF_vars(StopSession) /\ WF_vars(SessionStopped) /\ WF_vars(OrderUpdatesStop)
    /\ WF_vars(Connect) /\ \A v \in Venues : WF_vars(Ack(v))
-----------------------------------------------------------------------------
\* Every variable keeps its type.
TypeOK ==
    /\ running \in BOOLEAN /\ full \in BOOLEAN
    /\ ready \in [Venues -> BOOLEAN]
    /\ Len(pushing) <= 1 /\ (full => pushing # <<>>)
    /\ Len(queue) <= N /\ tick \in Ticks \cup {0}
    /\ epc \in {"loop", "drain", "join", "done", "aborted"} /\ busy \in BOOLEAN
    /\ \A t \in {"ws", "ou"} : thread[t] \in {"run", "stopping", "stopped"}
    /\ link \in {"down", "up"}
    /\ joined \in [Venues -> {"no", "asked", "acked", "kicked"}]
    /\ subs \in [Venues -> 0 .. 1 + MaxOdd]
    /\ \A b \in DOMAIN Bounds : used[b] \in 0 .. Bounds[b]

\* As long as the process runs, every order book the callback took reaches
\* process_tick() exactly once and in the order it came, across full rings
\* and reconnections.
NothingLost == running => accepted = processed \o queue \o pushing

\* During and after the shutdown ticks may be given up, but what is still
\* processed comes in the order it arrived: a quote never overwrites a newer.
StaysInOrder ==
    \A i, j \in 1 .. Len(processed \o queue \o pushing) :
      i < j => (processed \o queue \o pushing)[i] < (processed \o queue \o pushing)[j]

\* On one connection each namespace is subscribed at most once, also when its
\* ack is repeated; and what the client believes of a namespace is true at
\* the server unless that disconnected it.
SubscribedOnce ==
    \A v \in Venues :
      /\ subs[v] <= 1
      /\ link = "up" /\ ready[v] /\ (\A i \in DOMAIN inbox : inbox[i].kind # "open")
           => subs[v] = 1 \/ joined[v] = "kicked"

\* What the two below rest on and the code does not guarantee: every
\* process_tick() returns, though order_sender.cpp sets no timeout.
SendsReturn == []<>~busy

\* After a connection was lost both namespaces are subscribed again, on every
\* connection that stays up and on which the server does not disconnect them:
\* the callback that has to do it does not wait for ever at the ring.
Resubscribes ==
    SendsReturn =>
      \A v \in Venues :
        <>[](link = "up" /\ joined[v] # "kicked") => <>[](subs[v] = 1)

\* If every send returns, the shutdown comes to an end: the callback does not
\* wait for ever on a ring nobody empties, and the drain does not run after
\* the producer for ever.
ShutdownCompletes == SendsReturn => (~running ~> epc \in {"done", "aborted"})
=============================================================================
