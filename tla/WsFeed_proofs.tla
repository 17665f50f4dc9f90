---------------------------- MODULE WsFeed_proofs ----------------------------
(* Proofs about the live feed: between the callback and process_tick() no  *)
(* order book is lost or reordered, and no namespace is subscribed twice,  *)
(* for any capacity of the ring and any number of books and connections.   *)
EXTENDS WsFeed, SequenceLemmas, TLAPS

Kinds == {"open", "hello", "ack", "tick", "junk", "bad", "kick"}
Message == [kind : Kinds, arg : Nat]

BoundNames == {"ticks", "opens", "odd"}

FeedType ==
    /\ running \in BOOLEAN /\ full \in BOOLEAN
    /\ ready \in [Venues -> BOOLEAN]
    /\ pushing \in Seq(Ticks) /\ Len(pushing) <= 1 /\ (full => pushing # <<>>)
    /\ queue \in Seq(Ticks) /\ Len(queue) <= N /\ tick \in Ticks \cup {0}
    /\ epc \in {"loop", "drain", "join", "done", "aborted"} /\ busy \in BOOLEAN
    /\ thread \in [{"ws", "ou"} -> {"run", "stopping", "stopped"}]
    /\ link \in {"down", "up"}
    /\ joined \in [Venues -> {"no", "asked", "acked", "kicked"}]
    /\ subs \in [Venues -> Nat]
    /\ used \in [BoundNames -> Nat]
    /\ \A b \in BoundNames : used[b] <= Bounds[b]
    /\ accepted \in Seq(Ticks) /\ processed \in Seq(Ticks)

InboxType ==
    /\ inbox \in Seq(Message)
    /\ \A i \in DOMAIN inbox :
         /\ inbox[i].kind = "tick" => inbox[i].arg \in Ticks
         /\ inbox[i].kind = "ack" => inbox[i].arg \in Venues

Opening(m) == m.kind \in {"open", "hello"}

\* What a connection begins with is alone in the inbox, and then the server
\* holds nothing yet; afterwards an ack on its way was sent by the server, the
\* flag of a namespace stands for its subscription, and a kicked namespace is
\* the only exception.
SessionInv ==
    /\ link = "down" =>
         inbox = <<>> /\ \A v \in Venues : joined[v] = "no" /\ subs[v] = 0
    /\ \A i \in DOMAIN inbox : Opening(inbox[i]) =>
         /\ \A v \in Venues : joined[v] = "no" /\ subs[v] = 0
         /\ \A j \in DOMAIN inbox : Opening(inbox[j])
         /\ inbox[i].kind = "open" => i = 1 /\ Len(inbox) = 2
         /\ inbox[i].kind = "hello" => i = Len(inbox)
         /\ inbox[1].kind = "hello" => \A v \in Venues : ~ready[v]
    /\ \A i \in DOMAIN inbox : inbox[i].kind = "ack" =>
         joined[inbox[i].arg] \in {"acked", "kicked"}
    /\ \A v \in Venues :
         /\ subs[v] \in {0, 1}
         /\ subs[v] = 1 => ready[v] /\ joined[v] = "acked"
         /\ link = "up" /\ ready[v] /\ (\A i \in DOMAIN inbox : inbox[i].kind # "open")
              => subs[v] = 1 \/ joined[v] = "kicked"

Line == processed \o queue \o pushing

Increasing(s) == \A i, j \in DOMAIN s : i < j => s[i] < s[j]

\* The books that were taken are in the order the server numbered them, and
\* those still in the inbox come after them, also in order.
OrderInv ==
    /\ Increasing(Line)
    /\ \A i \in DOMAIN Line : Line[i] <= used["ticks"]
    /\ \A k \in DOMAIN inbox : inbox[k].kind = "tick" =>
         /\ inbox[k].arg <= used["ticks"]
         /\ \A i \in DOMAIN Line : Line[i] < inbox[k].arg
    /\ \A k, l \in DOMAIN inbox :
         inbox[k].kind = "tick" /\ inbox[l].kind = "tick" /\ k < l
           => inbox[k].arg < inbox[l].arg

Inv == FeedType /\ InboxType /\ SessionInv /\ OrderInv /\ NothingLost
-----------------------------------------------------------------------------
(* Constants.                                                              *)

LEMMA Constants ==
    /\ N \in Nat \ {0}
    /\ {MaxTicks, MaxOpens, MaxOdd} \subseteq Nat
    /\ DOMAIN Bounds = BoundNames /\ Bounds \in [BoundNames -> Nat]
    /\ Ticks \subseteq Nat /\ Bounds["ticks"] = MaxTicks
BY FeedAssumption DEF FeedAssumption, Bounds, BoundNames, Ticks

-----------------------------------------------------------------------------
(* The inbox: what the callback is called with next, what is added.        *)

LEMMA Popped ==
    ASSUME InboxType, NEW kind, Receive(kind)
    PROVE  /\ inbox \in Seq(Message) /\ inbox # <<>> /\ pushing = <<>>
           /\ 1 \in DOMAIN inbox /\ inbox[1] = Head(inbox) /\ inbox[1].kind = kind
           /\ inbox' = Tail(inbox) /\ Len(inbox') = Len(inbox) - 1
           /\ \A i \in DOMAIN inbox' :
                i + 1 \in DOMAIN inbox /\ i \in Nat /\ inbox'[i] = inbox[i + 1]
           /\ InboxType'
<1>1. inbox \in Seq(Message) /\ inbox # <<>> /\ inbox' = Tail(inbox)
      /\ Head(inbox).kind = kind /\ pushing = <<>>
  BY DEF InboxType, Receive, Called
<1>2. /\ Tail(inbox) \in Seq(Message) /\ Head(inbox) = inbox[1] /\ 1 \in DOMAIN inbox
      /\ Len(Tail(inbox)) = Len(inbox) - 1
      /\ \A i \in DOMAIN Tail(inbox) :
           i + 1 \in DOMAIN inbox /\ i \in Nat /\ Tail(inbox)[i] = inbox[i + 1]
  BY <1>1, Behead
<1>3. InboxType'
  BY <1>1, <1>2 DEF InboxType
<1>4. QED  BY <1>1, <1>2, <1>3

LEMMA Delivered ==
    ASSUME InboxType, NEW kind \in Kinds, NEW arg \in Nat, Deliver(kind, arg),
           kind = "tick" => arg \in Ticks, kind = "ack" => arg \in Venues
    PROVE  /\ inbox \in Seq(Message) /\ Len(inbox') = Len(inbox) + 1
           /\ \A i \in DOMAIN inbox' :
                IF i = Len(inbox) + 1
                THEN inbox'[i].kind = kind /\ inbox'[i].arg = arg
                ELSE i \in DOMAIN inbox /\ inbox'[i] = inbox[i]
           /\ DOMAIN inbox = 1 .. Len(inbox) /\ DOMAIN inbox' = 1 .. Len(inbox) + 1
           /\ InboxType'
<1> DEFINE m == [kind |-> kind, arg |-> arg]
<1>1. m \in Message /\ m.kind = kind /\ m.arg = arg
  BY DEF Message
<1>2. inbox' = Append(inbox, m) /\ inbox \in Seq(Message)
  BY DEF Deliver, InboxType
<1> HIDE DEF m
<1>3. /\ Append(inbox, m) \in Seq(Message) /\ Len(Append(inbox, m)) = Len(inbox) + 1
      /\ DOMAIN Append(inbox, m) = 1 .. Len(inbox) + 1 /\ DOMAIN inbox = 1 .. Len(inbox)
      /\ \A i \in DOMAIN Append(inbox, m) :
           IF i = Len(inbox) + 1 THEN Append(inbox, m)[i] = m
           ELSE i \in DOMAIN inbox /\ Append(inbox, m)[i] = inbox[i]
  BY <1>1, <1>2, Appended
<1>4. InboxType'
  <2>1. inbox' \in Seq(Message)
    BY <1>2, <1>3
  <2>2. ASSUME NEW i \in DOMAIN inbox'
        PROVE  /\ inbox'[i].kind = "tick" => inbox'[i].arg \in Ticks
               /\ inbox'[i].kind = "ack" => inbox'[i].arg \in Venues
    BY <1>1, <1>2, <1>3, <2>2 DEF InboxType
  <2>3. QED  BY <2>1, <2>2 DEF InboxType
<1>5. QED  BY <1>1, <1>2, <1>3, <1>4

\* A cleared inbox has its type, and so has that of a new connection.
LEMMA Cleared ==
    ASSUME inbox' = <<>>
    PROVE  InboxType'
BY EmptySeq DEF InboxType

LEMMA Greeting ==
    ASSUME inbox' = <<[kind |-> "open", arg |-> 0], [kind |-> "hello", arg |-> 0]>>
    PROVE  /\ InboxType'
           /\ DOMAIN inbox' = {1, 2} /\ Len(inbox') = 2
           /\ inbox'[1].kind = "open" /\ inbox'[2].kind = "hello"
<1>1. /\ [kind |-> "open", arg |-> 0] \in Message /\ [kind |-> "hello", arg |-> 0] \in Message
  BY DEF Message, Kinds
<1>2. inbox' \in Seq(Message) /\ Len(inbox') = 2 /\ DOMAIN inbox' = {1, 2}
  BY <1>1
<1>3. inbox'[1].kind = "open" /\ inbox'[2].kind = "hello"
  OBVIOUS
<1>4. QED  BY <1>2, <1>3 DEF InboxType
-----------------------------------------------------------------------------
(* The session.                                                            *)

\* As long as the server holds anything for this connection, its greeting has
\* been taken.
LEMMA Greeted ==
    ASSUME SessionInv, NEW v \in Venues, joined[v] # "no" \/ subs[v] # 0
    PROVE  link # "down" /\ \A i \in DOMAIN inbox : ~Opening(inbox[i])
BY DEF SessionInv

LEMMA PopSession ==
    ASSUME InboxType, SessionInv, NEW kind, Receive(kind), kind \notin {"open", "hello"},
           UNCHANGED <<link, session>>
    PROVE  SessionInv'
<1>1. /\ 1 \in DOMAIN inbox /\ inbox[1].kind = kind /\ inbox # <<>>
      /\ \A i \in DOMAIN inbox' :
           i + 1 \in DOMAIN inbox /\ i \in Nat /\ inbox'[i] = inbox[i + 1]
  BY Popped
<1>2. \A i \in DOMAIN inbox : ~Opening(inbox[i])
  BY <1>1 DEF SessionInv, Opening
<1>3. \A i \in DOMAIN inbox' : ~Opening(inbox'[i])
  BY <1>1, <1>2
<1>4. \A i \in DOMAIN inbox' : inbox'[i].kind = "ack" =>
        joined[inbox'[i].arg] \in {"acked", "kicked"}
  BY <1>1 DEF SessionInv
<1>5. link # "down"
  BY <1>1 DEF SessionInv
<1>6. QED
  BY <1>2, <1>3, <1>4, <1>5 DEF SessionInv, session, Opening

LEMMA OpenSession ==
    ASSUME FeedType, InboxType, SessionInv, OnOpen
    PROVE  SessionInv'
<1>1. /\ 1 \in DOMAIN inbox /\ inbox[1].kind = "open" /\ Len(inbox') = Len(inbox) - 1
      /\ inbox # <<>> /\ inbox' \in Seq(Message)
      /\ \A i \in DOMAIN inbox' :
           i + 1 \in DOMAIN inbox /\ i \in Nat /\ inbox'[i] = inbox[i + 1]
  BY Popped DEF OnOpen, InboxType
<1>2. /\ ready' = [v \in Venues |-> FALSE] /\ joined' = joined /\ subs' = subs /\ link' = link
  BY DEF OnOpen
<1>3. /\ \A v \in Venues : joined[v] = "no" /\ subs[v] = 0
      /\ \A j \in DOMAIN inbox : Opening(inbox[j])
      /\ Len(inbox) = 2 /\ link # "down"
  BY <1>1 DEF SessionInv, Opening
<1>4. ASSUME NEW i \in DOMAIN inbox'
      PROVE  i = 1 /\ Len(inbox') = 1 /\ inbox'[i].kind = "hello"
  <2>1. Len(inbox') = 1 /\ DOMAIN inbox' = 1 .. Len(inbox')
    BY <1>1, <1>3, LenProperties
  <2>2. i = 1 /\ inbox'[i] = inbox[2] /\ 2 \in DOMAIN inbox
    BY <1>1, <1>4, <2>1
  <2>3. inbox[2].kind # "open"
    BY <2>2 DEF SessionInv, Opening
  <2>4. QED  BY <1>3, <2>1, <2>2, <2>3 DEF Opening
<1>5. QED
  BY <1>2, <1>3, <1>4 DEF SessionInv, Opening

LEMMA HelloSession ==
    ASSUME FeedType, InboxType, SessionInv, OnHello
    PROVE  SessionInv'
<1>1. /\ 1 \in DOMAIN inbox /\ inbox[1].kind = "hello" /\ Len(inbox') = Len(inbox) - 1
      /\ inbox # <<>> /\ inbox' \in Seq(Message)
  BY Popped DEF OnHello, InboxType
<1>2. /\ joined' = [v \in Venues |-> "asked"]
      /\ ready' = ready /\ subs' = subs /\ link' = link
  BY DEF OnHello
<1>3. /\ \A v \in Venues : subs[v] = 0 /\ ~ready[v]
      /\ Len(inbox) = 1 /\ link # "down"
  BY <1>1 DEF SessionInv, Opening
<1>4. DOMAIN inbox' = {}
  BY <1>1, <1>3, LenProperties
<1>5. QED
  BY <1>2, <1>3, <1>4 DEF SessionInv

LEMMA AckSession ==
    ASSUME FeedType, InboxType, SessionInv, OnAck
    PROVE  SessionInv'
<1> DEFINE v == Head(inbox).arg
<1>1. /\ 1 \in DOMAIN inbox /\ inbox[1] = Head(inbox) /\ inbox[1].kind = "ack"
      /\ inbox # <<>>
      /\ \A i \in DOMAIN inbox' :
           i + 1 \in DOMAIN inbox /\ i \in Nat /\ inbox'[i] = inbox[i + 1]
  BY Popped DEF OnAck
<1>2. v \in Venues /\ joined[v] \in {"acked", "kicked"}
  BY <1>1 DEF InboxType, SessionInv
<1>3. CASE ready[v]
  <2>1. Receive("ack") /\ UNCHANGED <<link, session>>
    BY <1>3 DEF OnAck, session
  <2>2. QED  BY <2>1, PopSession
<1>4. CASE ~ready[v]
  <2>1. /\ ready' = [ready EXCEPT ![v] = TRUE] /\ link' = link /\ joined' = joined
        /\ subs' = IF joined[v] = "acked" THEN [subs EXCEPT ![v] = @ + 1] ELSE subs
    BY <1>4 DEF OnAck, Subscribe
  <2>2. subs[v] = 0 /\ link # "down" /\ \A i \in DOMAIN inbox : ~Opening(inbox[i])
    BY <1>1, <1>2, <1>4 DEF SessionInv, Opening
  <2>3. \A i \in DOMAIN inbox' : ~Opening(inbox'[i])
    BY <1>1, <2>2
  <2>4. \A i \in DOMAIN inbox' : inbox'[i].kind = "ack" =>
          joined'[inbox'[i].arg] \in {"acked", "kicked"}
    BY <1>1, <2>1 DEF SessionInv
  <2>5. ASSUME NEW w \in Venues
        PROVE  /\ subs'[w] \in {0, 1}
               /\ subs'[w] = 1 => ready'[w] /\ joined'[w] = "acked"
               /\ link' = "up" /\ ready'[w] => subs'[w] = 1 \/ joined'[w] = "kicked"
    <3>1. CASE w = v
      <4>1. ready'[v] /\ subs'[v] = IF joined[v] = "acked" THEN 1 ELSE 0
        BY <1>2, <2>1, <2>2 DEF FeedType
      <4>2. QED  BY <1>2, <2>1, <3>1, <4>1
    <3>2. CASE w # v
      <4>1. ready'[w] = ready[w] /\ subs'[w] = subs[w]
        BY <1>2, <2>1, <3>2 DEF FeedType
      <4>2. QED  BY <2>1, <2>2, <4>1 DEF SessionInv, Opening
    <3>3. QED  BY <3>1, <3>2
  <2> HIDE DEF v
  <2>6. QED  BY <2>1, <2>2, <2>3, <2>4, <2>5 DEF SessionInv
<1>5. QED  BY <1>3, <1>4

LEMMA ClearedSession ==
    ASSUME inbox' = <<>>, link' = "down",
           joined' = [v \in Venues |-> "no"], subs' = [v \in Venues |-> 0]
    PROVE  SessionInv'
<1>1. DOMAIN inbox' = {}
  OBVIOUS
<1>2. QED  BY <1>1 DEF SessionInv

LEMMA ConnectSession ==
    ASSUME SessionInv, Connect
    PROVE  SessionInv'
<1>1. /\ DOMAIN inbox' = {1, 2} /\ Len(inbox') = 2
      /\ inbox'[1].kind = "open" /\ inbox'[2].kind = "hello"
  BY Greeting DEF Connect
<1>2. /\ link = "down" /\ link' = "up" /\ ready' = ready /\ joined' = joined /\ subs' = subs
  BY DEF Connect, Quiet
<1>3. \A v \in Venues : joined'[v] = "no" /\ subs'[v] = 0
  BY <1>2 DEF SessionInv
<1>4. ASSUME NEW i \in DOMAIN inbox'
      PROVE  /\ Opening(inbox'[i]) /\ inbox'[i].kind # "ack"
             /\ inbox'[i].kind = "open" => i = 1 /\ Len(inbox') = 2
             /\ inbox'[i].kind = "hello" => i = Len(inbox')
             /\ inbox'[1].kind # "hello"
  BY <1>1, <1>4 DEF Opening
<1>5. \E i \in DOMAIN inbox' : inbox'[i].kind = "open"
  BY <1>1
<1>6. QED  BY <1>2, <1>3, <1>4, <1>5 DEF SessionInv

\* What the server sends after the greeting was taken.
LEMMA DeliverSession ==
    ASSUME FeedType, InboxType, SessionInv, link = "up", link' = link, ready' = ready,
           \A i \in DOMAIN inbox : ~Opening(inbox[i]),
           NEW kind \in Kinds, NEW arg \in Nat, Deliver(kind, arg),
           kind \notin {"open", "hello"}, kind = "tick" => arg \in Ticks,
           kind = "ack" => arg \in Venues /\ joined'[arg] \in {"acked", "kicked"},
           NEW v \in Venues,
           \A w \in Venues \ {v} : joined'[w] = joined[w] /\ subs'[w] = subs[w],
           \/ joined'[v] = joined[v] /\ subs'[v] = subs[v]
           \/ joined'[v] = "kicked" /\ subs'[v] = 0
           \/ joined[v] = "asked" /\ joined'[v] = "acked" /\ subs'[v] = subs[v] /\ ~ready[v]
    PROVE  SessionInv'
<1>1. \A i \in DOMAIN inbox' :
        IF i = Len(inbox) + 1 THEN inbox'[i].kind = kind /\ inbox'[i].arg = arg
        ELSE i \in DOMAIN inbox /\ inbox'[i] = inbox[i]
  BY Delivered
<1>2. \A i \in DOMAIN inbox' : ~Opening(inbox'[i])
  BY <1>1 DEF Opening
<1>3. ASSUME NEW i \in DOMAIN inbox', inbox'[i].kind = "ack"
      PROVE  joined'[inbox'[i].arg] \in {"acked", "kicked"}
  <2>1. CASE i = Len(inbox) + 1
    BY <1>1, <1>3, <2>1
  <2>2. CASE i # Len(inbox) + 1
    <3>1. i \in DOMAIN inbox /\ inbox'[i] = inbox[i]
      BY <1>1, <2>2
    <3>2. joined[inbox[i].arg] \in {"acked", "kicked"} /\ inbox[i].arg \in Venues
      BY <1>3, <3>1 DEF SessionInv, InboxType
    <3>3. QED  BY <3>1, <3>2
  <2>3. QED  BY <2>1, <2>2
<1>4. ASSUME NEW w \in Venues
      PROVE  /\ subs'[w] \in {0, 1}
             /\ subs'[w] = 1 => ready'[w] /\ joined'[w] = "acked"
             /\ link' = "up" /\ ready'[w] => subs'[w] = 1 \/ joined'[w] = "kicked"
  <2>1. /\ subs[w] \in {0, 1} /\ (subs[w] = 1 => ready[w] /\ joined[w] = "acked")
        /\ ready[w] => subs[w] = 1 \/ joined[w] = "kicked"
    BY DEF SessionInv, Opening
  <2>2. CASE w = v
    BY <2>1, <2>2
  <2>3. CASE w # v
    BY <2>1, <2>3
  <2>4. QED  BY <2>2, <2>3
<1>5. QED  BY <1>2, <1>3, <1>4 DEF SessionInv

\* The inbox keeps its type and the session its invariant in every step.
LEMMA AckKept ==
    ASSUME FeedType, InboxType, SessionInv, NEW v \in Venues, Ack(v)
    PROVE  InboxType' /\ SessionInv'
<1>1. /\ link = "up" /\ joined[v] \in {"asked", "acked"} /\ Deliver("ack", v)
      /\ link' = link /\ ready' = ready /\ subs' = subs
      /\ joined' = [joined EXCEPT ![v] = "acked"]
  BY DEF Ack, Quiet
<1>2. \A i \in DOMAIN inbox : ~Opening(inbox[i])
  BY <1>1, Greeted
<1>3. joined'[v] = "acked" /\ \A w \in Venues \ {v} : joined'[w] = joined[w]
  BY <1>1 DEF FeedType
<1>4. joined[v] = "asked" => ~ready[v]
  BY <1>1, <1>2 DEF SessionInv, Opening
<1>5. v \in Nat /\ "ack" \in Kinds
  BY DEF Venues, Kinds
<1>6. InboxType'
  BY <1>1, <1>5, Delivered
<1>7. SessionInv'
  BY <1>1, <1>2, <1>3, <1>4, <1>5, DeliverSession
<1>8. QED  BY <1>6, <1>7

LEMMA BookKept ==
    ASSUME FeedType, InboxType, SessionInv, NEW v \in Venues, SendBook(v)
    PROVE  /\ InboxType' /\ SessionInv' /\ {"tick", "junk", "bad"} \subseteq Kinds
           /\ used["ticks"] + 1 \in Nat
           /\ Spend("ticks") => used["ticks"] + 1 \in Ticks
<1>1. /\ link = "up" /\ subs[v] > 0
      /\ link' = link /\ ready' = ready /\ subs' = subs /\ joined' = joined
  BY DEF SendBook, Quiet
<1>2. \A i \in DOMAIN inbox : ~Opening(inbox[i])
  BY <1>1, Greeted DEF FeedType
<1>3. used["ticks"] \in Nat
  BY DEF FeedType, BoundNames
<1>4. Spend("ticks") => used["ticks"] + 1 \in Ticks
  BY <1>3, Constants DEF Spend, Ticks
<1>5. {"tick", "junk", "bad"} \subseteq Kinds
  BY DEF Kinds
<1>6. CASE Spend("ticks") /\ Deliver("tick", used["ticks"] + 1)
  <2>1. InboxType'
    BY <1>3, <1>4, <1>5, <1>6, Delivered
  <2>2. SessionInv'
    BY <1>1, <1>2, <1>3, <1>4, <1>5, <1>6, DeliverSession
  <2>3. QED  BY <1>3, <1>4, <1>5, <2>1, <2>2
<1>7. ASSUME NEW kind \in {"junk", "bad"}, Deliver(kind, 0)
      PROVE  InboxType' /\ SessionInv'
  <2>1. InboxType'
    BY <1>5, <1>7, Delivered
  <2>2. SessionInv'
    BY <1>1, <1>2, <1>5, <1>7, DeliverSession
  <2>3. QED  BY <2>1, <2>2
<1>8. QED  BY <1>3, <1>4, <1>5, <1>6, <1>7 DEF SendBook

LEMMA KickKept ==
    ASSUME FeedType, InboxType, SessionInv, NEW v \in Venues, Kick(v)
    PROVE  InboxType' /\ SessionInv'
<1>1. /\ link = "up" /\ joined[v] = "acked" /\ Deliver("kick", 0)
      /\ link' = link /\ ready' = ready
      /\ joined' = [joined EXCEPT ![v] = "kicked"] /\ subs' = [subs EXCEPT ![v] = 0]
  BY DEF Kick, Quiet
<1>2. \A i \in DOMAIN inbox : ~Opening(inbox[i])
  BY <1>1, Greeted
<1>3. /\ joined'[v] = "kicked" /\ subs'[v] = 0
      /\ \A w \in Venues \ {v} : joined'[w] = joined[w] /\ subs'[w] = subs[w]
  BY <1>1 DEF FeedType
<1>4. "kick" \in Kinds
  BY DEF Kinds
<1>5. InboxType'
  BY <1>1, <1>4, Delivered
<1>6. SessionInv'
  BY <1>1, <1>2, <1>3, <1>4, DeliverSession
<1>7. QED  BY <1>5, <1>6
-----------------------------------------------------------------------------
(* The line from the callback to process_tick(), and the books behind it.  *)

LineType == /\ processed \in Seq(Ticks) /\ queue \in Seq(Ticks) /\ pushing \in Seq(Ticks)

LEMMA LineIsSeq ==
    ASSUME LineType
    PROVE  Line \in Seq(Ticks)
BY ConcatProperties DEF Line, LineType

\* The line stands still while messages leave the inbox.
LEMMA PopOrder ==
    ASSUME InboxType, OrderInv, NEW kind, Receive(kind), Line' = Line, used' = used
    PROVE  OrderInv'
<1>1. \A i \in DOMAIN inbox' :
        i + 1 \in DOMAIN inbox /\ i \in Nat /\ inbox'[i] = inbox[i + 1]
  BY Popped
<1>2. QED  BY <1>1 DEF OrderInv, Increasing

LEMMA SameOrder ==
    ASSUME OrderInv, Line' = Line, used' = used,
           inbox' = inbox \/ DOMAIN inbox' = {}
    PROVE  OrderInv'
BY DEF OrderInv, Increasing

LEMMA GreetingOrder ==
    ASSUME OrderInv, Line' = Line, used'["ticks"] = used["ticks"],
           \A i \in DOMAIN inbox' : inbox'[i].kind # "tick"
    PROVE  OrderInv'
BY DEF OrderInv, Increasing

\* A message that is not a book changes nothing; a new book comes last.
LEMMA DeliverOrder ==
    ASSUME FeedType, InboxType, OrderInv, LineType, NEW kind \in Kinds, NEW arg \in Nat,
           Deliver(kind, arg), Line' = Line,
           kind = "ack" => arg \in Venues,
           IF kind = "tick"
           THEN arg = used["ticks"] + 1 /\ used'["ticks"] = arg /\ arg \in Ticks
           ELSE used'["ticks"] = used["ticks"]
    PROVE  OrderInv'
<1>1. /\ DOMAIN inbox = 1 .. Len(inbox) /\ Len(inbox) \in Nat
      /\ DOMAIN inbox' = 1 .. Len(inbox) + 1
      /\ \A i \in DOMAIN inbox' :
           IF i = Len(inbox) + 1 THEN inbox'[i].kind = kind /\ inbox'[i].arg = arg
           ELSE i \in DOMAIN inbox /\ inbox'[i] = inbox[i]
  BY Delivered, LenProperties
<1>2. PICK u \in Nat : u = used["ticks"]
  BY DEF FeedType, BoundNames
<1>3. PICK w \in Nat : w = used'["ticks"] /\ w >= u
  BY <1>2
<1>4. ASSUME NEW i \in DOMAIN Line
      PROVE  Line[i] \in Nat /\ Line[i] <= u
  <2>1. Line \in Seq(Ticks)
    BY LineIsSeq
  <2>2. Line[i] \in Ticks
    BY <1>4, <2>1, LenProperties
  <2>3. Line[i] <= used["ticks"]
    BY <1>4, Zenon DEF OrderInv
  <2>4. QED  BY <1>2, <2>2, <2>3, Constants
<1>5. \A k \in DOMAIN inbox : inbox[k].kind = "tick" =>
        inbox[k].arg \in Nat /\ inbox[k].arg <= u
  BY <1>2, Constants DEF OrderInv, InboxType
<1>6. ASSUME NEW k \in DOMAIN inbox', inbox'[k].kind = "tick"
      PROVE  /\ inbox'[k].arg <= w
             /\ \A i \in DOMAIN Line : Line[i] < inbox'[k].arg
  <2>1. CASE k = Len(inbox) + 1
    BY <1>1, <1>2, <1>3, <1>4, <1>6, <2>1
  <2>2. CASE k # Len(inbox) + 1
    BY <1>1, <1>3, <1>5, <1>6, <2>2 DEF OrderInv
  <2>3. QED  BY <2>1, <2>2
<1>7. ASSUME NEW k \in DOMAIN inbox', NEW l \in DOMAIN inbox',
             inbox'[k].kind = "tick", inbox'[l].kind = "tick", k < l
      PROVE  inbox'[k].arg < inbox'[l].arg
  <2>1. k # Len(inbox) + 1 /\ k \in DOMAIN inbox
    BY <1>1, <1>7
  <2>2. CASE l = Len(inbox) + 1
    BY <1>1, <1>2, <1>3, <1>5, <1>7, <2>1, <2>2
  <2>3. CASE l # Len(inbox) + 1
    BY <1>1, <1>7, <2>1, <2>3 DEF OrderInv
  <2>4. QED  BY <2>2, <2>3
<1>8. QED  BY <1>3, <1>4, <1>6, <1>7 DEF OrderInv, Increasing

\* The book that is taken becomes the last in line.
LEMMA TakeOrder ==
    ASSUME InboxType, OrderInv, LineType, Receive("tick"),
           Line' = Line \o <<Head(inbox).arg>>, used' = used
    PROVE  OrderInv'
<1> DEFINE x == Head(inbox).arg
<1>1. /\ 1 \in DOMAIN inbox /\ inbox[1] = Head(inbox) /\ inbox[1].kind = "tick"
      /\ \A i \in DOMAIN inbox' :
           i + 1 \in DOMAIN inbox /\ i \in Nat /\ i >= 1 /\ inbox'[i] = inbox[i + 1]
  <2>1. InboxType'
    BY Popped
  <2>2. QED  BY <2>1, Popped, LenProperties DEF InboxType
<1>2. x \in Ticks /\ x <= used["ticks"] /\ \A i \in DOMAIN Line : Line[i] < x
  BY <1>1 DEF InboxType, OrderInv
<1>3. /\ Line \in Seq(Ticks) /\ Line' = Append(Line, x)
      /\ \A i \in DOMAIN Line' : IF i = Len(Line) + 1 THEN Line'[i] = x
                                 ELSE i \in DOMAIN Line /\ Line'[i] = Line[i]
      /\ DOMAIN Line' = 1 .. Len(Line) + 1 /\ DOMAIN Line = 1 .. Len(Line)
      /\ Len(Line) \in Nat
  BY <1>2, LineIsSeq, Appended, LenProperties
<1>4. Increasing(Line')
  BY <1>2, <1>3 DEF OrderInv, Increasing
<1>5. \A i \in DOMAIN Line' : Line'[i] <= used["ticks"]
  BY <1>2, <1>3 DEF OrderInv
<1>6. ASSUME NEW k \in DOMAIN inbox', inbox'[k].kind = "tick"
      PROVE  /\ inbox'[k].arg <= used["ticks"]
             /\ \A i \in DOMAIN Line' : Line'[i] < inbox'[k].arg
  <2>1. k + 1 \in DOMAIN inbox /\ inbox'[k] = inbox[k + 1] /\ 1 < k + 1
    BY <1>1
  <2>2. x < inbox[k + 1].arg
    BY <1>1, <1>6, <2>1 DEF OrderInv
  <2>3. QED  BY <1>3, <1>6, <2>1, <2>2 DEF OrderInv
<1>7. \A k, l \in DOMAIN inbox' :
        inbox'[k].kind = "tick" /\ inbox'[l].kind = "tick" /\ k < l
          => inbox'[k].arg < inbox'[l].arg
  BY <1>1 DEF OrderInv
<1> HIDE DEF x
<1>8. QED  BY <1>4, <1>5, <1>6, <1>7 DEF OrderInv

\* A book given up at the shutdown was the last in line.
LEMMA DropOrder ==
    ASSUME OrderInv, LineType, Line' = processed \o queue, UNCHANGED <<inbox, used>>
    PROVE  OrderInv'
<1>1. /\ processed \o queue \in Seq(Ticks) /\ Line = (processed \o queue) \o pushing
      /\ pushing \in Seq(Ticks)
  BY ConcatProperties DEF LineType, Line
<1>2. \A i \in DOMAIN Line' : i \in DOMAIN Line /\ Line'[i] = Line[i]
  BY <1>1, ConcatProperties, LenProperties
<1>3. QED  BY <1>2 DEF OrderInv, Increasing
-----------------------------------------------------------------------------
(* One lemma per part of the process: what its actions preserve.           *)

LEMMA LineOfType ==
    ASSUME FeedType
    PROVE  LineType
BY DEF FeedType, LineType

\* A push fits: the ring was not full.
LEMMA PushFits ==
    ASSUME FeedType, pushing # <<>>
    PROVE  Head(pushing) \in Ticks /\ pushing = <<Head(pushing)>>
<1>1. pushing \in Seq(Ticks) /\ Len(pushing) <= 1 /\ Len(pushing) # 0 /\ Len(pushing) \in Nat
  BY EmptySeq, LenProperties DEF FeedType
<1>2. Len(pushing) = 1
  BY <1>1
<1>3. QED  BY <1>1, <1>2

\* The messages that are not books.
LEMMA SessionSteps ==
    ASSUME Inv, OnOpen \/ OnHello \/ OnAck \/ OnOther
    PROVE  Inv'
<1>1. /\ FeedType /\ InboxType /\ SessionInv /\ OrderInv /\ NothingLost
  BY DEF Inv
<1>2. PICK kind : Receive(kind)
  BY DEF OnOpen, OnHello, OnAck, OnOther
<1>3. UNCHANGED <<running, pushing, full, queue, tick, epc, busy, thread, link, used,
                  accepted, processed>>
  BY DEF OnOpen, OnHello, OnAck, OnOther, ring
<1>4. InboxType'
  BY <1>1, <1>2, Popped
<1>5. OrderInv'
  <2>1. Line' = Line
    BY <1>3 DEF Line
  <2>2. QED  BY <1>1, <1>2, <1>3, <2>1, PopOrder
<1>6. NothingLost'
  BY <1>1, <1>3 DEF NothingLost
<1>7. SessionInv'
  <2>1. CASE OnOther
    <3>1. PICK k \in {"junk", "kick"} : Receive(k)
      BY <2>1 DEF OnOther
    <3>2. UNCHANGED <<link, session>>
      BY <2>1 DEF OnOther
    <3>3. QED  BY <1>1, <3>1, <3>2, PopSession
  <2>2. QED  BY <1>1, <2>1, OpenSession, HelloSession, AckSession
<1>8. /\ ready' \in [Venues -> BOOLEAN]
      /\ joined' \in [Venues -> {"no", "asked", "acked", "kicked"}]
      /\ subs' \in [Venues -> Nat]
  <2>1. CASE OnOpen
    BY <1>1, <2>1 DEF OnOpen, FeedType
  <2>2. CASE OnHello
    BY <1>1, <2>2 DEF OnHello, FeedType
  <2>3. CASE OnAck
    <3>1. Head(inbox).arg \in Venues
      <4>1. Receive("ack")
        BY <2>3 DEF OnAck
      <4>2. QED  BY <1>1, <4>1, Popped DEF InboxType
    <3>2. /\ ready' = ready \/ ready' = [ready EXCEPT ![Head(inbox).arg] = TRUE]
          /\ subs' = subs \/ subs' = [subs EXCEPT ![Head(inbox).arg] = @ + 1]
          /\ joined' = joined
      BY <2>3 DEF OnAck, Subscribe
    <3>3. ready' \in [Venues -> BOOLEAN]
      BY <1>1, <3>1, <3>2 DEF FeedType
    <3>4. subs' \in [Venues -> Nat]
      BY <1>1, <3>1, <3>2 DEF FeedType
    <3>5. QED  BY <1>1, <3>2, <3>3, <3>4 DEF FeedType
  <2>4. CASE OnOther
    BY <1>1, <2>4 DEF OnOther, session, FeedType
  <2>5. QED  BY <2>1, <2>2, <2>3, <2>4
<1>9. FeedType'
  BY <1>1, <1>3, <1>8 DEF FeedType
<1>10. QED  BY <1>4, <1>5, <1>6, <1>7, <1>9 DEF Inv

LEMMA TakeStep ==
    ASSUME Inv, OnTick
    PROVE  Inv'
<1> DEFINE x == Head(inbox).arg
<1>1. /\ FeedType /\ InboxType /\ SessionInv /\ OrderInv /\ NothingLost
  BY DEF Inv
<1>2. /\ Receive("tick") /\ pushing = <<>> /\ pushing' = <<x>>
      /\ accepted' = Append(accepted, x)
      /\ UNCHANGED <<running, session, full, queue, tick, epc, busy, thread, link, used, processed>>
  BY DEF OnTick, Receive, Called, ring
<1>3. x \in Ticks
  BY <1>1, <1>2, Popped DEF InboxType
<1>4. InboxType'
  BY <1>1, <1>2, Popped
<1>5. SessionInv'
  BY <1>1, <1>2, PopSession
<1> HIDE DEF x
<1>6. /\ processed \in Seq(Ticks) /\ queue \in Seq(Ticks) /\ processed \o queue \in Seq(Ticks)
      /\ Line = processed \o queue /\ Line' = (processed \o queue) \o <<x>>
  <2>1. processed \in Seq(Ticks) /\ queue \in Seq(Ticks) /\ processed \o queue \in Seq(Ticks)
    BY <1>1, ConcatProperties DEF FeedType
  <2>2. Line = (processed \o queue) \o <<>>
    BY <1>2 DEF Line
  <2>3. Line = processed \o queue
    BY <2>1, <2>2, ConcatEmptySeq
  <2>4. Line' = (processed \o queue) \o <<x>>
    BY <1>2 DEF Line
  <2>5. QED  BY <2>1, <2>3, <2>4
<1>7. OrderInv'
  <2>1. LineType
    BY <1>1, LineOfType
  <2>2. Line' = Line \o <<x>> /\ used' = used
    BY <1>2, <1>6
  <2>3. QED  BY <1>1, <1>2, <2>1, <2>2, TakeOrder DEF x
<1>8. NothingLost'
  <2>1. accepted \in Seq(Ticks) /\ Append(accepted, x) = accepted \o <<x>>
    BY <1>1, <1>3, AppendProperties DEF FeedType
  <2>2. running => accepted = Line
    BY <1>1 DEF NothingLost, Line
  <2>3. running' => accepted' = Line'
    BY <1>2, <1>6, <2>1, <2>2
  <2>4. QED  BY <2>3, Zenon DEF NothingLost, Line
<1>9. FeedType'
  <2>1. pushing' \in Seq(Ticks) /\ Len(pushing') = 1 /\ pushing' # <<>>
    BY <1>2, <1>3
  <2>2. accepted' \in Seq(Ticks)
    BY <1>1, <1>2, <1>3, AppendProperties DEF FeedType
  <2>3. QED  BY <1>1, <1>2, <2>1, <2>2 DEF FeedType, session
<1>10. QED  BY <1>4, <1>5, <1>7, <1>8, <1>9 DEF Inv

LEMMA PushSteps ==
    ASSUME Inv, Push \/ PushFull \/ AfterFull
    PROVE  Inv'
<1>1. /\ FeedType /\ InboxType /\ SessionInv /\ OrderInv /\ NothingLost /\ LineType
  BY LineOfType DEF Inv
<1>2. UNCHANGED <<running, session, tick, epc, busy, thread, link, inbox, used, accepted, processed>>
  BY DEF Push, PushFull, AfterFull, Ring!Send, ring
<1>3. InboxType' /\ SessionInv'
  <2>1. InboxType'
    BY <1>1, <1>2 DEF InboxType
  <2>2. UNCHANGED <<ready, joined, subs, link, inbox>>
    BY <1>2 DEF session
  <2>3. SessionInv'
    BY <1>1, <2>2 DEF SessionInv
  <2>4. QED  BY <2>1, <2>3
<1>4. CASE Push
  <2> DEFINE x == Head(pushing)
  <2>1. /\ pushing # <<>> /\ queue' = Append(queue, x) /\ Len(queue) < N
        /\ pushing' = <<>> /\ full' = full /\ ~full
    BY <1>4 DEF Push, Ring!Send
  <2>2. x \in Ticks /\ pushing = <<x>>
    BY <1>1, <2>1, PushFits
  <2> HIDE DEF x
  <2>3. queue' \in Seq(Ticks) /\ Len(queue') = Len(queue) + 1 /\ Len(queue) \in Nat
    BY <1>1, <2>1, <2>2, AppendProperties, LenProperties DEF FeedType
  <2>4. Line' = Line
    <3>1. processed \o Append(queue, x) = (processed \o queue) \o <<x>>
      BY <1>1, <2>2, PutIn DEF LineType
    <3>2. processed \o queue' \in Seq(Ticks)
      BY <1>1, <2>3, ConcatProperties DEF LineType
    <3>3. (processed \o queue') \o <<>> = processed \o queue'
      BY <3>2, ConcatEmptySeq
    <3>4. Line' = processed \o queue'
      BY <1>2, <2>1, <3>3 DEF Line
    <3>5. QED  BY <2>1, <2>2, <3>1, <3>4 DEF Line
  <2>5. OrderInv'
    BY <1>1, <1>2, <2>4, SameOrder
  <2>6. NothingLost'
    BY <1>1, <1>2, <2>4, Zenon DEF NothingLost, Line
  <2>7. Len(queue') <= N
    BY <2>1, <2>3, Constants
  <2>8. FeedType'
    <3>1. pushing' \in Seq(Ticks) /\ Len(pushing') <= 1 /\ full' = FALSE
      BY <1>1, <2>1, EmptySeq DEF FeedType
    <3>2. UNCHANGED <<running, ready, tick, epc, busy, thread, link, joined, subs, used,
                      accepted, processed>>
      BY <1>2 DEF session
    <3>3. queue' \in Seq(Ticks)
      BY <2>3
    <3>4. QED  BY <1>1, <2>7, <3>1, <3>2, <3>3 DEF FeedType
  <2>9. QED  BY <1>3, <2>5, <2>6, <2>8 DEF Inv
<1>5. CASE UNCHANGED <<pushing, queue>> /\ (full' => pushing # <<>>) /\ full' \in BOOLEAN
  <2>1. Line' = Line
    BY <1>2, <1>5 DEF Line
  <2>2. OrderInv'
    BY <1>1, <1>2, <2>1, SameOrder
  <2>3. NothingLost'
    BY <1>1, <1>2, <1>5 DEF NothingLost
  <2>4. FeedType'
    BY <1>1, <1>2, <1>5 DEF FeedType, session
  <2>5. QED  BY <1>3, <2>2, <2>3, <2>4 DEF Inv
<1>6. CASE ~running /\ pushing' = <<>> /\ queue' = queue /\ full' = FALSE
  <2>1. Line' = processed \o queue
    <3>1. processed \o queue \in Seq(Ticks)
      BY <1>1, ConcatProperties DEF LineType
    <3>2. Line' = (processed \o queue) \o <<>>
      BY <1>2, <1>6 DEF Line
    <3>3. QED  BY <3>1, <3>2, ConcatEmptySeq
  <2>2. OrderInv'
    BY <1>1, <1>2, <2>1, DropOrder
  <2>3. NothingLost'
    BY <1>2, <1>6 DEF NothingLost
  <2>4. FeedType'
    <3>1. pushing' \in Seq(Ticks) /\ Len(pushing') <= 1 /\ full' = FALSE
      BY <1>6, EmptySeq
    <3>2. UNCHANGED <<running, ready, queue, tick, epc, busy, thread, link, joined, subs, used,
                      accepted, processed>>
      BY <1>2, <1>6 DEF session
    <3>3. QED  BY <1>1, <3>1, <3>2 DEF FeedType
  <2>5. QED  BY <1>3, <2>2, <2>3, <2>4 DEF Inv
<1>7. CASE PushFull
  BY <1>5, <1>7 DEF PushFull, ring
<1>8. CASE AfterFull
  <2>1. CASE running
    BY <1>5, <1>8, <2>1 DEF AfterFull, ring
  <2>2. CASE ~running
    BY <1>6, <1>8, <2>2 DEF AfterFull, ring
  <2>3. QED  BY <2>1, <2>2
<1>9. QED  BY <1>4, <1>7, <1>8

\* A book moves from the ring to process_tick().
LEMMA ProcessStep ==
    ASSUME Inv, Process
    PROVE  Inv'
<1>1. /\ FeedType /\ InboxType /\ SessionInv /\ OrderInv /\ NothingLost /\ LineType
  BY LineOfType DEF Inv
<1>2. /\ queue # <<>> /\ tick' = Head(queue) /\ queue' = Tail(queue)
      /\ processed' = Append(processed, Head(queue))
      /\ busy' = TRUE
      /\ UNCHANGED <<running, session, pushing, full, epc, thread, link, inbox, used, accepted>>
  BY DEF Process, Ring!Receive
<1>3. InboxType' /\ SessionInv'
  <2>1. UNCHANGED <<ready, joined, subs, link, inbox>>
    BY <1>2 DEF session
  <2>2. QED  BY <1>1, <2>1 DEF InboxType, SessionInv
<1>4. Line' = Line
  <2>1. Append(processed, Head(queue)) \o Tail(queue) = processed \o queue
    BY <1>1, <1>2, HandedOver DEF LineType
  <2>2. QED  BY <1>2, <2>1 DEF Line
<1>5. OrderInv'
  BY <1>1, <1>2, <1>4, SameOrder
<1>6. NothingLost'
  BY <1>1, <1>2, <1>4, Zenon DEF NothingLost, Line
<1>7. /\ Head(queue) \in Ticks /\ Tail(queue) \in Seq(Ticks) /\ Len(Tail(queue)) = Len(queue) - 1
      /\ Len(queue) \in Nat /\ Append(processed, Head(queue)) \in Seq(Ticks)
  <2>1. queue \in Seq(Ticks) /\ processed \in Seq(Ticks)
    BY <1>1 DEF LineType
  <2>2. Head(queue) \in Ticks /\ Tail(queue) \in Seq(Ticks) /\ Len(Tail(queue)) = Len(queue) - 1
    BY <1>2, <2>1, Behead
  <2>3. QED  BY <2>1, <2>2, AppendProperties, LenProperties
<1>8. Len(Tail(queue)) <= N
  BY <1>1, <1>7, Constants DEF FeedType
<1>9. FeedType'
  BY <1>1, <1>2, <1>7, <1>8 DEF FeedType, session
<1>10. QED  BY <1>3, <1>5, <1>6, <1>9 DEF Inv

\* The steps of the shutdown, which touch neither the line nor the messages.
LEMMA ShutdownSteps ==
    ASSUME Inv,
           EngineStops \/ DrainDone \/ Join \/ Stop \/ SessionStopped \/ OrderUpdatesStop
             \/ TickReturns
    PROVE  Inv'
<1>1. /\ FeedType /\ InboxType /\ SessionInv /\ OrderInv /\ NothingLost
  BY DEF Inv
<1>2. UNCHANGED <<session, pushing, full, ring, link, inbox, used, accepted, processed>>
  BY DEF EngineStops, DrainDone, Join, Stop, SessionStopped, OrderUpdatesStop, TickReturns
<1>3. running' = running \/ (running' = FALSE)
  BY DEF EngineStops, DrainDone, Join, Stop, SessionStopped, OrderUpdatesStop, TickReturns
<1>4. InboxType' /\ SessionInv'
  <2>1. UNCHANGED <<ready, joined, subs, link, inbox>>
    BY <1>2 DEF session
  <2>2. QED  BY <1>1, <2>1 DEF InboxType, SessionInv
<1>5. OrderInv'
  <2>1. Line' = Line
    BY <1>2 DEF Line, ring
  <2>2. QED  BY <1>1, <1>2, <2>1, SameOrder
<1>6. NothingLost'
  BY <1>1, <1>2, <1>3 DEF NothingLost, ring
<1>7. /\ epc' \in {"loop", "drain", "join", "done", "aborted"} /\ busy' \in BOOLEAN
      /\ thread' \in [{"ws", "ou"} -> {"run", "stopping", "stopped"}]
      /\ running' \in BOOLEAN
  BY <1>1 DEF EngineStops, DrainDone, Join, Stop, SessionStopped, OrderUpdatesStop, TickReturns,
     FeedType
<1>8. FeedType'
  BY <1>1, <1>2, <1>7 DEF FeedType, session, ring
<1>9. QED  BY <1>4, <1>5, <1>6, <1>8 DEF Inv

\* The connection is lost: by itself, through ws.stop() or with the process.
LEMMA LostSteps ==
    ASSUME Inv, Disconnect \/ StopSession \/ OnBadSymbol
    PROVE  Inv'
<1>1. /\ FeedType /\ InboxType /\ SessionInv /\ OrderInv /\ NothingLost
  BY DEF Inv
<1>2. /\ UNCHANGED <<running, ready, pushing, full, queue, tick, used, accepted, processed>>
      /\ link' = "down" /\ inbox' = <<>>
      /\ joined' = [v \in Venues |-> "no"] /\ subs' = [v \in Venues |-> 0]
  BY DEF Disconnect, StopSession, OnBadSymbol, LinkLost, Quiet, ring
<1>3. InboxType' /\ SessionInv'
  BY <1>2, Cleared, ClearedSession
<1>4. OrderInv'
  <2>1. Line' = Line /\ DOMAIN inbox' = {}
    BY <1>2 DEF Line
  <2>2. QED  BY <1>1, <1>2, <2>1, SameOrder
<1>5. NothingLost'
  BY <1>1, <1>2 DEF NothingLost
<1>6. FeedType'
  <2>1. /\ epc' \in {"loop", "drain", "join", "done", "aborted"} /\ busy' \in BOOLEAN
        /\ thread' \in [{"ws", "ou"} -> {"run", "stopping", "stopped"}]
    BY <1>1 DEF Disconnect, StopSession, OnBadSymbol, Quiet, FeedType
  <2>2. QED  BY <1>1, <1>2, <2>1 DEF FeedType
<1>7. QED  BY <1>3, <1>4, <1>5, <1>6 DEF Inv

LEMMA Spent ==
    ASSUME FeedType, NEW b \in BoundNames, Spend(b)
    PROVE  /\ used' \in [BoundNames -> Nat]
           /\ \A c \in BoundNames : used'[c] <= Bounds[c]
           /\ used'[b] = used[b] + 1 /\ \A c \in BoundNames \ {b} : used'[c] = used[c]
<1>1. /\ used \in [BoundNames -> Nat] /\ Bounds \in [BoundNames -> Nat]
      /\ used[b] < Bounds[b] /\ used' = [used EXCEPT ![b] = @ + 1]
      /\ \A c \in BoundNames : used[c] <= Bounds[c]
  BY Constants DEF FeedType, Spend
<1>2. QED  BY <1>1

\* The server and the connection it accepts.
LEMMA ServerSteps ==
    ASSUME Inv,
           Connect \/ \E v \in Venues : Ack(v) \/ SendBook(v) \/ Kick(v)
    PROVE  Inv'
<1>1. /\ FeedType /\ InboxType /\ SessionInv /\ OrderInv /\ NothingLost /\ LineType
  BY LineOfType DEF Inv
<1>2. UNCHANGED <<running, ready, pushing, full, queue, tick, epc, busy, thread, accepted, processed>>
  BY DEF Connect, Ack, SendBook, Kick, Quiet, ring
<1>3. Line' = Line
  BY <1>2 DEF Line
<1>4. NothingLost'
  BY <1>1, <1>2 DEF NothingLost
<1>5. /\ link' \in {"down", "up"}
      /\ joined' \in [Venues -> {"no", "asked", "acked", "kicked"}]
      /\ subs' \in [Venues -> Nat]
  <2>1. CASE Connect
    BY <1>1, <2>1 DEF Connect, FeedType
  <2>2. ASSUME NEW v \in Venues, Ack(v) \/ SendBook(v)
        PROVE  /\ link' = link /\ subs' = subs
               /\ joined' = joined \/ joined' = [joined EXCEPT ![v] = "acked"]
    BY <2>2 DEF Ack, SendBook
  <2>3. ASSUME NEW v \in Venues, Kick(v)
        PROVE  /\ link' = link /\ subs' = [subs EXCEPT ![v] = 0]
               /\ joined' = [joined EXCEPT ![v] = "kicked"]
    BY <2>3 DEF Kick
  <2>4. /\ link \in {"down", "up"} /\ subs \in [Venues -> Nat]
        /\ joined \in [Venues -> {"no", "asked", "acked", "kicked"}]
    BY <1>1 DEF FeedType
  <2>5. CASE \E v \in Venues : Ack(v) \/ SendBook(v)
    BY <2>2, <2>4, <2>5
  <2>6. CASE \E v \in Venues : Kick(v)
    BY <2>3, <2>4, <2>6
  <2>7. QED  BY <2>1, <2>5, <2>6
<1>6. used' = used \/ \E b \in BoundNames : Spend(b)
  BY DEF Connect, Ack, SendBook, Kick, BoundNames
<1>7. FeedType'
  <2>1. /\ used' \in [BoundNames -> Nat]
        /\ \A b \in BoundNames : used'[b] <= Bounds[b]
    <3>1. CASE used' = used
      BY <1>1, <3>1 DEF FeedType
    <3>2. CASE \E b \in BoundNames : Spend(b)
      BY <1>1, <3>2, Spent
    <3>3. QED  BY <1>6, <3>1, <3>2
  <2>2. QED  BY <1>1, <1>2, <1>5, <2>1 DEF FeedType
<1>8. CASE Connect
  <2>1. /\ InboxType' /\ DOMAIN inbox' = {1, 2}
        /\ inbox'[1].kind = "open" /\ inbox'[2].kind = "hello" /\ Spend("opens")
    BY <1>8, Greeting DEF Connect
  <2>2. used'["ticks"] = used["ticks"]
    BY <1>1, <2>1, Spent DEF BoundNames
  <2>3. OrderInv'
    BY <1>1, <1>3, <2>1, <2>2, GreetingOrder
  <2>4. SessionInv'
    BY <1>1, <1>8, ConnectSession
  <2>5. QED  BY <1>4, <1>7, <2>1, <2>3, <2>4 DEF Inv
<1>9. ASSUME NEW v \in Venues, Ack(v)
      PROVE  Inv'
  <2>1. InboxType' /\ SessionInv'
    BY <1>1, <1>9, AckKept
  <2>2. /\ Deliver("ack", v) /\ "ack" \in Kinds /\ v \in Nat
        /\ used' = used \/ Spend("odd")
    BY <1>9 DEF Ack, Kinds, Venues
  <2>3. used'["ticks"] = used["ticks"]
    BY <1>1, <2>2, Spent DEF BoundNames
  <2>4. OrderInv'
    BY <1>1, <1>3, <2>2, <2>3, DeliverOrder
  <2>5. QED  BY <1>4, <1>7, <2>1, <2>4 DEF Inv
<1>10. ASSUME NEW v \in Venues, SendBook(v)
       PROVE  Inv'
  <2>1. /\ InboxType' /\ SessionInv' /\ {"tick", "junk", "bad"} \subseteq Kinds
        /\ used["ticks"] + 1 \in Nat
        /\ Spend("ticks") => used["ticks"] + 1 \in Ticks
    BY <1>1, <1>10, BookKept
  <2>2. CASE Spend("ticks") /\ Deliver("tick", used["ticks"] + 1)
    <3>1. used'["ticks"] = used["ticks"] + 1
      BY <1>1, <2>2, Spent DEF BoundNames
    <3>2. OrderInv'
      BY <1>1, <1>3, <2>1, <2>2, <3>1, DeliverOrder
    <3>3. QED  BY <1>4, <1>7, <2>1, <3>2 DEF Inv
  <2>3. ASSUME NEW kind \in {"junk", "bad"}, Spend("odd") /\ Deliver(kind, 0)
        PROVE  Inv'
    <3>1. used'["ticks"] = used["ticks"]
      BY <1>1, <2>3, Spent DEF BoundNames
    <3>2. OrderInv'
      BY <1>1, <1>3, <2>1, <2>3, <3>1, DeliverOrder
    <3>3. QED  BY <1>4, <1>7, <2>1, <3>2 DEF Inv
  <2>4. QED  BY <1>10, <2>2, <2>3 DEF SendBook
<1>11. ASSUME NEW v \in Venues, Kick(v)
       PROVE  Inv'
  <2>1. InboxType' /\ SessionInv'
    BY <1>1, <1>11, KickKept
  <2>2. /\ Deliver("kick", 0) /\ "kick" \in Kinds /\ Spend("odd")
    BY <1>11 DEF Kick, Kinds
  <2>3. used'["ticks"] = used["ticks"]
    BY <1>1, <2>2, Spent DEF BoundNames
  <2>4. OrderInv'
    BY <1>1, <1>3, <2>2, <2>3, DeliverOrder
  <2>5. QED  BY <1>4, <1>7, <2>1, <2>4 DEF Inv
<1>12. QED  BY <1>8, <1>9, <1>10, <1>11
-----------------------------------------------------------------------------
LEMMA Initially ==
    ASSUME Init
    PROVE  Inv
<1>1. /\ DOMAIN inbox = {} /\ inbox = <<>> /\ Line = <<>> /\ DOMAIN Line = {}
  <2>1. inbox = <<>> /\ processed = <<>> /\ queue = <<>> /\ pushing = <<>>
    BY DEF Init, Ring!Init
  <2>2. (<<>> \o <<>>) \o <<>> = <<>>
    OBVIOUS
  <2>3. QED  BY <2>1, <2>2 DEF Line
<1>2. InboxType
  BY <1>1, EmptySeq DEF InboxType
<1>3. SessionInv
  BY <1>1 DEF Init, SessionInv
<1>4. OrderInv
  BY <1>1 DEF OrderInv, Increasing
<1>5. NothingLost
  <2>1. accepted = <<>>
    BY DEF Init
  <2>2. QED  BY <1>1, <2>1 DEF NothingLost, Line
<1>6. FeedType
  <2>1. <<>> \in Seq(Ticks) /\ Len(<<>>) = 0
    BY EmptySeq
  <2>2. /\ DOMAIN Bounds = BoundNames /\ N \in Nat
        /\ \A b \in BoundNames : Bounds[b] \in Nat
    BY Constants
  <2>3. /\ queue = <<>> /\ processed = <<>> /\ pushing = <<>> /\ accepted = <<>> /\ tick = 0
    BY DEF Init, Ring!Init
  <2>4. used = [b \in BoundNames |-> 0]
    BY <2>2, Zenon DEF Init
  <2>5. used \in [BoundNames -> Nat] /\ \A b \in BoundNames : used[b] <= Bounds[b]
    BY <2>2, <2>4
  <2>6. /\ running = TRUE /\ full = FALSE /\ epc = "loop" /\ busy = FALSE /\ link = "down"
        /\ ready = [v \in Venues |-> FALSE] /\ joined = [v \in Venues |-> "no"]
        /\ subs = [v \in Venues |-> 0] /\ thread = [t \in {"ws", "ou"} |-> "run"]
    BY DEF Init
  <2>7. /\ ready \in [Venues -> BOOLEAN] /\ subs \in [Venues -> Nat]
        /\ joined \in [Venues -> {"no", "asked", "acked", "kicked"}]
    BY <2>6
  <2>8. thread \in [{"ws", "ou"} -> {"run", "stopping", "stopped"}]
    BY <2>6
  <2>9. /\ queue \in Seq(Ticks) /\ Len(queue) <= N /\ tick \in Ticks \cup {0}
        /\ pushing \in Seq(Ticks) /\ Len(pushing) <= 1
        /\ accepted \in Seq(Ticks) /\ processed \in Seq(Ticks)
    BY <2>1, <2>2, <2>3
  <2>10. QED  BY <2>5, <2>6, <2>7, <2>8, <2>9 DEF FeedType
<1>7. QED  BY <1>2, <1>3, <1>4, <1>5, <1>6 DEF Inv

LEMMA Step ==
    ASSUME Inv, [Next]_vars
    PROVE  Inv'
<1>1. CASE Callback
  BY <1>1, SessionSteps, LostSteps, TakeStep, PushSteps DEF Callback
<1>2. CASE Main
  BY <1>2, ProcessStep, ShutdownSteps DEF Main, EngineTick, DrainTick
<1>3. CASE Threads
  BY <1>3, LostSteps, ShutdownSteps DEF Threads
<1>4. CASE Environment
  BY <1>4, LostSteps, ShutdownSteps, ServerSteps DEF Environment
<1>5. CASE UNCHANGED vars
  <2>1. UNCHANGED <<running, ready, pushing, full, queue, tick, epc, busy, thread, link, inbox,
                    joined, subs, used, accepted, processed>>
    BY <1>5 DEF vars
  <2>2. QED
    BY <2>1 DEF Inv, FeedType, InboxType, SessionInv, OrderInv, NothingLost, Line
<1>6. CASE TickReturns
  BY <1>6, ShutdownSteps
<1>7. QED  BY <1>1, <1>2, <1>3, <1>4, <1>5, <1>6 DEF Next

LEMMA Invariant == Spec => []Inv
BY Initially, Step, PTL DEF Spec

\* Every variable of the live feed keeps its type: the ring never holds more
\* than its N slots and the callback never more than one book.
THEOREM TypeCorrect == Spec => []TypeOK
<1>1. Inv => TypeOK
  <2>1. SUFFICES ASSUME Inv PROVE TypeOK
    OBVIOUS
  <2>2. FeedType
    BY <2>1 DEF Inv
  <2>3. subs \in [Venues -> 0 .. 1 + MaxOdd]
    <3>1. \A v \in Venues : subs[v] \in {0, 1}
      BY <2>1 DEF Inv, SessionInv
    <3>2. MaxOdd \in Nat
      BY Constants
    <3>3. \A v \in Venues : subs[v] \in 0 .. (1 + MaxOdd)
      BY <3>1, <3>2
    <3>4. subs \in [Venues -> Nat]
      BY <2>2 DEF FeedType
    <3>5. QED  BY <3>3, <3>4
  <2>4. \A t \in {"ws", "ou"} : thread[t] \in {"run", "stopping", "stopped"}
    BY <2>2 DEF FeedType
  <2>5. \A b \in DOMAIN Bounds : used[b] \in 0 .. Bounds[b]
    <3>1. SUFFICES ASSUME NEW b \in BoundNames PROVE used[b] \in 0 .. Bounds[b]
      BY DEF Bounds, BoundNames
    <3>2. used[b] \in Nat /\ used[b] <= Bounds[b] /\ Bounds[b] \in Nat
      BY <2>2, Constants DEF FeedType
    <3>3. QED  BY <3>2
  <2>6. QED  BY <2>2, <2>3, <2>4, <2>5 DEF FeedType, TypeOK
<1>2. QED  BY <1>1, Invariant, PTL

\* As long as the process runs, every order book the callback took is handed to
\* process_tick() once, in the order it came, or waits in the ring or at it:
\* for any ring, across full rings and reconnections.
THEOREM NoBookIsLost == Spec => []NothingLost
<1>1. Inv => NothingLost
  BY DEF Inv
<1>2. QED  BY <1>1, Invariant, PTL

\* What is handed over comes in the order it arrived, also while the process
\* shuts down and gives books up.
THEOREM BooksStayInOrder == Spec => []StaysInOrder
<1>1. Inv => StaysInOrder
  <2>1. SUFFICES ASSUME Inv PROVE StaysInOrder
    OBVIOUS
  <2>2. Line \in Seq(Ticks) /\ Increasing(Line)
    BY <2>1, LineOfType, LineIsSeq DEF Inv, OrderInv
  <2>3. DOMAIN Line = 1 .. Len(Line)
    BY <2>2, LenProperties
  <2>4. \A i, j \in 1 .. Len(Line) : i < j => Line[i] < Line[j]
    BY <2>2, <2>3 DEF Increasing
  <2>5. QED  BY <2>4, Zenon DEF StaysInOrder, Line
<1>2. QED  BY <1>1, Invariant, PTL

\* However often an ack is repeated and the connection lost, a namespace is
\* subscribed at most once on a connection, and what the callback believes of
\* it is true at the server unless that disconnected it.
THEOREM OneSubscription == Spec => []SubscribedOnce
<1>1. Inv => SubscribedOnce
  BY DEF Inv, SessionInv, SubscribedOnce
<1>2. QED  BY <1>1, Invariant, PTL
=============================================================================
