----------------------------- MODULE MarketState -----------------------------
(* The newest book of every venue and pair, and the index under which the  *)
(* whole program files what belongs to a venue and a pair.                 *)
EXTENDS Integers

CONSTANT PAIRS_PER_VENUE

ASSUME MarketAssumption == PAIRS_PER_VENUE \in Nat \ {0}

Indices == 0 .. 2 * PAIRS_PER_VENUE - 1

EmptySlot == [bid |-> 0, ask |-> 0, bid_qty |-> 0, ask_qty |-> 0, ts |-> 0, ets |-> 0]

\* A venue or a pair that does not exist is clamped to the first one.
map_to_index(venue, pair) ==
    (IF venue \in {1, 2} THEN venue - 1 ELSE 0) * PAIRS_PER_VENUE
      + (IF pair < PAIRS_PER_VENUE THEN pair ELSE 0)

ValidTick(t) == t.venue \in {1, 2} /\ t.pair < PAIRS_PER_VENUE

Updated(st, t) ==
    [st EXCEPT ![map_to_index(t.venue, t.pair)] =
       [bid |-> t.bid, ask |-> t.ask, bid_qty |-> t.bid_qty,
        ask_qty |-> t.ask_qty, ts |-> t.ts, ets |-> t.ets]]
=============================================================================
