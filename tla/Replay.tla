------------------------------- MODULE Replay -------------------------------
(* One run of the backtester, from its arguments to its exit code: the     *)
(* configuration is loaded, the tick file opened, the trade buffer         *)
(* allocated, templates and ledger are set up, every tick of the file goes *)
(* through process_tick(), and what was taken is given back.               *)
(*                                                                         *)
(* A symbol is its position in the configuration.  What process_tick()     *)
(* decides on a tick is a choice here, within what the ledger's seeds and  *)
(* its validation leave open; HotPath and Backtest say how it decides.     *)
EXTENDS FileSource, OrderBodies, FiniteSets

CONSTANTS
    Mod16,      \* modulus of a uint16_t
    Configs,    \* bound: pair ids of the configured symbols, as in the file
    Prices,     \* bound: prices of an order, buying below selling
    Quantities  \* bound: quantities of an order

ASSUME ReplayAssumption ==
    /\ Mod16 \in Nat /\ PAIRS_PER_VENUE < Mod16
    /\ \A c \in Configs : c \in Seq(Nat)
    /\ Prices \subseteq Nat /\ Quantities \subseteq Nat \ {0}
    /\ \A v \in Prices \cup Quantities : Writable(v)

VARIABLES
    pc,             \* main: what it does next
    exit_code,
    json,           \* external: the "symbols" of the configuration file
    symbols,        \* Config::symbols[0 .. symbol_count): pair ids
    trade_buf,      \* whether the trade buffer is allocated
    coin,           \* pairs whose coin_balance was seeded
    buy_templates, sell_templates,
    next,           \* position of the next tick
    order           \* the order of the last tick, a set

config == <<json, symbols>>
setup == <<trade_buf, coin>>
templates == <<buy_templates, sell_templates>>
vars == <<file, pc, exit_code, config, setup, templates, next, order>>

Pairs == 0 .. PAIRS_PER_VENUE - 1

\* An array element nobody has initialised yet.
Garbage == init_template(0, 0, 0, "none")

Init ==
    /\ FileInit
    /\ pc = "config" /\ exit_code = "none"
    /\ json \in Configs /\ symbols = <<>>
    /\ trade_buf = FALSE /\ coin = {}
    /\ buy_templates = [i \in Indices |-> Garbage]
    /\ sell_templates = [i \in Indices |-> Garbage]
    /\ next = 0 /\ order = {}
-----------------------------------------------------------------------------
\* return EXIT_FAILURE: the destructors of what exists by then run.
Fail ==
    /\ pc' = "exit" /\ exit_code' = "failure"

Loaded(c) ==
    [i \in 1 .. Len(c) % Mod16 |-> c[i] % Mod16]

\* Bug: one symbol too many is let through.
Fits_OffByOne(n) == n <= PAIRS_PER_VENUE + 1

Fits(n) == n <= PAIRS_PER_VENUE

\* load_config(): the number of symbols and each pair id are narrowed to 16
\* bits; an unreadable file, a missing key or too many symbols throw.
LoadConfig ==
    /\ pc = "config"
    /\ \/ /\ Fits(Len(json) % Mod16)
          /\ symbols' = Loaded(json) /\ pc' = "open"
          /\ UNCHANGED exit_code
       \/ Fail /\ UNCHANGED symbols
    /\ UNCHANGED <<file, json, setup, templates, next, order>>

OpenStep ==
    /\ pc = "open" /\ Open
    /\ UNCHANGED <<pc, exit_code, config, setup, templates, next, order>>

\* open() returned false; src goes out of scope.
OpenFailed ==
    /\ pc = "open" /\ fpc = "failed"
    /\ Fail /\ close
    /\ UNCHANGED <<config, setup, templates, next, order>>

Allocate ==
    /\ pc = "open" /\ fpc = "opened"
    /\ \/ /\ trade_buf' = TRUE /\ pc' = "setup"
          /\ UNCHANGED <<exit_code, file>>
       \/ Fail /\ close /\ UNCHANGED trade_buf
    /\ UNCHANGED <<config, coin, templates, next, order>>

\* The symbols whose templates are at the index of pair p, of either venue.
Owners(p) == {k \in DOMAIN symbols : map_to_index(1, symbols[k]) = p}

LastOf(S) == CHOOSE k \in S : \A l \in S : l <= k

\* Bug: the templates are filed by the position of the symbol.
Template_ByPosition(old, i, side) ==
    LET v == i \div PAIRS_PER_VENUE + 1
        k == (i % PAIRS_PER_VENUE) + 1
    IN  IF k \in DOMAIN symbols THEN init_template(symbols[k], v, k, side) ELSE old

\* What init_all_templates() leaves at an index: a later symbol overwrites an
\* earlier one.
Template(old, i, side) ==
    LET v == i \div PAIRS_PER_VENUE + 1
        S == Owners(i % PAIRS_PER_VENUE)
    IN  IF S = {} THEN old
        ELSE init_template(symbols[LastOf(S)], v, LastOf(S), side)

\* Bug: every configured pair id is seeded, also one that does not exist.
Seeded_NoGuard == {symbols[k] : k \in DOMAIN symbols}

\* seed_base() ignores a pair that does not exist.
Seeded == {p \in Pairs : \E k \in DOMAIN symbols : symbols[k] = p}

SetUp ==
    /\ pc = "setup"
    /\ buy_templates' = [i \in Indices |-> Template(buy_templates[i], i, "BUY")]
    /\ sell_templates' = [i \in Indices |-> Template(sell_templates[i], i, "SELL")]
    /\ coin' = Seeded
    /\ pc' = "loop"
    /\ UNCHANGED <<file, exit_code, config, trade_buf, next, order>>
-----------------------------------------------------------------------------
\* process_tick() sends nothing: a gate is closed, or the tick is invalid.
QuietTick ==
    /\ pc = "loop" /\ next < count
    /\ next' = next + 1 /\ order' = {}
    /\ UNCHANGED <<file, pc, exit_code, config, setup, templates>>

\* An order of the tick's pair, which needs coin to sell; its two templates
\* are patched in place.
FireTick(p, v, bp, sp, q) ==
    /\ pc = "loop" /\ next < count
    /\ p \in coin /\ bp < sp
    /\ buy_templates' = [buy_templates EXCEPT ![map_to_index(v, p)] =
                           patch_order(@, bp, q)]
    /\ sell_templates' = [sell_templates EXCEPT ![map_to_index(3 - v, p)] =
                            patch_order(@, sp, q)]
    /\ order' = {[pair |-> p, buy_venue |-> v, sell_venue |-> 3 - v,
                  buy_price |-> bp, sell_price |-> sp, qty |-> q]}
    /\ next' = next + 1
    /\ UNCHANGED <<file, pc, exit_code, config, setup>>

\* After the reports the buffer is deleted and src closed by its destructor.
Finish ==
    /\ pc = "loop" /\ next = count
    /\ trade_buf' = FALSE /\ close
    /\ pc' = "exit" /\ exit_code' = "success"
    /\ UNCHANGED <<config, coin, templates, next, order>>

Next ==
    \/ LoadConfig \/ OpenStep \/ OpenFailed \/ Allocate \/ SetUp
    \/ QuietTick
    \/ \E p \in Pairs, v \in {1, 2}, bp, sp \in Prices, q \in Quantities :
         FireTick(p, v, bp, sp, q)
    \/ Finish

Spec == Init /\ [][Next]_vars
-----------------------------------------------------------------------------
\* Every variable keeps its type.
TypeOK ==
    /\ fpc \in {"new", "stat", "size", "map", "opened", "failed"}
    /\ fd_ \in {NoFd, Fd} /\ mapped_ \in BOOLEAN /\ file_size_ \in {0, size}
    /\ descriptors \subseteq {Fd} /\ mapping \in {0, size}
    /\ pc \in {"config", "open", "setup", "loop", "exit"}
    /\ exit_code \in {"none", "success", "failure"}
    /\ trade_buf \in BOOLEAN /\ coin \subseteq Pairs
    /\ \A i \in Indices :
         /\ DOMAIN buy_templates[i] = DOMAIN Garbage
         /\ DOMAIN sell_templates[i] = DOMAIN Garbage
    /\ next \in 0 .. size \div RecordSize

\* However the program ends, whatever call failed on the way, the descriptor
\* is closed, every mapped byte unmapped and the buffer freed; and it reports
\* success exactly when every record of the file was replayed.
CleanExit ==
    pc = "exit" =>
      /\ descriptors = {} /\ mapping = 0 /\ ~trade_buf
      /\ exit_code = "success" <=> next * RecordSize = size /\ size > 0

\* The symbols are never read or written past the array, and a configuration
\* that is accepted is loaded whole, unless the number of its symbols does not
\* fit 16 bits.
CapacityRespected ==
    /\ Len(symbols) <= PAIRS_PER_VENUE
    /\ pc \in {"setup", "loop"} /\ Len(json) < Mod16 => Len(symbols) = Len(json)

\* pair_name(): the symbol the trade log gives to a pair; 0 is "???".
pair_name(p) ==
    LET S == {k \in DOMAIN symbols : symbols[k] = p}
    IN  IF S = {} THEN 0 ELSE CHOOSE k \in S : \A l \in S : k <= l

\* Both bodies of an order were initialised, name the same symbol and their own
\* side and venue.  The symbol is one configured for the order's pair, or one
\* whose pair id is out of range and was clamped to 0; when only one symbol
\* claims the pair it is also the one the trade log will name.
OrderNamesItsPair ==
    \A r \in order :
      LET b == buy_templates[map_to_index(r.buy_venue, r.pair)]
          s == sell_templates[map_to_index(r.sell_venue, r.pair)]
      IN  /\ b.symbol \in DOMAIN symbols /\ s.symbol = b.symbol
          /\ b.side = "BUY" /\ b.venue = r.buy_venue
          /\ s.side = "SELL" /\ s.venue = r.sell_venue
          /\ \/ symbols[b.symbol] = r.pair
             \/ symbols[b.symbol] >= PAIRS_PER_VENUE /\ r.pair = 0
          /\ Cardinality(Owners(r.pair)) = 1 => b.symbol = pair_name(r.pair)

\* The text of an order says what the ledger was booked with, whatever was
\* written into the field before: to the last decimal that is kept when the
\* integer digits leave room for all of them, and exactly short of the others
\* when they do not.
BodyReadsBack ==
    \A r \in order :
      LET b == buy_templates[map_to_index(r.buy_venue, r.pair)]
          s == sell_templates[map_to_index(r.sell_venue, r.pair)]
      IN  /\ ReadsBack(b.price, r.buy_price) /\ ReadsBack(b.qty, r.qty)
          /\ ReadsBack(s.price, r.sell_price) /\ ReadsBack(s.qty, r.qty)
=============================================================================
