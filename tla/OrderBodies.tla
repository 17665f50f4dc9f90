---------------------------- MODULE OrderBodies ----------------------------
(* The order bodies of order_builder.hpp, as operators: a template per     *)
(* venue and pair names a symbol and a side and has two fields of Width    *)
(* characters, into which price and quantity are written digit by digit.   *)
(*                                                                         *)
(* A number is an integer count of units of 10^-Places; a character is a   *)
(* digit or Dot.  The rounding of floats is not modelled, the digits that  *)
(* are cut off are.                                                        *)
EXTENDS MarketState, Sequences

CONSTANTS
    Width,      \* PRICE_WIDTH, QTY_WIDTH: 14 in the code
    TmpLen,     \* integer digits fast_ftoa() has room for: 12 in the code
    Decimals,   \* decimals asked of fast_ftoa(): 8 in the code
    Places      \* decimals a number of the model has

ASSUME BodyAssumption ==
    /\ Width \in Nat \ {0} /\ TmpLen \in Nat \ {0} /\ Decimals \in Nat \ {0}
    /\ Places \in Nat /\ Places >= Decimals

\* 10^k, as a recursive function so that facts about it can be proved.
Pow10(k) ==
    LET power[i \in 0 .. k] == IF i = 0 THEN 1 ELSE 10 * power[i - 1]
    IN  power[k]

Scale == Pow10(Places)
Dot == 10

\* The digits of a natural number, the first one first.
Digits(n) ==
    LET len == CHOOSE k \in 1 .. TmpLen : n < Pow10(k) /\ (k = 1 \/ n >= Pow10(k - 1))
    IN  [i \in 1 .. len |-> (n \div Pow10(len - i)) % 10]

\* The integer digits find room: those of a uint32_t are 10 at most.
Writable(v) == v \div Scale < Pow10(TmpLen) /\ v \div Scale < Pow10(Width)

\* As many of the integer digits, the point and the decimals as fit.
fast_ftoa(v) ==
    LET text == Digits(v \div Scale) \o <<Dot>>
                  \o [i \in 1 .. Decimals |-> (v \div Pow10(Places - i)) % 10]
    IN  IF v < 0 THEN <<>>
        ELSE SubSeq(text, 1, IF Len(text) < Width THEN Len(text) ELSE Width)

init_template(pair, venue, symbol, side) ==
    LET zeros == [i \in 1 .. Width |-> 0]
    IN  [pair |-> pair, venue |-> venue, symbol |-> symbol, side |-> side,
         price |-> zeros, qty |-> zeros]

\* Bug: what an earlier, longer number left in the field stays.
Written_NoPad(field, v) ==
    LET text == fast_ftoa(v)
    IN  [i \in 1 .. Width |-> IF i <= Len(text) THEN text[i] ELSE field[i]]

\* The field after a number was written over what it held.
Written(field, v) ==
    LET text == fast_ftoa(v)
    IN  [i \in 1 .. Width |-> IF i <= Len(text) THEN text[i] ELSE 0]

patch_order(t, price, qty) ==
    [t EXCEPT !.price = Written(@, price), !.qty = Written(@, qty)]
-----------------------------------------------------------------------------
(* What the exchange makes of a field.                                     *)

\* Digits before the point, all of the field if there is none.
IntLen(field) ==
    IF \E i \in DOMAIN field : field[i] = Dot
    THEN (CHOOSE i \in DOMAIN field : field[i] = Dot) - 1 ELSE Len(field)

Number(digits) ==
    LET upto[i \in 0 .. Len(digits)] ==
          IF i = 0 THEN 0 ELSE 10 * upto[i - 1] + digits[i]
    IN  upto[Len(digits)]

\* The number a field reads as, in units of 10^-Places.
Value(field) ==
    LET k    == IntLen(field)
        frac == SubSeq(field, k + 2, Len(field))
    IN  Number(SubSeq(field, 1, k)) * Scale
          + (Number(frac) * Scale) \div Pow10(Len(frac))

\* What a field tells of a number: it is cut off, not rounded.  All Decimals of
\* it are there if it has at most Width - Decimals - 1 integer digits, 5 in the
\* code; of a longer one the field only has the decimals that find room, 7 with
\* the 6 integer digits that init_template() calls sufficient.
ReadsBack(field, v) ==
    LET digits == Len(Digits(v \div Scale))
        lost   == v - Value(field)
    IN  IF digits <= Width - Decimals - 1
        THEN lost = v % Pow10(Places - Decimals)
        ELSE lost = v % Pow10(Places - (IF digits < Width THEN Width - digits - 1 ELSE 0))
=============================================================================
