------------------------------ MODULE MCReplay ------------------------------
(* Replay on a small instance: two pairs, so ids from 2 on are out of      *)
(* range, and a uint16_t that wraps at 4.                                  *)
EXTENDS Replay

\* Every configuration of up to three symbols over these ids, and some with
\* more symbols than a uint16_t counts.
MCIds == {0, 1, 2, 4}
MCConfigs ==
    UNION {[1 .. n -> MCIds] : n \in 0 .. 3}
      \cup {<<0, 1, 0, 1>>, <<1, 0, 2, 4, 1>>, <<4, 1, 2, 0, 0, 1>>}

\* In units of 10^-4: more decimals than are kept, two, three and four integer
\* digits, where the field fills up, and a number whose text is short.
MCPrices == {50000, 129999, 4567891, 99999999}
MCQuantities == {1, 20000, 998765}
=============================================================================
