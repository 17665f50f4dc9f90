----------------------------- MODULE RunningSums -----------------------------
(* What a loop that adds up the numbers of a sequence has after each turn, *)
(* as a recursive function, so that facts about it can be proved.          *)
EXTENDS Integers, Sequences

RunningSum(s) ==
    LET sum[i \in 0 .. Len(s)] == IF i = 0 THEN 0 ELSE sum[i - 1] + s[i]
    IN  sum

Total(s) == RunningSum(s)[Len(s)]
=============================================================================
