----------------------------- MODULE MCSpscRing -----------------------------
(* SpscRing on a small instance, and the bugs its properties are meant to  *)
(* exclude.                                                                *)
EXTENDS SpscRing
=============================================================================
