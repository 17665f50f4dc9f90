------------------------------ MODULE MCWsFeed ------------------------------
(* WsFeed on a small instance: a ring of one slot, so that two order books  *)
(* meet a full ring, and one reconnection.                                  *)
EXTENDS WsFeed
=============================================================================
