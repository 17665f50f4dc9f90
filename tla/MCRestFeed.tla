----------------------------- MODULE MCRestFeed -----------------------------
(* RestFeed on a small instance.                                           *)
EXTENDS RestFeed
=============================================================================
