---------------------------- MODULE MCTransfers ----------------------------
(* Two players, two hubs with room for one of them each, and a session.     *)
EXTENDS Transfers
=============================================================================
