---------------------------- MODULE MCSharePool ----------------------------
(* Instance of SharePool for TLC: two requests of one user for one rune,    *)
(* through both handlers; the second amount does not fit once it is scaled. *)
EXTENDS SharePool

CONSTANTS alice, rune

MCRequests ==
  {[id |-> 1, kind |-> "btc", user |-> alice, rune |-> rune, amount |-> 3],
   [id |-> 2, kind |-> "spark", user |-> alice, rune |-> rune, amount |-> 20]}
=============================================================================
