---------------------------- MODULE MCBtcWatch -----------------------------
(* Instance of BtcWatch for TLC: the deposit may pay its fee on Bitcoin.    *)
EXTENDS BtcWatch, TLC

CONSTANTS d1, f1
PaysFee == d1 :> f1
=============================================================================
