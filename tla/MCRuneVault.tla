---------------------------- MODULE MCRuneVault ----------------------------
(* Instances of RuneVault for TLC.                                         *)
EXTENDS RuneVault

\* Deposits of 1 and 2 and exits of 2: an exit needs one or both.
OneAndTwo == [d \in Deposits |-> IF d = CHOOSE e \in Deposits : TRUE THEN 1 ELSE 2]
AllTwos == [d \in Deposits |-> 2]
ExitOne == [x \in Exits |-> 1]
ExitTwo == [x \in Exits |-> 2]
=============================================================================
