--------------------------- MODULE MCRunesBridge ---------------------------
(* Instances of RunesBridge for TLC.                                        *)
EXTENDS RunesBridge

TheRune == CHOOSE r \in Runes : TRUE

\* No rune has its token yet, or the first one has.
NoTokens == [s \in Shares |-> None]
TokenExists == [s \in Shares |-> IF s = 1 THEN TheRune ELSE None]

\* Every rune is the rune of some address.
MCRuneOf == CHOOSE f \in [Addrs -> Runes] : \A r \in Runes : \E a \in Addrs : f[a] = r
=============================================================================
