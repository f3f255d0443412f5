------------------------------- MODULE MCWire -------------------------------
(* Values at the edges of every format. *)
EXTENDS Wire

Bytes(n, x) == [i \in 1 .. n |-> x]
Key(x) == <<2>> \o Bytes(32, x)

U64Max == [i \in 1 .. 10 |-> IF i = 10 THEN 1 ELSE 127]
U128(n) == Bytes(14, 0) \o <<n \div 256, n % 256>>
U128Max == Bytes(16, 255)

Sats == {[kind |-> "sats", amount |-> a] :
           a \in {Digits(n, 10) : n \in {0, 127, 128, 16384, 2147483647}} \cup {U64Max}}
Tokens == {[kind |-> "tokens", token |-> Bytes(32, 26), amount |-> a] :
             a \in {U128(0), U128(1), U128(256), U128Max}}

Expiries == {None, Some([seconds |-> Digits(0, 10), nanos |-> 0]),
             Some([seconds |-> Digits(1700000000, 10), nanos |-> 0]),
             Some([seconds |-> U64Max, nanos |-> 999999999])}

Invoice(v, p, m, s, e) == [version |-> v, id |-> Bytes(16, 255), payment |-> p,
                           memo |-> m, sender |-> s, expiry |-> e]

Invoices == {Invoice(1, p, None, None, None) : p \in Sats \cup Tokens}
            \cup {Invoice(128, p, m, s, e) : p \in {[kind |-> "sats", amount |-> Digits(128, 10)]},
                    m \in {None, Some(<< >>), Some(Bytes(130, 26))}, s \in {None, Some(Key(18))},
                    e \in Expiries}

Address(k, n, i, s) == [key |-> k, network |-> n, invoice |-> i, signature |-> s]

MCAddresses ==
  {Address(Key(7), n, None, s) : n \in {"Mainnet", "Testnet", "Signet", "Regtest", "Local"},
     s \in {None, Some(Bytes(64, 26)), Some(<< >>)}}
  \cup {Address(Key(18), "Regtest", Some(i), s) : i \in Invoices, s \in {None, Some(Bytes(3, 18))}}
  \cup {Address(Bytes(32, 2), "Mainnet", None, None)}

Meta(nm, sym, sup, c, net) == [issuer |-> Key(9), name |-> nm, symbol |-> sym, decimal |-> 255,
                               supply |-> sup, freezable |-> c # None, creator |-> c, network |-> net]

MCMetadata ==
  {Meta(Bytes(n, 65), Bytes(s, 66), U128(300), c, "Regtest") :
     n \in {0, 2, 3, 20, 21}, s \in {2, 3, 6, 7}, c \in {None, Some(Key(1))}}
  \cup {Meta(Bytes(3, 65), Bytes(3, 66), sup, None, n) : sup \in {U128(0), U128Max}, n \in Networks}

MCIdentifiers == {Bytes(32, 0), Bytes(32, 255)}

(* Field 8 as varint, fixed 64, length-delimited and fixed 32. *)
MCNewFields == {<<64>> \o WriteVarint(U64Max), <<65>> \o Bytes(8, 34), <<66>> \o LenPrefixed(Bytes(5, 8)),
                <<69>> \o Bytes(4, 18)}
=============================================================================
