------------------------------ MODULE MCTokenTx ------------------------------
(* Requests of every kind, and transactions that differ in one field. *)
EXTENDS TokenTx

Config(n, d, s) == [rune |-> "840000:1", name |-> n, divisibility |-> d, supply |-> s]

Request(k, c, net, snd, rcv, change) ==
  [kind |-> k, config |-> c, network |-> net, sender |-> snd, receiver |-> rcv, amount |-> 5,
   change |-> change, spends |-> <<[hash |-> <<"id32", 1>>, index |-> 0]>>]

MCRequests ==
  {Request(k, Config(n, d, s), net, snd, rcv, change) :
     k \in {"Mint", "Create"}, n \in {None, Some("DOG")}, d \in {None, Some(5)}, s \in {None, Some(7)},
     net \in {"Bitcoin", "Testnet", "Regtest", "Signet"}, snd \in {None}, rcv \in {None, Some(4)}, change \in {0}}
  \cup {Request("Transfer", Config(None, None, None), "Regtest", snd, rcv, change) :
     snd \in {None, Some(3)}, rcv \in {None, Some(4)}, change \in {0, 2}}

MCOperators == <<6, 5>>

MCExpiries == [seconds : {5}, nanos : {0, 500000000}]

Token == <<"id32", 7>>
Leaf(id, rev, bond) == [id |-> id, owner |-> 4, revocation |-> rev, token |-> Token, amount |-> 5,
                        bond |-> bond, lock |-> Some(1000)]
Spend(i) == [hash |-> <<"id32", 9>>, index |-> i]

Inputs == {[kind |-> "Mint", issuer |-> 2, token |-> t] : t \in {None, Some(Token)}}
          \cup {[kind |-> "Transfer", spends |-> s] : s \in {<< >>, <<Spend(0)>>, <<Spend(1), Spend(0)>>}}
          \cup {[kind |-> "Create", issuer |-> 2, name |-> "DOG", ticker |-> "D", decimals |-> 0,
                 supply |-> 7, freezable |-> FALSE, creator |-> c] : c \in {None, Some(99)}}

Base(v, in) == [version |-> v, input |-> in, leaves |-> <<Leaf(None, 4, Some(10000))>>,
                operators |-> <<1, 2>>, expiry |-> 5, network |-> Some(2), created |-> 1500,
                invoices |-> << >>]

Att(i, t) == [id |-> i, text |-> t]

Variants(b) ==
  {b, [b EXCEPT !.operators = <<2, 1>>], [b EXCEPT !.operators = <<1>>],
   [b EXCEPT !.expiry = 0], [b EXCEPT !.network = None], [b EXCEPT !.created = 1501],
   [b EXCEPT !.leaves = << >>], [b EXCEPT !.leaves = <<Leaf(Some("uuid"), 4, Some(10000))>>],
   [b EXCEPT !.leaves = <<Leaf(Some(""), 4, Some(10000))>>],
   [b EXCEPT !.leaves = <<Leaf(None, 77, Some(10000))>>], [b EXCEPT !.leaves = <<Leaf(None, 4, Some(0))>>],
   [b EXCEPT !.leaves = <<Leaf(None, 4, None)>>],
   [b EXCEPT !.invoices = <<Att(1, 20), Att(2, 10)>>], [b EXCEPT !.invoices = <<Att(2, 10), Att(1, 20)>>],
   [b EXCEPT !.invoices = <<Att(1, 20)>>]}

MCTransactions == UNION {Variants(Base(v, in)) : v \in 0 .. 3, in \in Inputs}
=============================================================================
