--------------------------- MODULE TokenTx_proofs ---------------------------
(***************************************************************************)
(* What the signers are told they sign is what they sign, the token the    *)
(* bridge computes is the one it creates, and a hash of a transaction      *)
(* binds what it is to bind, for every set of requests, operators, times   *)
(* and transactions.                                                       *)
(*                                                                         *)
(* The last part of the module is about the hashes.  A V1, V2 or V3 hash   *)
(* is that of a stream: its parts are peeled off from the left, a list     *)
(* after its length.  A V4 hash is that of a set of numbered fields: equal *)
(* sets agree in every number.  Lists that are hashed sorted agree when    *)
(* they hold the same.                                                     *)
(***************************************************************************)
EXTENDS TokenTx, FiniteSetTheorems, SequenceTheorems, TLAPS

-----------------------------------------------------------------------------
(* Sorting.                                                                *)

\* The positions before position i in the order of (value, position).
Before(s, i) == {j \in DOMAIN s : s[j] < s[i] \/ (s[j] = s[i] /\ j < i)}

Rank(s, i) == Cardinality(Before(s, i)) + 1

\* A sequence of numbers, spelled out.
LEMMA SeqFacts ==
  ASSUME NEW s \in Seq(Nat)
  PROVE  /\ Len(s) \in Nat /\ DOMAIN s = 1..Len(s) /\ DOMAIN s \subseteq Nat
         /\ s \in [DOMAIN s -> Nat] /\ IsFiniteSet(DOMAIN s)
         /\ Cardinality(DOMAIN s) = Len(s)
<1>1. Len(s) \in Nat /\ DOMAIN s = 1..Len(s)
  OBVIOUS
<1>2. IsFiniteSet(1..Len(s)) /\ Cardinality(1..Len(s)) = Len(s)
  <2>1. 1 \in Int /\ Len(s) \in Int
    BY <1>1
  <2>2. /\ IsFiniteSet(1..Len(s))
        /\ Cardinality(1..Len(s)) = IF 1 > Len(s) THEN 0 ELSE Len(s) - 1 + 1
    BY <2>1, FS_Interval
  <2>3. QED
    BY <1>1, <2>2
<1>3. s \in [DOMAIN s -> Nat]
  BY <1>1
<1>4. QED
  BY <1>1, <1>2, <1>3

\* A rank is a position.
LEMMA RankType ==
  ASSUME NEW s \in Seq(Nat), NEW i \in DOMAIN s
  PROVE  IsFiniteSet(Before(s, i)) /\ Rank(s, i) \in DOMAIN s
<1>1. IsFiniteSet(DOMAIN s \ {i}) /\ Cardinality(DOMAIN s \ {i}) = Len(s) - 1
  BY SeqFacts, FS_RemoveElement
<1>2. Before(s, i) \in SUBSET (DOMAIN s \ {i})
  BY SeqFacts DEF Before
<1>3. IsFiniteSet(Before(s, i)) /\ Cardinality(Before(s, i)) <= Len(s) - 1
  BY <1>1, <1>2, FS_Subset
<1>4. Cardinality(Before(s, i)) \in Nat
  BY <1>3, FS_CardinalityType
<1>5. QED
  BY <1>3, <1>4, SeqFacts DEF Rank

\* What comes before has the smaller rank.
LEMMA RankGrows ==
  ASSUME NEW s \in Seq(Nat), NEW i \in DOMAIN s, NEW j \in DOMAIN s, i \in Before(s, j)
  PROVE  Rank(s, i) < Rank(s, j)
<1>1. s \in [DOMAIN s -> Nat] /\ DOMAIN s \subseteq Nat
  BY SeqFacts
<1>2. Before(s, i) \in SUBSET Before(s, j)
  BY <1>1 DEF Before
<1>3. i \notin Before(s, i)
  BY <1>1 DEF Before
<1>4. IsFiniteSet(Before(s, i)) /\ IsFiniteSet(Before(s, j))
  BY RankType
<1>5. /\ Cardinality(Before(s, i)) <= Cardinality(Before(s, j))
      /\ Cardinality(Before(s, i)) # Cardinality(Before(s, j))
  BY <1>2, <1>3, <1>4, FS_Subset
<1>6. Cardinality(Before(s, i)) \in Nat /\ Cardinality(Before(s, j)) \in Nat
  BY <1>4, FS_CardinalityType
<1>7. QED
  BY <1>5, <1>6 DEF Rank

\* Of two positions one comes before the other.
LEMMA BeforeTotal ==
  ASSUME NEW s \in Seq(Nat), NEW i \in DOMAIN s, NEW j \in DOMAIN s, i # j
  PROVE  i \in Before(s, j) \/ j \in Before(s, i)
BY SeqFacts DEF Before

\* Every sequence of numbers can be put in order.
LEMMA OrderExists ==
  ASSUME NEW s \in Seq(Nat)
  PROVE  \E p : p \in Orders(s)
<1> DEFINE D == DOMAIN s
           rank == [i \in D |-> Rank(s, i)]
           order == [k \in D |-> CHOOSE i \in D : rank[i] = k]
<1>1. D \subseteq Nat /\ IsFiniteSet(D) /\ s \in [D -> Nat]
  BY SeqFacts
<1>2. rank \in [D -> D]
  BY RankType
<1>3. \A i \in D : rank[i] = Rank(s, i)
  OBVIOUS
<1>4. \A i, j \in D : i \in Before(s, j) => rank[i] < rank[j]
  BY <1>3, RankGrows
<1>5. \A i, j \in D : rank[i] = rank[j] => i = j
  BY <1>1, <1>2, <1>4, BeforeTotal
<1> HIDE DEF rank, D
<1>6. rank \in Injection(D, D)
  BY <1>2, <1>5 DEF Injection, IsInjective
<1>7. rank \in Surjection(D, D)
  BY <1>1, <1>6, FS_Injection
<1>8. \A k \in D : \E i \in D : rank[i] = k
  BY <1>7 DEF Surjection
<1>9. \A k \in D : order[k] \in D /\ rank[order[k]] = k
  BY <1>8
<1>10. order \in [D -> D]
  BY <1>9
<1> HIDE DEF order
<1>11. \A i, j \in D : order[i] = order[j] => i = j
  BY <1>9
<1>12. ASSUME NEW i \in D, NEW j \in D, i <= j
       PROVE  s[order[i]] <= s[order[j]]
  <2>1. order[i] \in D /\ order[j] \in D /\ s[order[i]] \in Nat /\ s[order[j]] \in Nat
    BY <1>1, <1>9
  <2>2. s[order[j]] < s[order[i]] => order[j] \in Before(s, order[i])
    BY <2>1 DEF Before, D
  <2>3. order[j] \in Before(s, order[i]) => j < i
    BY <1>4, <1>9, <2>1
  <2>4. QED
    BY <1>1, <1>12, <2>1, <2>2, <2>3
<1>13. order \in Orders(s)
  BY <1>10, <1>11, <1>12 DEF Orders, D
<1>14. QED
  BY <1>13

\* Sorted puts a sequence in order, along some order of its positions.
LEMMA SortedFacts ==
  ASSUME NEW s \in Seq(Nat)
  PROVE  /\ Sorted(s) \in Seq(Nat) /\ DOMAIN Sorted(s) = DOMAIN s
         /\ \A i, j \in DOMAIN s : i <= j => Sorted(s)[i] <= Sorted(s)[j]
         /\ \E p \in Orders(s) : Sorted(s) = [i \in DOMAIN s |-> s[p[i]]]
<1> DEFINE p == CHOOSE p \in Orders(s) : TRUE
<1>1. p \in Orders(s)
  BY OrderExists
<1>2. Sorted(s) = [i \in DOMAIN s |-> s[p[i]]]
  BY DEF Sorted, SortedBy
<1> HIDE DEF p
<1>3. p \in [DOMAIN s -> DOMAIN s] /\ \A i, j \in DOMAIN s : i <= j => s[p[i]] <= s[p[j]]
  BY <1>1 DEF Orders
<1>4. Sorted(s) \in [DOMAIN s -> Nat]
  BY <1>2, <1>3, SeqFacts
<1>5. Sorted(s) \in Seq(Nat) /\ DOMAIN Sorted(s) = DOMAIN s
  BY <1>4, SeqFacts
<1>6. QED
  BY <1>1, <1>2, <1>3, <1>5

\* The size of an interval.
LEMMA IntervalSize ==
  ASSUME NEW a \in Nat, NEW b \in Nat, a <= b + 1
  PROVE  IsFiniteSet(a..b) /\ Cardinality(a..b) = b - a + 1
<1>1. a \in Int /\ b \in Int
  OBVIOUS
<1>2. IsFiniteSet(a..b) /\ Cardinality(a..b) = IF a > b THEN 0 ELSE b - a + 1
  BY <1>1, FS_Interval
<1>3. QED
  BY <1>2

\* A sequence that is in order stays as it is: a position that got a smaller
\* or a larger value would leave too few positions for the others.
LEMMA SortedStays ==
  ASSUME NEW t \in Seq(Nat), \A i, j \in DOMAIN t : i <= j => t[i] <= t[j]
  PROVE  Sorted(t) = t
<1>1. PICK q \in Orders(t) : Sorted(t) = [i \in DOMAIN t |-> t[q[i]]]
  BY SortedFacts
<1>2. /\ q \in [DOMAIN t -> DOMAIN t]
      /\ \A i, j \in DOMAIN t : q[i] = q[j] => i = j
      /\ \A i, j \in DOMAIN t : i <= j => t[q[i]] <= t[q[j]]
  BY DEF Orders
<1>3. Len(t) \in Nat /\ DOMAIN t = 1..Len(t) /\ t \in [DOMAIN t -> Nat]
  BY SeqFacts
<1>4. ASSUME NEW i \in DOMAIN t PROVE t[q[i]] = t[i]
  <2>1. i \in Nat /\ i >= 1 /\ i <= Len(t) /\ q[i] \in DOMAIN t /\ t[q[i]] \in Nat /\ t[i] \in Nat
    BY <1>2, <1>3
  <2>2. ASSUME t[q[i]] < t[i] PROVE FALSE
    <3>1. \A j \in 1..i : j \in DOMAIN t /\ q[j] \in 1..(i - 1)
      <4> TAKE j \in 1..i
      <4>1. j \in DOMAIN t /\ q[j] \in DOMAIN t /\ t[q[j]] <= t[q[i]] /\ t[q[j]] \in Nat
        BY <1>2, <1>3, <2>1
      <4>2. i <= q[j] => t[i] <= t[q[j]]
        BY <4>1
      <4>3. q[j] < i
        BY <1>3, <2>1, <2>2, <4>1, <4>2
      <4>4. QED
        BY <1>3, <2>1, <4>1, <4>3
    <3> DEFINE f == [j \in 1..i |-> q[j]]
    <3>2. f \in [1..i -> 1..(i - 1)]
      BY <3>1
    <3> HIDE DEF f
    <3> DEFINE k == i - 1
    <3>3. 1 \in Nat /\ i \in Nat /\ k \in Nat /\ 1 <= i + 1 /\ 1 <= k + 1 /\ k - 1 < i - 1
      BY <2>1
    <3> DEFINE S == 1..i
               T == 1..k
    <3>4. f \in [S -> T] /\ S = 1..i /\ T = 1..k
      BY <3>2
    <3> HIDE DEF k, S, T
    <3>5. IsFiniteSet(S) /\ Cardinality(S) = i - 1 + 1 /\ IsFiniteSet(T) /\ Cardinality(T) = k - 1 + 1
      BY <3>3, <3>4, IntervalSize
    <3>6. Cardinality(T) < Cardinality(S)
      BY <3>3, <3>5
    <3>7. \E x, y \in S : x # y /\ f[x] = f[y]
      BY <3>4, <3>5, <3>6, FS_PigeonHole
    <3>8. QED
      BY <1>2, <3>1, <3>7 DEF f, S
  <2>3. ASSUME t[i] < t[q[i]] PROVE FALSE
    <3>1. \A j \in i..Len(t) : j \in DOMAIN t /\ q[j] \in (i + 1)..Len(t)
      <4> TAKE j \in i..Len(t)
      <4>1. j \in DOMAIN t /\ q[j] \in DOMAIN t /\ t[q[i]] <= t[q[j]] /\ t[q[j]] \in Nat
        BY <1>2, <1>3, <2>1
      <4>2. q[j] <= i => t[q[j]] <= t[i]
        BY <4>1
      <4>3. i < q[j]
        BY <1>3, <2>1, <2>3, <4>1, <4>2
      <4>4. QED
        BY <1>3, <2>1, <4>1, <4>3
    <3> DEFINE f == [j \in i..Len(t) |-> q[j]]
    <3>2. f \in [i..Len(t) -> (i + 1)..Len(t)]
      BY <3>1
    <3> HIDE DEF f
    <3> DEFINE k == i + 1
               n == Len(t)
    <3>3. i \in Nat /\ n \in Nat /\ k \in Nat /\ i <= n + 1 /\ k <= n + 1 /\ n - k < n - i
      BY <1>3, <2>1
    <3> DEFINE S == i..n
               T == k..n
    <3>4. f \in [S -> T] /\ S = i..n /\ T = k..n
      BY <3>2
    <3> HIDE DEF k, n, S, T
    <3>5. IsFiniteSet(S) /\ Cardinality(S) = n - i + 1 /\ IsFiniteSet(T) /\ Cardinality(T) = n - k + 1
      BY <3>3, <3>4, IntervalSize
    <3>6. Cardinality(T) < Cardinality(S)
      BY <3>3, <3>5
    <3>7. \E x, y \in S : x # y /\ f[x] = f[y]
      BY <3>4, <3>5, <3>6, FS_PigeonHole
    <3>8. QED
      BY <1>2, <3>1, <3>7 DEF f, n, S
  <2>4. QED
    BY <2>1, <2>2, <2>3
<1>5. QED
  BY <1>1, <1>3, <1>4

\* Sorting twice is sorting once: marshalling what was unmarshalled keeps the
\* order of the operators.
LEMMA SortedTwice ==
  ASSUME NEW s \in Seq(Nat)
  PROVE  Sorted(Sorted(s)) = Sorted(s)
BY SortedFacts, SortedStays

\* A creation time survives the protocol's seconds and nanoseconds.
LEMMA MillisOfTimestamp ==
  ASSUME NEW ms \in Nat
  PROVE  Millis(Timestamp(ms)) = ms
<1>1. /\ ms \div 1000 \in Nat /\ ms % 1000 \in 0..999
      /\ ms = (ms \div 1000) * 1000 + (ms % 1000)
  OBVIOUS
<1>2. \A k \in 0..999 : (k * 1000000) \div 1000000 = k
  OBVIOUS
<1>3. QED
  BY <1>1, <1>2 DEF Millis, Timestamp
-----------------------------------------------------------------------------
(* Marshal, answer, unmarshal, marshal again.                              *)

\* An option that holds something.
LEMMA SomeFacts ==
  ASSUME NEW x
  PROVE  Some(x)[1] = x /\ Some(x) # None
BY DEF Some, None

\* No numbers to sort.
LEMMA SortedEmpty == Sorted(<< >>) = << >>
<1>1. << >> \in Seq(Nat) /\ \A i, j \in DOMAIN << >> : i <= j => << >>[i] <= << >>[j]
  OBVIOUS
<1>2. QED
  BY <1>1, SortedStays

\* The message of a transaction the bridge builds.
LEMMA MarshalNew ==
  ASSUME NEW r, NEW now, Marshal(NewTransaction(r, now), FALSE).ok
  PROVE  Marshal(NewTransaction(r, now), FALSE).val =
           [version |-> 3, input |-> Some(RequestInput(r)),
            outputs |-> [i \in DOMAIN RequestLeaves(r) |-> MarshalLeaf(RequestLeaves(r)[i], FALSE)],
            operators |-> Sorted(Operators), expiry |-> None,
            network |-> ProtoNetwork(r.network), created |-> Some(Timestamp(now)),
            invoices |-> << >>, validity |-> Some(DefaultValidity)]
<1> DEFINE t == NewTransaction(r, now)
<1>1. /\ t.version = 3 /\ t.input = RequestInput(r) /\ t.leaves = RequestLeaves(r)
      /\ t.operators = Operators /\ t.expiry = 0 /\ t.network = Some(ProtoNetwork(r.network))
      /\ t.created = now /\ t.invoices = << >>
  BY DEF NewTransaction
<1> HIDE DEF t
<1>2. ~(t.network = None \/ t.version = 0 \/ ~MarshalableInput(t.input))
  BY DEF Marshal, Err, t
<1>3. Marshal(t, FALSE).val =
        [version |-> t.version, input |-> Some(t.input),
         outputs |-> Map(t.leaves, LAMBDA l : MarshalLeaf(l, FALSE)),
         operators |-> Sorted(t.operators),
         expiry |-> IF t.expiry > 0 THEN Some([seconds |-> t.expiry, nanos |-> 0]) ELSE None,
         network |-> t.network[1], created |-> Some(Timestamp(t.created)),
         invoices |-> MarshalInvoices(t), validity |-> Some(DefaultValidity)]
  BY <1>2 DEF Marshal, Ok
<1>4. MarshalInvoices(t) = << >>
  <2>1. Map(t.invoices, LAMBDA a : a.text) = << >>
    BY <1>1 DEF Map
  <2>2. QED
    BY <1>1, <2>1, SortedEmpty DEF MarshalInvoices
<1>5. Map(t.leaves, LAMBDA l : MarshalLeaf(l, FALSE)) =
        [i \in DOMAIN RequestLeaves(r) |-> MarshalLeaf(RequestLeaves(r)[i], FALSE)]
  BY <1>1 DEF Map
<1>6. t.network[1] = ProtoNetwork(r.network) /\ ~(t.expiry > 0)
  BY <1>1 DEF Some
<1>7. QED
  BY <1>1, <1>3, <1>4, <1>5, <1>6 DEF t

\* The operator's answer, field by field: it touches the outputs, the expiry
\* and the creator of the token and nothing else.
LEMMA AnswerFields ==
  ASSUME NEW p, NEW complete, NEW expiry,
         p = [version |-> p.version, input |-> p.input, outputs |-> p.outputs,
              operators |-> p.operators, expiry |-> p.expiry, network |-> p.network,
              created |-> p.created, invoices |-> p.invoices, validity |-> p.validity]
  PROVE  /\ Answer(p, complete, expiry).version = p.version
         /\ Answer(p, complete, expiry).input = Some(FillInput(p.input[1]))
         /\ Answer(p, complete, expiry).operators = p.operators
         /\ Answer(p, complete, expiry).network = p.network
         /\ Answer(p, complete, expiry).created = p.created
         /\ Answer(p, complete, expiry).invoices = p.invoices
         /\ Answer(p, complete, expiry).validity = p.validity
         /\ Answer(p, complete, expiry).outputs =
              [i \in DOMAIN p.outputs |-> FillOutput(p.outputs[i], complete)]
<1> DEFINE o == [i \in DOMAIN p.outputs |-> FillOutput(p.outputs[i], complete)]
           x == Some(expiry)
           y == Some(FillInput(p.input[1]))
           f == Answer(p, complete, expiry)
<1>1. f = [p EXCEPT !.outputs = o, !.expiry = x, !.input = y]
  BY DEF Answer, Map
<1> HIDE DEF o, x, y, f
<1>2. /\ f.version = p.version /\ f.input = y /\ f.operators = p.operators
      /\ f.network = p.network /\ f.created = p.created /\ f.invoices = p.invoices
      /\ f.validity = p.validity /\ f.outputs = o
  BY <1>1
<1>3. QED
  BY <1>2 DEF o, y, f

\* An output the operator filled in comes back from unmarshalling and
\* marshalling as it was.
LEMMA OutputReturns ==
  ASSUME NEW leaf, NEW complete \in BOOLEAN, NEW o,
         o = FillOutput(MarshalLeaf(leaf, FALSE), complete), o.revocation # None
  PROVE  MarshalLeaf(UnmarshalLeaf(o), TRUE) = o
<1> DEFINE rev == IF complete THEN Some(77) ELSE None
           uuid == Some("uuid")
           tok == Some(leaf.token)
           raw == MarshalLeaf(leaf, FALSE)
           R == [id : {leaf.id, uuid}, owner : {leaf.owner}, revocation : {None, rev},
                 bond : {leaf.bond}, lock : {leaf.lock}, token : {tok}, amount : {leaf.amount}]
<1>1. raw \in R
  BY DEF MarshalLeaf
<1>2. o = [raw EXCEPT !.id = uuid, !.revocation = rev]
  BY DEF FillOutput
<1> HIDE DEF rev, uuid, tok, raw
<1>3. o \in R /\ o.id = uuid /\ o.revocation = rev
  BY <1>1, <1>2
<1>4. o = [id |-> uuid, owner |-> leaf.owner, revocation |-> rev, bond |-> leaf.bond,
           lock |-> leaf.lock, token |-> tok, amount |-> leaf.amount]
  BY <1>3
<1>5. rev = Some(77)
  BY <1>3 DEF rev
<1>6. rev[1] = 77 /\ tok[1] = leaf.token
  BY <1>5 DEF tok, Some
<1>7. /\ o.id = uuid /\ o.owner = leaf.owner /\ o.revocation[1] = 77 /\ o.bond = leaf.bond
      /\ o.lock = leaf.lock /\ o.token[1] = leaf.token /\ o.amount = leaf.amount
  BY <1>3, <1>5, <1>6
<1>8. UnmarshalLeaf(o) =
        [id |-> uuid, owner |-> leaf.owner, revocation |-> 77, bond |-> leaf.bond,
         lock |-> leaf.lock, token |-> leaf.token, amount |-> leaf.amount]
  BY <1>7 DEF UnmarshalLeaf
<1>9. MarshalLeaf(UnmarshalLeaf(o), TRUE) =
        [id |-> uuid, owner |-> leaf.owner, revocation |-> Some(77), bond |-> leaf.bond,
         lock |-> leaf.lock, token |-> tok, amount |-> leaf.amount]
  BY <1>8 DEF MarshalLeaf, tok
<1>10. QED
  BY <1>4, <1>5, <1>9

\* f is an answer to the transaction of a request that the service accepts.
Accepted(r, now, complete, expiry, f) ==
  /\ now \in Nat /\ complete \in BOOLEAN
  /\ Marshal(NewTransaction(r, now), FALSE).ok
  /\ f = Answer(Marshal(NewTransaction(r, now), FALSE).val, complete, expiry)
  /\ Unmarshal(f).ok
  /\ Marshal(Unmarshal(f).val, TRUE).ok

\* It has the final hash of what is parsed from it and marshalled again, and
\* still the request's input and network.
Returned(r, f) ==
  /\ HashFinal(Marshal(Unmarshal(f).val, TRUE).val) = HashFinal(f)
  /\ f.input = Some(FillInput(RequestInput(r)))
  /\ f.network = ProtoNetwork(r.network)

\* The answer of an operator, parsed and marshalled again, has the same final
\* hash as its own bytes.
LEMMA AnswerReturns ==
  ASSUME NEW r, NEW now, NEW complete, NEW expiry, NEW f,
         Accepted(r, now, complete, expiry, f)
  PROVE  Returned(r, f)
<1>0. /\ now \in Nat /\ complete \in BOOLEAN
      /\ Marshal(NewTransaction(r, now), FALSE).ok
      /\ f = Answer(Marshal(NewTransaction(r, now), FALSE).val, complete, expiry)
      /\ Unmarshal(f).ok /\ Marshal(Unmarshal(f).val, TRUE).ok
  BY DEF Accepted
<1> DEFINE outs == [i \in DOMAIN RequestLeaves(r) |-> MarshalLeaf(RequestLeaves(r)[i], FALSE)]
           u == Unmarshal(f).val
           g == Marshal(u, TRUE).val
<1>1. /\ f.version = 3 /\ f.input = Some(FillInput(RequestInput(r)))
      /\ f.operators = Sorted(Operators) /\ f.network = ProtoNetwork(r.network)
      /\ f.created = Some(Timestamp(now)) /\ f.invoices = << >>
      /\ f.validity = Some(DefaultValidity)
      /\ f.outputs = [i \in DOMAIN outs |-> FillOutput(outs[i], complete)]
  <2> DEFINE w == Marshal(NewTransaction(r, now), FALSE).val
  <2>1. w = [version |-> 3, input |-> Some(RequestInput(r)), outputs |-> outs,
             operators |-> Sorted(Operators), expiry |-> None,
             network |-> ProtoNetwork(r.network), created |-> Some(Timestamp(now)),
             invoices |-> << >>, validity |-> Some(DefaultValidity)]
    BY <1>0, MarshalNew
  <2>2. f = Answer(w, complete, expiry)
    BY <1>0
  <2> HIDE DEF w, outs
  <2>3. /\ w.version = 3 /\ w.input = Some(RequestInput(r)) /\ w.outputs = outs
        /\ w.operators = Sorted(Operators) /\ w.network = ProtoNetwork(r.network)
        /\ w.created = Some(Timestamp(now)) /\ w.invoices = << >>
        /\ w.validity = Some(DefaultValidity)
    BY <2>1
  <2>4. w = [version |-> w.version, input |-> w.input, outputs |-> w.outputs,
             operators |-> w.operators, expiry |-> w.expiry, network |-> w.network,
             created |-> w.created, invoices |-> w.invoices, validity |-> w.validity]
    BY <2>1
  <2>5. w.input[1] = RequestInput(r)
    BY <2>3 DEF Some
  <2> DEFINE a == Answer(w, complete, expiry)
             filled == [i \in DOMAIN w.outputs |-> FillOutput(w.outputs[i], complete)]
  <2>6. /\ a.version = w.version /\ a.input = Some(FillInput(w.input[1]))
        /\ a.operators = w.operators /\ a.network = w.network /\ a.created = w.created
        /\ a.invoices = w.invoices /\ a.validity = w.validity /\ a.outputs = filled
    BY <2>4, AnswerFields
  <2>7. filled = [i \in DOMAIN outs |-> FillOutput(outs[i], complete)]
    BY <2>3
  <2> HIDE DEF filled, a
  <2>8. f = a
    BY <2>2 DEF a
  <2>9. QED
    BY <2>3, <2>5, <2>6, <2>7, <2>8
<1> HIDE DEF u
<1> DEFINE inv == [i \in DOMAIN f.invoices |-> [id |-> f.invoices[i], text |-> f.invoices[i]]]
           leaves == [i \in DOMAIN f.outputs |-> UnmarshalLeaf(f.outputs[i])]
           ex == IF f.expiry = None THEN 0 ELSE f.expiry[1].seconds
           cr == IF f.created = None THEN 0 ELSE Millis(f.created[1])
<1>2. /\ \A i \in DOMAIN f.outputs : f.outputs[i].revocation # None
      /\ u = [version |-> f.version, input |-> f.input[1], leaves |-> leaves,
              operators |-> f.operators, network |-> Some(f.network), expiry |-> ex,
              created |-> cr, invoices |-> inv]
  BY <1>0 DEF Unmarshal, Err, Ok, Map, u
<1> HIDE DEF inv, leaves, ex, cr
<1>3. /\ u.version = f.version /\ u.input = f.input[1] /\ u.leaves = leaves
      /\ u.operators = f.operators /\ u.network = Some(f.network)
      /\ u.created = cr /\ u.invoices = inv
  BY <1>2
<1>4. u.created = now
  <2>1. f.created # None /\ f.created[1] = Timestamp(now)
    BY <1>1, SomeFacts
  <2>2. QED
    BY <1>0, <1>3, <2>1, MillisOfTimestamp DEF cr
<1>5. u.invoices = << >> /\ MarshalInvoices(u) = << >>
  <2>1. u.invoices = << >>
    BY <1>1, <1>3 DEF inv
  <2>2. Map(u.invoices, LAMBDA a : a.text) = << >>
    BY <2>1 DEF Map
  <2>3. QED
    BY <1>1, <1>3, <2>1, <2>2, SortedEmpty DEF MarshalInvoices
<1>6. ~(u.network = None \/ u.version = 0 \/ ~MarshalableInput(u.input))
  BY <1>0 DEF Marshal, Err, u
<1>7. /\ g.version = u.version /\ g.input = Some(u.input)
      /\ g.outputs = Map(u.leaves, LAMBDA l : MarshalLeaf(l, TRUE))
      /\ g.operators = Sorted(u.operators) /\ g.network = u.network[1]
      /\ g.created = Some(Timestamp(u.created))
      /\ g.invoices = MarshalInvoices(u) /\ g.validity = Some(DefaultValidity)
  BY <1>6 DEF Marshal, Ok
<1> HIDE DEF g
<1>8. /\ g.version = f.version /\ g.network = f.network /\ g.created = f.created
      /\ g.invoices = f.invoices /\ g.validity = f.validity /\ g.input = f.input
  <2>1. g.version = f.version /\ g.created = f.created /\ g.invoices = f.invoices
        /\ g.validity = f.validity
    BY <1>1, <1>3, <1>4, <1>5, <1>7
  <2>2. u.network[1] = f.network
    BY <1>3 DEF Some
  <2>3. Some(f.input[1]) = f.input
    BY <1>1, SomeFacts
  <2>4. QED
    BY <1>3, <1>7, <2>1, <2>2, <2>3
<1>9. g.operators = f.operators
  <2>1. Sorted(Sorted(Operators)) = Sorted(Operators)
    BY SortedTwice, TokenTxAssumption
  <2>2. QED
    BY <1>1, <1>3, <1>7, <2>1
<1>10. g.outputs = f.outputs
  <2>1. /\ DOMAIN f.outputs = DOMAIN outs /\ DOMAIN outs = DOMAIN RequestLeaves(r)
        /\ f.outputs = [i \in DOMAIN outs |-> f.outputs[i]]
    BY <1>1
  <2>2. \A i \in DOMAIN outs : /\ f.outputs[i] = FillOutput(MarshalLeaf(RequestLeaves(r)[i], FALSE), complete)
                               /\ f.outputs[i].revocation # None
    <3>1. \A i \in DOMAIN outs : outs[i] = MarshalLeaf(RequestLeaves(r)[i], FALSE)
      BY <2>1
    <3> HIDE DEF outs
    <3>2. \A i \in DOMAIN outs : f.outputs[i] = FillOutput(outs[i], complete)
      BY <1>1
    <3>3. QED
      BY <1>2, <2>1, <3>1, <3>2
  <2>3. \A i \in DOMAIN outs : MarshalLeaf(UnmarshalLeaf(f.outputs[i]), TRUE) = f.outputs[i]
    BY <1>0, <2>2, OutputReturns
  <2>4. u.leaves = [i \in DOMAIN outs |-> UnmarshalLeaf(f.outputs[i])]
    BY <1>3, <2>1 DEF leaves
  <2> HIDE DEF outs
  <2>5. g.outputs = [i \in DOMAIN outs |-> MarshalLeaf(UnmarshalLeaf(f.outputs[i]), TRUE)]
    BY <1>7, <2>4 DEF Map
  <2>6. QED
    BY <2>1, <2>3, <2>5
<1>11. HashFinal(g) = HashFinal(f)
  BY <1>8, <1>9, <1>10 DEF HashFinal, HashTransactionWith, MetadataFields, Map
<1>12. QED
  BY <1>1, <1>11 DEF g, u, Returned

\* The token of a create transaction that went to the operator and back.
LEMMA CreatedToken ==
  ASSUME NEW r, r.kind = "Create", r.network \in SparkNetworks, NEW f,
         f.input = Some(FillInput(RequestInput(r))), f.network = ProtoNetwork(r.network)
  PROVE  OperatorToken(f) = TokenOf(r)
<1> DEFINE m == WrunesMetadata(r.config, r.network)
           in == FillInput(RequestInput(r))
           creator == Some(SparkCreator)
           R == [kind : {"Create"}, issuer : {Issuer}, name : {m.name}, ticker : {m.ticker},
                 decimals : {m.decimals}, supply : {m.supply}, freezable : {FALSE},
                 creator : {None, creator}]
<1>1. /\ m.issuer = Issuer /\ m.freezable = FALSE /\ m.creator = creator /\ m.network = r.network
      /\ m = [issuer |-> m.issuer, name |-> m.name, ticker |-> m.ticker,
              decimals |-> m.decimals, supply |-> m.supply, freezable |-> m.freezable,
              creator |-> m.creator, network |-> m.network]
  BY DEF WrunesMetadata
<1> HIDE DEF m, creator
<1>2. RequestInput(r) = [kind |-> "Create", issuer |-> Issuer, name |-> m.name,
                         ticker |-> m.ticker, decimals |-> m.decimals, supply |-> m.supply,
                         freezable |-> FALSE, creator |-> None]
  BY DEF RequestInput, m
<1>3. RequestInput(r) \in R /\ RequestInput(r).kind = "Create"
  BY <1>2
<1>4. in = [RequestInput(r) EXCEPT !.creator = creator]
  BY <1>3 DEF FillInput, creator
<1>5. in \in R /\ in.creator = creator
  BY <1>3, <1>4
<1> HIDE DEF in
<1>6. /\ in.issuer = m.issuer /\ in.name = m.name /\ in.ticker = m.ticker
      /\ in.decimals = m.decimals /\ in.supply = m.supply /\ in.freezable = m.freezable
      /\ in.creator = m.creator
  BY <1>1, <1>5
<1>7. f.input[1] = in
  BY SomeFacts DEF in
<1> DEFINE net == CASE f.network = 1 -> "Bitcoin" [] f.network = 2 -> "Regtest"
                    [] f.network = 3 -> "Testnet" [] f.network = 4 -> "Signet"
<1>8. net = r.network
  BY DEF ProtoNetwork, SparkNetworks
<1> HIDE DEF net
<1>9. OperatorToken(f) =
        TokenIdentifierOf([issuer |-> in.issuer, name |-> in.name, ticker |-> in.ticker,
                           decimals |-> in.decimals, supply |-> in.supply,
                           freezable |-> in.freezable, creator |-> in.creator,
                           network |-> net])
  BY <1>7 DEF OperatorToken, net
<1>10. [issuer |-> in.issuer, name |-> in.name, ticker |-> in.ticker,
        decimals |-> in.decimals, supply |-> in.supply, freezable |-> in.freezable,
        creator |-> in.creator, network |-> net] = m
  BY <1>1, <1>6, <1>8
<1>11. QED
  BY <1>9, <1>10 DEF TokenOf, m

-----------------------------------------------------------------------------
(* The invariant.                                                          *)

\* Nothing is built or signed at the start.
LEMMA InitSignInv == Init => SignInv
BY DEF Init, SignInv, SignedAsDescribed, IdentifierAgrees

\* What is signed stays right by CreatePartial.
LEMMA CreatePartialSignInv ==
  ASSUME SignInv, NEW r \in Requests, NEW now \in Created, CreatePartial(r, now)
  PROVE  SignInv'
<1>1. /\ request' = r /\ UNCHANGED signed
      /\ \/ stage' = "built" /\ tx' = NewTransaction(r, now)
         \/ stage' = "failed"
  BY DEF CreatePartial
<1>2. stage' = "built" => Built'
  BY <1>1 DEF Built
<1>3. SignedAsDescribed'
  BY <1>1 DEF SignInv, SignedAsDescribed
<1>4. QED
  BY <1>1, <1>2, <1>3 DEF SignInv, IdentifierAgrees

\* What is signed stays right by SignPartial.
LEMMA SignPartialSignInv ==
  ASSUME SignInv, SignPartial
  PROVE  SignInv'
<1> DEFINE p == Marshal(tx, FALSE)
           s0 == [message |-> HashPartial(p.val), metadata |-> p.val, operator |-> None]
<1>1. /\ stage = "built" /\ p.ok /\ stage' = "started" /\ sent' = p.val /\ signed' = {s0}
      /\ UNCHANGED <<request, tx>>
  BY DEF SignPartial
<1>2. Built' /\ Sent'
  BY <1>1 DEF SignInv, Built, Sent
<1>3. s0.message = HashPartial(s0.metadata) /\ s0.operator = None
  OBVIOUS
<1> HIDE DEF s0
<1>4. SignedAsDescribed'
  BY <1>1, <1>3 DEF SignedAsDescribed
<1>5. QED
  BY <1>1, <1>2, <1>4 DEF SignInv, IdentifierAgrees

\* What is signed stays right by Finalize.
LEMMA FinalizeSignInv ==
  ASSUME SignInv, NEW complete \in BOOLEAN, NEW expiry \in Expiries, Finalize(complete, expiry)
  PROVE  SignInv'
<1>1. /\ stage = "started" /\ stage' = "finalized"
      /\ final' = None \/ final' = Some(Answer(sent, complete, expiry))
      /\ UNCHANGED <<request, tx, sent, signed>>
  BY DEF Finalize
<1>2. Built' /\ Sent'
  BY <1>1 DEF SignInv, Built, Sent
<1>3. Answered'
  BY <1>1 DEF Answered
<1>4. SignedAsDescribed'
  BY <1>1 DEF SignInv, SignedAsDescribed
<1>5. QED
  BY <1>1, <1>2, <1>3, <1>4 DEF SignInv, IdentifierAgrees

\* What is signed stays right by SignFinal.
LEMMA SignFinalSignInv ==
  ASSUME SignInv, SignFinal
  PROVE  SignInv'
<1> DEFINE f == final[1]
           u == Unmarshal(f)
           m == Marshal(u.val, TRUE)
           h == HashFinal(f)
           payload(i) == [message |-> OperatorPayload(h, Operators[i]), metadata |-> m.val,
                          operator |-> Some(Operators[i])]
<1>1. /\ stage = "finalized" /\ UNCHANGED <<request, final>>
      /\ Built /\ Sent /\ Answered /\ SignedAsDescribed
  BY DEF SignFinal, SignInv
<1>2. CASE stage' = "failed" /\ UNCHANGED signed
  BY <1>1, <1>2 DEF SignInv, SignedAsDescribed, IdentifierAgrees
<1>3. CASE /\ final # None /\ u.ok /\ m.ok /\ stage' = "done"
           /\ signed' = signed \cup {payload(i) : i \in DOMAIN Operators}
  <2>1. PICK now \in Created : tx = NewTransaction(request, now)
    BY <1>1 DEF Built
  <2>2. PICK complete \in BOOLEAN, expiry \in Expiries : final = Some(Answer(sent, complete, expiry))
    BY <1>1, <1>3 DEF Answered
  <2>3. f = Answer(Marshal(NewTransaction(request, now), FALSE).val, complete, expiry)
    BY <1>1, <2>1, <2>2, SomeFacts DEF Sent
  <2>4. Accepted(request, now, complete, expiry, f)
    BY <1>1, <1>3, <2>1, <2>3, TokenTxAssumption DEF Accepted, Sent
  <2>5. /\ HashFinal(m.val) = h /\ f.input = Some(FillInput(RequestInput(request)))
        /\ f.network = ProtoNetwork(request.network)
    <3>1. Returned(request, f)
      BY <2>4, AnswerReturns
    <3>2. QED
      BY <3>1 DEF Returned
  <2>6. ASSUME NEW s \in signed'
        PROVE  s.message = IF s.operator = None THEN HashPartial(s.metadata)
                           ELSE OperatorPayload(HashFinal(s.metadata), s.operator[1])
    <3>1. CASE s \in signed
      BY <1>1, <3>1 DEF SignedAsDescribed
    <3>2. ASSUME NEW i \in DOMAIN Operators, s = payload(i)
          PROVE  s.message = IF s.operator = None THEN HashPartial(s.metadata)
                             ELSE OperatorPayload(HashFinal(s.metadata), s.operator[1])
      <4> HIDE DEF h, m
      <4>1. /\ s.message = OperatorPayload(h, Operators[i]) /\ s.metadata = m.val
            /\ s.operator = Some(Operators[i])
        BY <3>2
      <4>2. s.operator # None /\ s.operator[1] = Operators[i]
        BY <4>1, SomeFacts
      <4>3. QED
        BY <2>5, <4>1, <4>2
    <3>3. QED
      BY <1>3, <3>1, <3>2
  <2>7. SignedAsDescribed'
    BY <2>6 DEF SignedAsDescribed
  <2>8. IdentifierAgrees'
    <3>1. request.kind = "Create" /\ request.network \in SparkNetworks =>
            OperatorToken(f) = TokenOf(request)
      <4> HIDE DEF f
      <4>1. QED
        BY <2>5, CreatedToken
    <3>2. QED
      BY <1>1, <3>1 DEF IdentifierAgrees
  <2>9. QED
    BY <1>3, <2>7, <2>8 DEF SignInv
<1>4. QED
  BY <1>2, <1>3 DEF SignFinal

\* Every step keeps what is signed; hashing touches nothing of it.
LEMMA NextSignInv == SignInv /\ [Next]_vars => SignInv'
<1> SUFFICES ASSUME SignInv, [Next]_vars PROVE SignInv'
  OBVIOUS
<1>1. CASE UNCHANGED <<stage, request, tx, sent, final, signed>>
  BY <1>1 DEF SignInv, Built, Sent, Answered, SignedAsDescribed, IdentifierAgrees
<1>2. ASSUME NEW t \in Transactions, NEW partial \in BOOLEAN, HashTransaction(t, partial)
      PROVE  SignInv'
  BY <1>1, <1>2 DEF HashTransaction
<1>3. CASE UNCHANGED vars
  BY <1>1, <1>3 DEF vars
<1>4. QED
  BY <1>2, <1>3, CreatePartialSignInv, SignPartialSignInv, FinalizeSignInv, SignFinalSignInv DEF Next

\* Every step keeps what is known of the hashes; only hashing adds one.
LEMMA NextHashedSound == HashedSound /\ [Next]_vars => HashedSound'
<1> SUFFICES ASSUME HashedSound, [Next]_vars PROVE HashedSound'
  OBVIOUS
<1>1. CASE UNCHANGED hashed
  BY <1>1 DEF HashedSound
<1>2. ASSUME NEW t \in Transactions, NEW partial \in BOOLEAN, HashTransaction(t, partial)
      PROVE  HashedSound'
  <2> DEFINE h == HashTokenTransaction(t, partial)
             x == [hash |-> h.val, tx |-> t, partial |-> partial]
  <2>1. h.ok /\ hashed' = hashed \cup {x}
    BY <1>2 DEF HashTransaction
  <2>2. h = Ok(h.val)
    BY <2>1 DEF HashTokenTransaction, Ok, Err
  <2>3. x.tx = t /\ x.partial = partial /\ x.hash = h.val
    OBVIOUS
  <2> HIDE DEF x
  <2>4. HashTokenTransaction(x.tx, x.partial) = Ok(x.hash)
    BY <2>2, <2>3
  <2>5. QED
    BY <2>1, <2>3, <2>4 DEF HashedSound
<1>3. QED
  BY <1>1, <1>2 DEF Next, vars, CreatePartial, SignPartial, Finalize, SignFinal

\* The invariant holds at the start, and every step keeps it.
LEMMA InitIInv == Init => IInv
BY InitSignInv DEF Init, IInv, HashedSound

LEMMA NextIInv == IInv /\ [Next]_vars => IInv'
BY NextSignInv, NextHashedSound DEF IInv

\* IInv holds in every reachable state.
THEOREM InductiveInvariance == Spec => []IInv
<1>1. QED
  BY InitIInv, NextIInv, PTL DEF Spec

\* Every message the signers are asked to sign is the hash of the transaction
\* they are shown: for any request, any operators in any order (repeated keys
\* included), any creation time and any answer of the operator that the
\* service accepts.
THEOREM SignersSeeWhatTheySign == Spec => []SignedAsDescribed
<1>1. IInv => SignedAsDescribed
  BY DEF IInv, SignInv
<1>2. QED
  BY <1>1, InductiveInvariance, PTL

\* On the networks the protocol numbers, the token the operator creates is the
\* one the bridge computed for the rune, whatever its name, divisibility and
\* supply, known or not.
THEOREM TokensAgree == Spec => []IdentifierAgrees
<1>1. IInv => IdentifierAgrees
  BY DEF IInv, SignInv
<1>2. QED
  BY <1>1, InductiveInvariance, PTL

-----------------------------------------------------------------------------
(* What a stream of hashes binds.                                          *)

\* Equal hashes are hashes of the same.
LEMMA ShaInjective ==
  ASSUME NEW x, NEW y, Sha(x) = Sha(y)
  PROVE  x = y
BY DEF Sha

\* The hashes that occur in a stream.
Numbers == {"u32", "u64", "key", "str"} \X Nat
Shas == {Sha(x) : x \in Numbers \cup Ids}
        \cup {HashSpend(l) : l \in SpendType}
        \cup {HashLeaf(l, p) : l \in LeafType, p \in BOOLEAN}

\* The single hashes of a stream.
LEMMA ShasFacts ==
  ASSUME NEW n \in Nat
  PROVE  /\ Sha(U32(n)) \in Shas /\ Sha(U64(n)) \in Shas
         /\ Sha(KeyBytes(n)) \in Shas /\ Sha(<<"str", n>>) \in Shas
<1>1. <<"u32", n>> \in Numbers /\ <<"u64", n>> \in Numbers /\ <<"key", n>> \in Numbers
      /\ <<"str", n>> \in Numbers
  BY DEF Numbers
<1>2. QED
  BY <1>1 DEF Shas, U32, U64, KeyBytes

\* Equal hashes of numbers are hashes of the same number.
LEMMA NumbersBound ==
  ASSUME NEW m, NEW n
  PROVE  /\ Sha(U32(m)) = Sha(U32(n)) => m = n
         /\ Sha(U64(m)) = Sha(U64(n)) => m = n
         /\ Sha(KeyBytes(m)) = Sha(KeyBytes(n)) => m = n
         /\ Sha(<<"str", m>>) = Sha(<<"str", n>>) => m = n
BY DEF Sha, U32, U64, KeyBytes

\* Hashes of values of different width differ.
LEMMA TagsDiffer ==
  ASSUME NEW m, NEW n
  PROVE  /\ Sha(U32(m)) # Sha(U64(n)) /\ Sha(U32(m)) # Sha(KeyBytes(n))
         /\ n \in Ids => Sha(U32(m)) # Sha(n)
BY DEF Sha, U32, U64, KeyBytes, Ids

\* Two streams with heads of one length agree in their heads and in the rest.
LEMMA Peel ==
  ASSUME NEW S, NEW a \in Seq(S), NEW b \in Seq(S), NEW c \in Seq(S), NEW d \in Seq(S),
         Len(a) = Len(b), a \o c = b \o d
  PROVE  a = b /\ c = d
<1>1. Len(a) \in Nat /\ Len(b) \in Nat /\ Len(c) \in Nat /\ Len(d) \in Nat
  OBVIOUS
<1>2. /\ Len(a \o c) = Len(a) + Len(c) /\ Len(b \o d) = Len(b) + Len(d)
      /\ \A i \in 1..Len(a) + Len(c) : (a \o c)[i] = IF i <= Len(a) THEN a[i] ELSE c[i - Len(a)]
      /\ \A i \in 1..Len(b) + Len(d) : (b \o d)[i] = IF i <= Len(b) THEN b[i] ELSE d[i - Len(b)]
  BY ConcatProperties
<1>3. Len(c) = Len(d)
  BY <1>1, <1>2
<1>4. a = b
  <2>1. \A i \in 1..Len(a) : a[i] = b[i]
    BY <1>1, <1>2
  <2>2. QED
    BY <2>1, SeqEqual
<1>5. c = d
  <2>1. ASSUME NEW i \in 1..Len(c) PROVE c[i] = d[i]
    <3>1. /\ i + Len(a) \in 1..Len(a) + Len(c) /\ ~(i + Len(a) <= Len(a))
          /\ (i + Len(a)) - Len(a) = i
      BY <1>1
    <3>2. (a \o c)[i + Len(a)] = c[i] /\ (b \o d)[i + Len(a)] = d[i]
      BY <1>1, <1>2, <1>3, <3>1
    <3>3. QED
      BY <3>2
  <2>2. QED
    BY <1>3, <2>1, SeqEqual
<1>6. QED
  BY <1>4, <1>5

\* The first element of a concatenation.
LEMMA FirstOf ==
  ASSUME NEW S, NEW a \in Seq(S), NEW c \in Seq(S), a # << >>
  PROVE  a \o c \in Seq(S) /\ Len(a \o c) >= 1 /\ (a \o c)[1] = a[1]
<1>1. Len(a) \in Nat \ {0} /\ Len(c) \in Nat
  BY EmptySeq
<1>2. QED
  BY <1>1, ConcatProperties

\* A list after its length.
LEMMA CountedFacts ==
  ASSUME NEW h \in Seq(Shas)
  PROVE  /\ Counted(h) \in Seq(Shas) /\ Len(Counted(h)) = Len(h) + 1
         /\ Counted(h) # << >> /\ Counted(h)[1] = Sha(U32(Len(h)))
<1> DEFINE n == Len(h)
           x == Sha(U32(n))
<1>1. n \in Nat
  OBVIOUS
<1> HIDE DEF n
<1>2. x \in Shas
  BY <1>1, ShasFacts
<1> HIDE DEF x
<1>3. <<x>> \in Seq(Shas) /\ Len(<<x>>) = 1 /\ <<x>>[1] = x
  BY <1>2
<1>4. Counted(h) = <<x>> \o h
  BY DEF Counted, x, n
<1>5. /\ Counted(h) \in Seq(Shas) /\ Len(Counted(h)) = 1 + Len(h) /\ Counted(h)[1] = x
  BY <1>2, <1>3, <1>4, ConcatProperties
<1>6. QED
  BY <1>1, <1>2, <1>5 DEF x, n

\* Counted lists at the head of two streams are equal, and so are the rests.
LEMMA CountedPeel ==
  ASSUME NEW g \in Seq(Shas), NEW h \in Seq(Shas), NEW c \in Seq(Shas), NEW d \in Seq(Shas),
         Counted(g) \o c = Counted(h) \o d
  PROVE  g = h /\ c = d
<1> DEFINE n == Len(g)
           m == Len(h)
           x == Sha(U32(n))
           y == Sha(U32(m))
<1>1. /\ Counted(g) \in Seq(Shas) /\ Counted(g) # << >> /\ Counted(g)[1] = x
      /\ Counted(h) \in Seq(Shas) /\ Counted(h) # << >> /\ Counted(h)[1] = y
      /\ Len(Counted(g)) = n + 1 /\ Len(Counted(h)) = m + 1
  BY CountedFacts
<1>2. x = y
  BY <1>1, FirstOf
<1>3. n \in Nat /\ Counted(g) = <<x>> \o g /\ Counted(h) = <<y>> \o h
  BY DEF Counted
<1> HIDE DEF n, m
<1>4. n = m /\ x \in Shas
  BY <1>2, <1>3, NumbersBound, ShasFacts
<1> HIDE DEF x, y
<1>5. Counted(g) = Counted(h) /\ c = d
  BY <1>1, <1>4, Peel
<1> DEFINE z == <<x>>
<1>6. z \in Seq(Shas) /\ z \o g = z \o h
  BY <1>2, <1>3, <1>4, <1>5
<1> HIDE DEF z
<1>7. g = h
  BY <1>6, Peel
<1>8. QED
  BY <1>5, <1>7

\* A sequence is a function on its positions, and back.
LEMMA SeqOf ==
  ASSUME NEW S
  PROVE  /\ \A n \in Nat : \A f \in [1..n -> S] : f \in Seq(S) /\ Len(f) = n
         /\ \A s \in Seq(S) : Len(s) \in Nat /\ DOMAIN s = 1..Len(s) /\ s \in [1..Len(s) -> S]
OBVIOUS

\* An option is empty or holds one value.
LEMMA OptionFacts ==
  ASSUME NEW S, NEW o \in Option(S)
  PROVE  o = << >> \/ \E x \in S : o = <<x>>
<1>1. o \in Seq(S) /\ Len(o) <= 1
  BY DEF Option
<1>2. Len(o) = 0 \/ Len(o) = 1
  BY <1>1, SeqOf
<1>3. CASE Len(o) = 0
  BY <1>1, <1>3
<1>4. CASE Len(o) = 1
  <2>1. o[1] \in S /\ o = <<o[1]>>
    BY <1>1, <1>4
  <2>2. QED
    BY <2>1
<1>5. QED
  BY <1>2, <1>3, <1>4

\* The fields of a transaction.
LEMMA TransactionFacts ==
  ASSUME NEW t \in TransactionType
  PROVE  /\ t.version \in 0..3 /\ t.input \in MintType \cup TransferType \cup CreateType
         /\ t.leaves \in Seq(LeafType) /\ t.operators \in Seq(Nat) /\ t.expiry \in Nat
         /\ t.network \in Option(Nat) /\ t.created \in Nat
         /\ t.invoices \in Seq(AttachmentType)
BY DEF TransactionType

\* The kind of an input decides its fields.
LEMMA InputFacts ==
  ASSUME NEW in \in MintType \cup TransferType \cup CreateType
  PROVE  /\ in.kind \in {"Mint", "Transfer", "Create"}
         /\ in.kind = "Mint" => in \in MintType /\ in.issuer \in Nat /\ in.token \in Option(Ids)
         /\ in.kind = "Transfer" => in \in TransferType /\ in.spends \in Seq(SpendType)
         /\ in.kind = "Create" => in \in CreateType
BY DEF MintType, TransferType, CreateType

\* Sorting by keys rearranges.
LEMMA SortedByFacts ==
  ASSUME NEW S, NEW s \in Seq(S), NEW keys \in Seq(Nat), Len(keys) = Len(s)
  PROVE  \E p \in Orders(keys) : /\ SortedBy(s, keys) = [i \in DOMAIN s |-> s[p[i]]]
                                 /\ SortedBy(s, keys) \in Seq(S)
                                 /\ Len(SortedBy(s, keys)) = Len(s)
<1> DEFINE p == CHOOSE p \in Orders(keys) : TRUE
<1>1. p \in Orders(keys)
  BY OrderExists
<1>2. SortedBy(s, keys) = [i \in DOMAIN s |-> s[p[i]]]
  BY DEF SortedBy
<1> HIDE DEF p
<1>3. DOMAIN s = 1..Len(s) /\ DOMAIN keys = DOMAIN s /\ Len(s) \in Nat
  OBVIOUS
<1>4. p \in [DOMAIN s -> DOMAIN s]
  BY <1>1, <1>3 DEF Orders
<1>5. SortedBy(s, keys) \in [1..Len(s) -> S]
  BY <1>2, <1>3, <1>4
<1>6. SortedBy(s, keys) \in Seq(S) /\ Len(SortedBy(s, keys)) = Len(s)
  BY <1>3, <1>5
<1>7. QED
  BY <1>1, <1>2, <1>6

\* The parts of a stream are sequences of hashes.
LEMMA PartTypes ==
  ASSUME NEW t \in TransactionType, NEW partial \in BOOLEAN, t.input.kind # "Create"
  PROVE  /\ TypeHashes(t) \in Seq(Shas) /\ InputHashes(t.input) \in Seq(Shas)
         /\ LeafHashes(t, partial) \in Seq(Shas) /\ KeyHashes(t) \in Seq(Shas)
         /\ NetworkHashes(t) \in Seq(Shas) /\ TimeHashes(t, partial) \in Seq(Shas)
         /\ InvoiceHashes(t) \in Seq(Shas)
<1> USE TransactionFacts
<1>1. TypeHashes(t) \in Seq(Shas)
  <2>1. InputType(t.input) \in Nat /\ t.version \in Nat
    BY InputFacts DEF InputType
  <2> DEFINE x == Sha(U32(InputType(t.input)))
             y == Sha(U32(t.version))
  <2>2. x \in Shas /\ y \in Shas
    BY <2>1, ShasFacts
  <2>3. TypeHashes(t) = <<x>> \/ TypeHashes(t) = <<y, x>>
    BY DEF TypeHashes
  <2> HIDE DEF x, y
  <2>4. <<x>> \in Seq(Shas) /\ <<y, x>> \in Seq(Shas)
    BY <2>2
  <2>5. QED
    BY <2>3, <2>4
<1>2. InputHashes(t.input) \in Seq(Shas)
  <2>1. CASE t.input.kind = "Transfer"
    <3>1. t.input.spends \in Seq(SpendType)
      BY <2>1, InputFacts
    <3>2. Map(t.input.spends, HashSpend) \in [1..Len(t.input.spends) -> Shas]
      <4>1. \A i \in DOMAIN t.input.spends : HashSpend(t.input.spends[i]) \in Shas
        <5>1. \A i \in DOMAIN t.input.spends : t.input.spends[i] \in SpendType
          BY <3>1
        <5>2. QED
          BY <5>1 DEF Shas
      <4>2. DOMAIN t.input.spends = 1..Len(t.input.spends)
        BY <3>1
      <4>3. QED
        BY <4>1, <4>2 DEF Map
    <3>3. QED
      BY <2>1, <3>1, <3>2, SeqOf, CountedFacts DEF InputHashes
  <2>2. CASE t.input.kind = "Mint"
    <3> DEFINE x == Sha(KeyBytes(t.input.issuer))
    <3>1. t.input.issuer \in Nat /\ t.input.token \in Option(Ids)
      BY <2>2, InputFacts
    <3>2. x \in Shas
      BY <3>1, ShasFacts
    <3>3. Map(t.input.token, Sha) \in Seq(Shas)
      <4>1. t.input.token \in Seq(Ids)
        BY <3>1 DEF Option
      <4>2. Map(t.input.token, Sha) \in [1..Len(t.input.token) -> Shas]
        <5>1. \A i \in DOMAIN t.input.token : Sha(t.input.token[i]) \in Shas
          BY <4>1 DEF Shas
        <5>2. DOMAIN t.input.token = 1..Len(t.input.token)
          BY <4>1
        <5>3. QED
          BY <5>1, <5>2 DEF Map
      <4>3. QED
        BY <4>1, <4>2, SeqOf
    <3>4. InputHashes(t.input) = <<x>> \o Map(t.input.token, Sha)
      BY <2>2 DEF InputHashes
    <3> HIDE DEF x
    <3>5. <<x>> \in Seq(Shas)
      BY <3>2
    <3>6. QED
      BY <3>3, <3>4, <3>5, ConcatProperties
  <2>3. QED
    BY <2>1, <2>2, InputFacts
<1>3. LeafHashes(t, partial) \in Seq(Shas)
  BY DEF LeafHashes, Map, Shas
<1>4. KeyHashes(t) \in Seq(Shas)
  <2>1. Sorted(t.operators) \in Seq(Nat)
    BY SortedFacts
  <2>2. \A k \in Nat : Sha(KeyBytes(k)) \in Shas
    BY ShasFacts
  <2>3. KeyHashes(t) \in [1..Len(Sorted(t.operators)) -> Shas]
    BY <2>1, <2>2, SeqOf DEF KeyHashes, Map
  <2>4. QED
    BY <2>1, <2>3, SeqOf
<1>5. NetworkHashes(t) \in Seq(Shas)
  <2>1. t.network \in Seq(Nat)
    BY DEF Option
  <2>2. \A k \in Nat : Sha(U32(k)) \in Shas
    BY ShasFacts
  <2>3. NetworkHashes(t) \in [1..Len(t.network) -> Shas]
    <3>1. \A i \in DOMAIN t.network : Sha(U32(t.network[i])) \in Shas
      BY <2>1, <2>2
    <3>2. DOMAIN t.network = 1..Len(t.network)
      BY <2>1
    <3>3. QED
      BY <3>1, <3>2 DEF NetworkHashes, Map
  <2>4. QED
    BY <2>1, <2>3, SeqOf
<1>6. TimeHashes(t, partial) \in Seq(Shas)
  <2> DEFINE x == Sha(U64(t.created))
             y == Sha(U64(t.expiry))
  <2>1. x \in Shas /\ y \in Shas
    BY ShasFacts
  <2>2. TimeHashes(t, partial) \in {<< >>, <<x>>, <<x, y>>}
    BY DEF TimeHashes
  <2> HIDE DEF x, y
  <2>3. << >> \in Seq(Shas) /\ <<x>> \in Seq(Shas) /\ <<x, y>> \in Seq(Shas)
    BY <2>1, EmptySeq
  <2>4. QED
    BY <2>2, <2>3
<1>7. InvoiceHashes(t) \in Seq(Shas)
  <2> DEFINE keys == Map(t.invoices, LAMBDA a : a.id)
             texts == Map(Attached(t), LAMBDA a : Sha(<<"str", a.text>>))
  <2>1. keys \in Seq(Nat) /\ Len(keys) = Len(t.invoices)
    <3>1. keys \in [1..Len(t.invoices) -> Nat]
      <4>1. \A i \in DOMAIN t.invoices : t.invoices[i] \in AttachmentType
        OBVIOUS
      <4>2. DOMAIN t.invoices = 1..Len(t.invoices)
        OBVIOUS
      <4>3. QED
        BY <4>1, <4>2 DEF Map, AttachmentType
    <3>2. QED
      BY <3>1, SeqOf
  <2>2. Attached(t) \in Seq(AttachmentType)
    BY <2>1, SortedByFacts DEF Attached
  <2>3. \A k \in Nat : Sha(<<"str", k>>) \in Shas
    BY ShasFacts
  <2>4. texts \in [1..Len(Attached(t)) -> Shas]
    <3>1. \A i \in DOMAIN Attached(t) : Sha(<<"str", Attached(t)[i].text>>) \in Shas
      <4>1. \A i \in DOMAIN Attached(t) : Attached(t)[i] \in AttachmentType
        BY <2>2
      <4>2. QED
        BY <2>3, <4>1 DEF AttachmentType
    <3>2. DOMAIN Attached(t) = 1..Len(Attached(t))
      BY <2>2
    <3>3. QED
      BY <3>1, <3>2 DEF Map
  <2> HIDE DEF texts
  <2>5. texts \in Seq(Shas)
    BY <2>2, <2>4, SeqOf
  <2>6. InvoiceHashes(t) = << >> \/ InvoiceHashes(t) = Counted(texts)
    BY DEF InvoiceHashes, texts
  <2>7. QED
    BY <2>5, <2>6, CountedFacts, EmptySeq
<1>8. QED
  BY <1>1, <1>2, <1>3, <1>4, <1>5, <1>6, <1>7

\* What a V1, V2 or V3 transaction is.
Streamed(t) == t \in TransactionType /\ t.version \in 0..2 /\ t.input.kind # "Create"

\* The first hash of an input.
LEMMA InputHead ==
  ASSUME NEW t, Streamed(t)
  PROVE  /\ InputHashes(t.input) \in Seq(Shas) /\ InputHashes(t.input) # << >>
         /\ t.input.kind = "Transfer" =>
              InputHashes(t.input)[1] = Sha(U32(Len(t.input.spends)))
         /\ t.input.kind = "Mint" => InputHashes(t.input)[1] = Sha(KeyBytes(t.input.issuer))
<1>1. t \in TransactionType /\ t.input.kind \in {"Mint", "Transfer"}
  BY TransactionFacts, InputFacts DEF Streamed
<1>2. InputHashes(t.input) \in Seq(Shas)
  BY <1>1, PartTypes
<1>3. CASE t.input.kind = "Transfer"
  <2> DEFINE h == Map(t.input.spends, HashSpend)
  <2>1. t.input.spends \in Seq(SpendType)
    BY <1>1, <1>3, TransactionFacts, InputFacts
  <2>2. DOMAIN t.input.spends = 1..Len(t.input.spends)
    BY <2>1
  <2>3. \A i \in DOMAIN t.input.spends : t.input.spends[i] \in SpendType
    BY <2>1
  <2>4. h \in [1..Len(t.input.spends) -> Shas]
    BY <2>2, <2>3 DEF Map, Shas
  <2>5. h \in Seq(Shas) /\ Len(h) = Len(t.input.spends)
    BY <2>1, <2>4, SeqOf
  <2>6. InputHashes(t.input) = Counted(h)
    BY <1>3 DEF InputHashes
  <2> HIDE DEF h
  <2>7. QED
    BY <1>2, <1>3, <2>5, <2>6, CountedFacts
<1>4. CASE t.input.kind = "Mint"
  <2> DEFINE x == Sha(KeyBytes(t.input.issuer))
             m == Map(t.input.token, Sha)
  <2>1. t.input.issuer \in Nat /\ t.input.token \in Seq(Ids)
    BY <1>1, <1>4, TransactionFacts, InputFacts DEF Option
  <2>2. x \in Shas
    BY <2>1, ShasFacts
  <2>3. \A i \in DOMAIN t.input.token : Sha(t.input.token[i]) \in Shas
    BY <2>1 DEF Shas
  <2>4. m \in [1..Len(t.input.token) -> Shas]
    BY <2>1, <2>3 DEF Map
  <2>5. m \in Seq(Shas)
    BY <2>1, <2>4, SeqOf
  <2>6. InputHashes(t.input) = <<x>> \o m
    BY <1>4 DEF InputHashes
  <2> HIDE DEF m, x
  <2>7. <<x>> \in Seq(Shas) /\ <<x>> # << >> /\ <<x>>[1] = x
    BY <2>2
  <2>8. (<<x>> \o m)[1] = x /\ Len(<<x>> \o m) >= 1
    BY <2>5, <2>7, FirstOf
  <2>9. QED
    BY <1>2, <1>4, <2>6, <2>8 DEF x
<1>5. QED
  BY <1>1, <1>2, <1>3, <1>4

StreamOf(t, c) == TypeHashes(t) \o (InputHashes(t.input) \o c)

\* The head of a stream: the type alone, or the version and the type.
LEMMA TypeHead ==
  ASSUME NEW t, Streamed(t), NEW c \in Seq(Shas)
  PROVE  /\ InputHashes(t.input) \o c \in Seq(Shas) /\ TypeHashes(t) \in Seq(Shas)
         /\ t.version = 0 => /\ Len(TypeHashes(t)) = 1
                             /\ StreamOf(t, c)[1] = Sha(U32(InputType(t.input)))
                             /\ StreamOf(t, c)[2] = InputHashes(t.input)[1]
         /\ t.version # 0 => /\ Len(TypeHashes(t)) = 2
                             /\ StreamOf(t, c)[1] = Sha(U32(t.version))
                             /\ StreamOf(t, c)[2] = Sha(U32(InputType(t.input)))
<1> DEFINE r == InputHashes(t.input) \o c
           x == Sha(U32(InputType(t.input)))
           y == Sha(U32(t.version))
<1>1. r \in Seq(Shas) /\ Len(r) >= 1 /\ r[1] = InputHashes(t.input)[1]
  BY InputHead, FirstOf
<1>2. TypeHashes(t) \in Seq(Shas)
  BY PartTypes DEF Streamed
<1>3. TypeHashes(t) = IF t.version = 0 THEN <<x>> ELSE <<y, x>>
  BY DEF TypeHashes
<1> DEFINE h == TypeHashes(t)
<1>4. StreamOf(t, c) = h \o r
  BY DEF StreamOf
<1> HIDE DEF r, x, y, h
<1>5. \A i \in 1..Len(h) + Len(r) : (h \o r)[i] = IF i <= Len(h) THEN h[i] ELSE r[i - Len(h)]
  BY <1>1, <1>2, ConcatProperties DEF h
<1>6. CASE t.version = 0
  <2>1. Len(TypeHashes(t)) = 1 /\ TypeHashes(t)[1] = x
    BY <1>3, <1>6
  <2>2. 1 \in 1..Len(h) + Len(r) /\ 2 \in 1..Len(h) + Len(r)
    BY <1>1, <2>1 DEF h
  <2>3. (h \o r)[1] = x /\ (h \o r)[2] = r[1]
    BY <1>5, <2>1, <2>2 DEF h
  <2>4. QED
    BY <1>1, <1>2, <1>4, <1>6, <2>1, <2>3 DEF r, x
<1>7. CASE t.version # 0
  <2>1. h = <<y, x>>
    BY <1>3, <1>7 DEF h
  <2>2. Len(h) = 2 /\ h[1] = y /\ h[2] = x
    BY <2>1
  <2>3. 1 \in 1..Len(h) + Len(r) /\ 2 \in 1..Len(h) + Len(r) /\ 1 <= Len(h) /\ 2 <= Len(h)
    BY <1>1, <2>2
  <2>4. (h \o r)[1] = y /\ (h \o r)[2] = x
    BY <1>5, <2>2, <2>3
  <2>5. QED
    BY <1>1, <1>2, <1>4, <1>7, <2>2, <2>4 DEF r, x, y, h
<1>8. QED
  BY <1>6, <1>7

\* A V1 stream is no V2 or V3 stream: its type would be their version, and its
\* input their type.
LEMMA VersionsDiffer ==
  ASSUME NEW t, NEW u, Streamed(t), Streamed(u), NEW c \in Seq(Shas), NEW d \in Seq(Shas),
         t.version = 0, u.version # 0
  PROVE  StreamOf(t, c) # StreamOf(u, d)
<1> SUFFICES ASSUME StreamOf(t, c) = StreamOf(u, d)
             PROVE  FALSE
  OBVIOUS
<1>1. /\ Sha(U32(InputType(t.input))) = Sha(U32(u.version))
      /\ InputHashes(t.input)[1] = Sha(U32(InputType(u.input)))
  BY TypeHead
<1>2. t.input.kind \in {"Mint", "Transfer"} /\ u.version \in 0..2
  BY TransactionFacts, InputFacts DEF Streamed
<1>3. InputType(t.input) = u.version
  BY <1>1, NumbersBound
<1>4. t.input.kind = "Mint"
  BY <1>2, <1>3 DEF InputType
<1>5. InputHashes(t.input)[1] = Sha(KeyBytes(t.input.issuer))
  BY <1>4, InputHead
<1>6. QED
  BY <1>1, <1>5, TagsDiffer

\* Equal streams are of one version and one kind of input.
LEMMA TypePeel ==
  ASSUME NEW t, NEW u, Streamed(t), Streamed(u), NEW c \in Seq(Shas), NEW d \in Seq(Shas),
         StreamOf(t, c) = StreamOf(u, d)
  PROVE  /\ t.version = u.version /\ t.input.kind = u.input.kind
         /\ InputHashes(t.input) \o c = InputHashes(u.input) \o d
<1>1. t.version = 0 <=> u.version = 0
  BY VersionsDiffer
<1>2. Sha(U32(InputType(t.input))) = Sha(U32(InputType(u.input)))
  BY <1>1, TypeHead
<1>3. InputType(t.input) = InputType(u.input)
  BY <1>2, NumbersBound
<1>4. t.input.kind = u.input.kind
  <2>1. t.input.kind \in {"Mint", "Transfer"} /\ u.input.kind \in {"Mint", "Transfer"}
    BY TransactionFacts, InputFacts DEF Streamed
  <2>2. QED
    BY <1>3, <2>1 DEF InputType
<1>5. t.version = u.version
  <2>1. CASE t.version # 0
    <3>1. Sha(U32(t.version)) = Sha(U32(u.version))
      BY <1>1, <2>1, TypeHead
    <3>2. QED
      BY <3>1, NumbersBound
  <2>2. QED
    BY <1>1, <2>1
<1>6. Len(TypeHashes(t)) = Len(TypeHashes(u))
  BY <1>5, TypeHead
<1> DEFINE a == TypeHashes(t)
           b == TypeHashes(u)
           v == InputHashes(t.input) \o c
           w == InputHashes(u.input) \o d
<1>7. /\ a \in Seq(Shas) /\ b \in Seq(Shas) /\ v \in Seq(Shas) /\ w \in Seq(Shas)
      /\ Len(a) = Len(b) /\ a \o v = b \o w
  BY <1>6, TypeHead DEF StreamOf
<1> HIDE DEF a, b, v, w
<1>8. v = w
  BY <1>7, Peel
<1>9. QED
  BY <1>4, <1>5, <1>8 DEF v, w

\* Intervals of one set have one bound.
LEMMA IntervalsEqual ==
  ASSUME NEW m \in Nat, NEW n \in Nat, 1..m = 1..n
  PROVE  m = n
<1>1. m # 0 => m \in 1..n
  <2>1. m # 0 => m \in 1..m
    OBVIOUS
  <2>2. QED
    BY <2>1
<1>2. n # 0 => n \in 1..m
  <2>1. n # 0 => n \in 1..n
    OBVIOUS
  <2>2. QED
    BY <2>1
<1>3. QED
  BY <1>1, <1>2

\* Records of one type with equal fields are equal.
LEMMA SpendsEqual ==
  ASSUME NEW x \in SpendType, NEW y \in SpendType, x.hash = y.hash, x.index = y.index
  PROVE  x = y
BY DEF SpendType

LEMMA TransfersEqual ==
  ASSUME NEW x \in TransferType, NEW y \in TransferType, x.spends = y.spends
  PROVE  x = y
BY DEF TransferType

LEMMA MintsEqual ==
  ASSUME NEW x \in MintType, NEW y \in MintType, x.issuer = y.issuer, x.token = y.token
  PROVE  x = y
BY DEF MintType

LEMMA CreatesEqual ==
  ASSUME NEW x \in CreateType, NEW y \in CreateType, x.issuer = y.issuer, x.name = y.name,
         x.ticker = y.ticker, x.decimals = y.decimals, x.supply = y.supply,
         x.freezable = y.freezable, x.creator = y.creator
  PROVE  x = y
BY DEF CreateType

\* Spends are bound by their hashes.
LEMMA SpendsBound ==
  ASSUME NEW a \in Seq(SpendType), NEW b \in Seq(SpendType), Map(a, HashSpend) = Map(b, HashSpend)
  PROVE  a = b
<1>1. DOMAIN a = 1..Len(a) /\ DOMAIN b = 1..Len(b) /\ Len(a) \in Nat /\ Len(b) \in Nat
  OBVIOUS
<1>2. DOMAIN a = DOMAIN b /\ \A i \in DOMAIN a : HashSpend(a[i]) = HashSpend(b[i])
  BY DEF Map
<1>3. Len(a) = Len(b)
  BY <1>1, <1>2, IntervalsEqual
<1>4. ASSUME NEW i \in DOMAIN a PROVE a[i] = b[i]
  <2>1. a[i] \in SpendType /\ b[i] \in SpendType
    BY <1>1, <1>2
  <2>2. <<a[i].hash, U32(a[i].index)>> = <<b[i].hash, U32(b[i].index)>>
    BY <1>2, ShaInjective DEF HashSpend
  <2>3. a[i].hash = b[i].hash /\ a[i].index = b[i].index
    BY <2>2 DEF U32
  <2>4. QED
    BY <2>1, <2>3, SpendsEqual
<1>5. QED
  BY <1>1, <1>3, <1>4, SeqEqual

\* The hashes of spends are hashes of a stream.
LEMMA SpendHashes ==
  ASSUME NEW s \in Seq(SpendType)
  PROVE  Map(s, HashSpend) \in Seq(Shas)
<1>1. DOMAIN s = 1..Len(s) /\ \A i \in DOMAIN s : s[i] \in SpendType
  OBVIOUS
<1>2. Map(s, HashSpend) \in [1..Len(s) -> Shas]
  BY <1>1 DEF Map, Shas
<1>3. QED
  BY <1>2, SeqOf

\* The spends at the head of a stream.
LEMMA SpendsPeel ==
  ASSUME NEW a \in Seq(SpendType), NEW b \in Seq(SpendType),
         NEW v \in Seq(Shas), NEW w \in Seq(Shas),
         Counted(Map(a, HashSpend)) \o v = Counted(Map(b, HashSpend)) \o w
  PROVE  a = b /\ v = w
<1> DEFINE p == Map(a, HashSpend)
           q == Map(b, HashSpend)
<1>1. p \in Seq(Shas) /\ q \in Seq(Shas) /\ Counted(p) \o v = Counted(q) \o w
  BY SpendHashes
<1>2. \A x \in Seq(Shas), y \in Seq(Shas) :
        Counted(x) \o v = Counted(y) \o w => x = y /\ v = w
  <2> SUFFICES ASSUME NEW x \in Seq(Shas), NEW y \in Seq(Shas), Counted(x) \o v = Counted(y) \o w
               PROVE  x = y /\ v = w
    OBVIOUS
  <2>1. QED
    BY CountedPeel
<1> HIDE DEF p, q
<1>3. p = q /\ v = w
  BY <1>1, <1>2
<1>4. QED
  BY <1>3, SpendsBound DEF p, q

\* A sequence of no elements.
LEMMA LengthFacts ==
  ASSUME NEW S, NEW s \in Seq(S)
  PROVE  Len(s) \in Nat /\ (Len(s) = 0 <=> s = << >>)
OBVIOUS

\* Nothing, or one element.
LEMMA ShortFacts ==
  ASSUME NEW S, NEW s \in Seq(S), Len(s) <= 1
  PROVE  \/ Len(s) = 0 /\ s = << >>
         \/ Len(s) = 1 /\ s # << >>
<1>1. Len(s) \in Nat /\ (Len(s) = 0 <=> s = << >>)
  BY LengthFacts
<1> DEFINE n == Len(s)
<1>2. n \in Nat /\ n <= 1
  BY <1>1
<1> HIDE DEF n
<1>3. n = 0 \/ n = 1
  BY <1>2
<1>4. (n = 0 <=> s = << >>) /\ n = Len(s)
  BY <1>1 DEF n
<1>5. QED
  BY <1>3, <1>4, Zenon

\* At most one hash at the head of a stream, when what follows does not begin
\* with such a hash.
LEMMA OptionPeel ==
  ASSUME NEW m \in Seq(Shas), NEW n \in Seq(Shas), NEW v \in Seq(Shas), NEW w \in Seq(Shas),
         Len(m) <= 1, Len(n) <= 1, m \o v = n \o w,
         m # << >> /\ w # << >> => m[1] # w[1],
         n # << >> /\ v # << >> => n[1] # v[1]
  PROVE  m = n /\ v = w
<1>1. /\ (Len(m) = 0 /\ m = << >>) \/ (Len(m) = 1 /\ m # << >>)
      /\ (Len(n) = 0 /\ n = << >>) \/ (Len(n) = 1 /\ n # << >>)
  BY ShortFacts, Zenon
<1>2. CASE Len(m) = Len(n)
  BY <1>2, Peel
<1>3. CASE m = << >> /\ n # << >>
  <2>1. v = n \o w
    BY <1>3
  <2>2. v # << >> /\ v[1] = n[1]
    BY <1>3, <2>1, FirstOf
  <2>3. QED
    BY <1>3, <2>2
<1>4. CASE n = << >> /\ m # << >>
  <2>1. w = m \o v
    BY <1>4
  <2>2. w # << >> /\ w[1] = m[1]
    BY <1>4, <2>1, FirstOf
  <2>3. QED
    BY <1>4, <2>2
<1>5. QED
  BY <1>1, <1>2, <1>3, <1>4, Zenon

\* The hashes of an optional identifier.
LEMMA TokenHashes ==
  ASSUME NEW o \in Option(Ids)
  PROVE  /\ Map(o, Sha) \in Seq(Shas) /\ Len(Map(o, Sha)) <= 1
         /\ Map(o, Sha) # << >> => \E x \in Ids : Map(o, Sha)[1] = Sha(x)
<1>1. o \in Seq(Ids) /\ Len(o) <= 1
  BY DEF Option
<1>2. DOMAIN o = 1..Len(o) /\ Len(o) \in Nat /\ \A i \in DOMAIN o : o[i] \in Ids
  BY <1>1
<1>3. Map(o, Sha) \in [1..Len(o) -> Shas]
  BY <1>2 DEF Map, Shas
<1>4. Map(o, Sha) \in Seq(Shas) /\ Len(Map(o, Sha)) = Len(o)
  BY <1>2, <1>3, SeqOf
<1>5. ASSUME Map(o, Sha) # << >> PROVE \E x \in Ids : Map(o, Sha)[1] = Sha(x)
  <2>1. Len(o) # 0
    BY <1>4, <1>5
  <2>2. 1 \in DOMAIN o
    BY <1>2, <2>1
  <2>3. QED
    BY <1>2, <2>2 DEF Map
<1>6. QED
  BY <1>1, <1>4, <1>5

\* An optional identifier is bound by its hashes.
LEMMA TokenBound ==
  ASSUME NEW o \in Option(Ids), NEW p \in Option(Ids), Map(o, Sha) = Map(p, Sha)
  PROVE  o = p
<1>1. o \in Seq(Ids) /\ p \in Seq(Ids)
  BY DEF Option
<1>2. DOMAIN o = DOMAIN p /\ \A i \in DOMAIN o : Sha(o[i]) = Sha(p[i])
  BY DEF Map
<1>3. \A i \in DOMAIN o : o[i] = p[i]
  BY <1>2, ShaInjective
<1>4. Len(o) = Len(p) /\ DOMAIN o = 1..Len(o)
  BY <1>1, <1>2, IntervalsEqual
<1>5. QED
  BY <1>1, <1>3, <1>4, SeqEqual

\* Concatenation, as a name of its own: the provers then use only the facts below.
Join(a, b) == a \o b

LEMMA JoinFacts ==
  /\ \A x, y, z \in Seq(Shas) : Join(Join(x, y), z) = Join(x, Join(y, z))
  /\ \A x, y \in Seq(Shas) : Join(x, y) \in Seq(Shas)
  /\ \A a, b, c, d \in Seq(Shas) : Len(a) = Len(b) /\ Join(a, c) = Join(b, d) => a = b /\ c = d
<1>1. \A x, y, z \in Seq(Shas) : Join(Join(x, y), z) = Join(x, Join(y, z))
  BY ConcatAssociative DEF Join
<1>2. \A x, y \in Seq(Shas) : Join(x, y) \in Seq(Shas)
  BY ConcatProperties DEF Join
<1>3. \A a, b, c, d \in Seq(Shas) : Len(a) = Len(b) /\ Join(a, c) = Join(b, d) => a = b /\ c = d
  BY Peel DEF Join
<1>4. QED
  BY <1>1, <1>2, <1>3

\* The first hash of a head and the rest.
LEMMA HeadPeel ==
  ASSUME NEW a \in Shas, NEW b \in Shas, NEW m \in Seq(Shas), NEW n \in Seq(Shas),
         NEW v \in Seq(Shas), NEW w \in Seq(Shas)
  PROVE  Join(Join(<<a>>, m), v) = Join(Join(<<b>>, n), w) => a = b /\ Join(m, v) = Join(n, w)
<1> DEFINE f == <<a>>
           g == <<b>>
<1>1. f \in Seq(Shas) /\ g \in Seq(Shas) /\ Len(f) = Len(g) /\ (f = g => a = b)
  OBVIOUS
<1> HIDE DEF f, g
<1>2. /\ Join(Join(f, m), v) = Join(f, Join(m, v))
      /\ Join(Join(g, n), w) = Join(g, Join(n, w))
      /\ Join(m, v) \in Seq(Shas) /\ Join(n, w) \in Seq(Shas)
  BY <1>1, JoinFacts
<1>3. Join(Join(f, m), v) = Join(Join(g, n), w) => f = g /\ Join(m, v) = Join(n, w)
  BY <1>1, <1>2, JoinFacts
<1>4. QED
  BY <1>1, <1>3 DEF f, g

\* The hashes of spends, of a mint, at the head of a stream.
SpendStream(spends, v) == Join(Counted(Map(spends, HashSpend)), v)
MintStream(issuer, token, v) == Join(Join(<<Sha(KeyBytes(issuer))>>, Map(token, Sha)), v)

LEMMA SpendStreamPeel ==
  ASSUME NEW a \in Seq(SpendType), NEW b \in Seq(SpendType),
         NEW v \in Seq(Shas), NEW w \in Seq(Shas)
  PROVE  SpendStream(a, v) = SpendStream(b, w) => a = b /\ v = w
BY SpendsPeel DEF SpendStream, Join

\* A mint is followed by the length of a list, which is no identifier.
LEMMA MintStreamPeel ==
  ASSUME NEW x \in Nat, NEW y \in Nat, NEW o \in Option(Ids), NEW p \in Option(Ids),
         NEW v \in Seq(Shas), NEW w \in Seq(Shas), NEW i, NEW j,
         v[1] = Sha(U32(i)), w[1] = Sha(U32(j))
  PROVE  MintStream(x, o, v) = MintStream(y, p, w) => x = y /\ o = p /\ v = w
<1> DEFINE a == Sha(KeyBytes(x))
           b == Sha(KeyBytes(y))
           m == Map(o, Sha)
           n == Map(p, Sha)
<1>1. a \in Shas /\ b \in Shas /\ (a = b => x = y)
  BY ShasFacts, NumbersBound
<1>2. m \in Seq(Shas) /\ Len(m) <= 1 /\ n \in Seq(Shas) /\ Len(n) <= 1 /\ (m = n => o = p)
  BY TokenHashes, TokenBound
<1>3. (m # << >> => m[1] # w[1]) /\ (n # << >> => n[1] # v[1])
  BY TokenHashes, TagsDiffer
<1>4. /\ MintStream(x, o, v) = Join(Join(<<a>>, m), v)
      /\ MintStream(y, p, w) = Join(Join(<<b>>, n), w)
  BY DEF MintStream
<1> HIDE DEF a, b, m, n
<1>5. MintStream(x, o, v) = MintStream(y, p, w) => a = b /\ Join(m, v) = Join(n, w)
  <2>1. a \in Shas /\ b \in Shas /\ m \in Seq(Shas) /\ n \in Seq(Shas)
    BY <1>1, <1>2
  <2>2. Join(Join(<<a>>, m), v) = Join(Join(<<b>>, n), w) => a = b /\ Join(m, v) = Join(n, w)
    BY <2>1, HeadPeel
  <2>3. QED
    BY <1>4, <2>2
<1>6. Join(m, v) = Join(n, w) => m = n /\ v = w
  BY <1>2, <1>3, OptionPeel DEF Join
<1>7. QED
  BY <1>1, <1>2, <1>5, <1>6

\* The hashes of an input that is followed by a list.
LEMMA InputPeel ==
  ASSUME NEW t, NEW u, Streamed(t), Streamed(u), t.input.kind = u.input.kind,
         NEW v \in Seq(Shas), NEW w \in Seq(Shas), NEW i, NEW j,
         v[1] = Sha(U32(i)), w[1] = Sha(U32(j))
  PROVE  Join(InputHashes(t.input), v) = Join(InputHashes(u.input), w) => t.input = u.input /\ v = w
<1> DEFINE a == t.input
           b == u.input
<1>1. /\ a \in MintType \cup TransferType \cup CreateType
      /\ b \in MintType \cup TransferType \cup CreateType
      /\ a.kind \in {"Mint", "Transfer"} /\ a.kind = b.kind
  BY TransactionFacts, InputFacts DEF Streamed
<1> HIDE DEF a, b
<1>2. CASE a.kind = "Transfer"
  <2>1. /\ a \in TransferType /\ b \in TransferType
        /\ a.spends \in Seq(SpendType) /\ b.spends \in Seq(SpendType)
    BY <1>1, <1>2, InputFacts
  <2>2. /\ Join(InputHashes(a), v) = SpendStream(a.spends, v)
        /\ Join(InputHashes(b), w) = SpendStream(b.spends, w)
    BY <1>1, <1>2 DEF InputHashes, SpendStream
  <2>3. SpendStream(a.spends, v) = SpendStream(b.spends, w) => a.spends = b.spends /\ v = w
    BY <2>1, SpendStreamPeel
  <2>4. QED
    BY <2>1, <2>2, <2>3, TransfersEqual DEF a, b
<1>3. CASE a.kind = "Mint"
  <2>1. /\ a \in MintType /\ b \in MintType
        /\ a.token \in Option(Ids) /\ b.token \in Option(Ids)
        /\ a.issuer \in Nat /\ b.issuer \in Nat
    BY <1>1, <1>3, InputFacts
  <2>2. /\ Join(InputHashes(a), v) = MintStream(a.issuer, a.token, v)
        /\ Join(InputHashes(b), w) = MintStream(b.issuer, b.token, w)
    BY <1>1, <1>3 DEF InputHashes, MintStream, Join
  <2>3. MintStream(a.issuer, a.token, v) = MintStream(b.issuer, b.token, w)
          => a.issuer = b.issuer /\ a.token = b.token /\ v = w
    BY <2>1, MintStreamPeel
  <2>4. QED
    BY <2>1, <2>2, <2>3, MintsEqual DEF a, b
<1>4. QED
  BY <1>1, <1>2, <1>3

\* The fields of a leaf.
LEMMA LeafFacts ==
  ASSUME NEW l \in LeafType
  PROVE  /\ l.id \in Option(STRING) /\ l.owner \in Nat /\ l.revocation \in Nat /\ l.token \in Ids
         /\ l.amount \in Nat /\ l.bond \in Option(Nat) /\ l.lock \in Option(Nat)
BY DEF LeafType

\* Options that hold the same value are equal.
LEMMA OptionsEqual ==
  ASSUME NEW S, NEW o \in Option(S), NEW p \in Option(S), o # None, p # None, o[1] = p[1]
  PROVE  o = p
<1>1. \E x \in S : o = <<x>>
  BY OptionFacts DEF None
<1>2. \E x \in S : p = <<x>>
  BY OptionFacts DEF None
<1>3. QED
  BY <1>1, <1>2

\* An empty id is bound as none.
LEMMA BoundIdFacts ==
  ASSUME NEW o
  PROVE  /\ BoundId(o) = None <=> o \in {None, Some("")}
         /\ BoundId(o) # None => BoundId(o) = o
BY DEF BoundId

\* What the hash of a leaf is the hash of.
LEMMA LeafTuple ==
  ASSUME NEW l
  PROVE  /\ HashLeaf(l, TRUE) = Sha(<<KeyBytes(l.owner), <<"zeros33", 0>>, l.token, <<"u128", l.amount>>>>)
         /\ BoundId(l.id) = None =>
              HashLeaf(l, FALSE) = Sha(<<KeyBytes(l.owner), KeyBytes(l.revocation), U64(l.bond[1]),
                                         U64(l.lock[1]), <<"zeros33", 0>>, l.token, <<"u128", l.amount>>>>)
         /\ BoundId(l.id) # None =>
              HashLeaf(l, FALSE) = Sha(<<<<"str", l.id[1]>>, KeyBytes(l.owner), KeyBytes(l.revocation),
                                         U64(l.bond[1]), U64(l.lock[1]), <<"zeros33", 0>>, l.token,
                                         <<"u128", l.amount>>>>)
BY BoundIdFacts DEF HashLeaf

\* Tuples of different length differ, and equal tuples have equal parts.
LEMMA TuplesDiffer ==
  ASSUME NEW a1, NEW a2, NEW a3, NEW a4, NEW b1, NEW b2, NEW b3, NEW b4, NEW b5, NEW b6, NEW b7,
         NEW c1, NEW c2, NEW c3, NEW c4, NEW c5, NEW c6, NEW c7, NEW c8
  PROVE  /\ <<a1, a2, a3, a4>> # <<b1, b2, b3, b4, b5, b6, b7>>
         /\ <<a1, a2, a3, a4>> # <<c1, c2, c3, c4, c5, c6, c7, c8>>
         /\ <<b1, b2, b3, b4, b5, b6, b7>> # <<c1, c2, c3, c4, c5, c6, c7, c8>>
<1> DEFINE a == <<a1, a2, a3, a4>>
           b == <<b1, b2, b3, b4, b5, b6, b7>>
           c == <<c1, c2, c3, c4, c5, c6, c7, c8>>
<1>1. Len(a) = 4 /\ Len(b) = 7 /\ Len(c) = 8
  OBVIOUS
<1> HIDE DEF a, b, c
<1>2. a # b /\ a # c /\ b # c
  BY <1>1
<1>3. QED
  BY <1>2 DEF a, b, c

LEMMA PairsEqual ==
  ASSUME NEW a, NEW b
  PROVE  /\ KeyBytes(a) = KeyBytes(b) => a = b
         /\ U64(a) = U64(b) => a = b
         /\ <<"u128", a>> = <<"u128", b>> => a = b
         /\ <<"str", a>> = <<"str", b>> => a = b
BY DEF KeyBytes, U64

\* A partial hash of a leaf is no final one.
LEMMA LeafKinds ==
  ASSUME NEW l, NEW m
  PROVE  HashLeaf(l, TRUE) # HashLeaf(m, FALSE)
BY LeafTuple, ShaInjective, TuplesDiffer

\* The partial hash of a leaf binds owner, token and amount.
LEMMA LeafPartial ==
  ASSUME NEW l, NEW m, HashLeaf(l, TRUE) = HashLeaf(m, TRUE)
  PROVE  l.owner = m.owner /\ l.token = m.token /\ l.amount = m.amount
<1> DEFINE x == <<KeyBytes(l.owner), <<"zeros33", 0>>, l.token, <<"u128", l.amount>>>>
           y == <<KeyBytes(m.owner), <<"zeros33", 0>>, m.token, <<"u128", m.amount>>>>
<1>1. x = y
  <2>1. HashLeaf(l, TRUE) = Sha(x) /\ HashLeaf(m, TRUE) = Sha(y)
    BY LeafTuple
  <2> HIDE DEF x, y
  <2>2. QED
    BY <2>1, ShaInjective
<1>2. /\ KeyBytes(l.owner) = KeyBytes(m.owner) /\ l.token = m.token
      /\ <<"u128", l.amount>> = <<"u128", m.amount>>
  BY <1>1
<1>3. QED
  BY <1>2, PairsEqual

\* The final hash of a leaf binds the operator's fields as well.
LEMMA LeafFinal ==
  ASSUME NEW l \in LeafType, NEW m \in LeafType, HashLeaf(l, FALSE) = HashLeaf(m, FALSE),
         l.bond # None, l.lock # None, m.bond # None, m.lock # None
  PROVE  /\ l.owner = m.owner /\ l.token = m.token /\ l.amount = m.amount
         /\ BoundId(l.id) = BoundId(m.id)
         /\ l.revocation = m.revocation /\ l.bond = m.bond /\ l.lock = m.lock
<1>1. BoundId(l.id) = None <=> BoundId(m.id) = None
  <2>1. ASSUME NEW a, NEW b, BoundId(a.id) = None, BoundId(b.id) # None,
               HashLeaf(a, FALSE) = HashLeaf(b, FALSE)
        PROVE  FALSE
    <3> DEFINE x == <<KeyBytes(a.owner), KeyBytes(a.revocation), U64(a.bond[1]), U64(a.lock[1]),
                      <<"zeros33", 0>>, a.token, <<"u128", a.amount>>>>
               y == <<<<"str", b.id[1]>>, KeyBytes(b.owner), KeyBytes(b.revocation), U64(b.bond[1]),
                      U64(b.lock[1]), <<"zeros33", 0>>, b.token, <<"u128", b.amount>>>>
    <3>1. HashLeaf(a, FALSE) = Sha(x) /\ HashLeaf(b, FALSE) = Sha(y)
      BY <2>1, LeafTuple
    <3>2. x # y
      BY TuplesDiffer
    <3> HIDE DEF x, y
    <3>3. QED
      BY <2>1, <3>1, <3>2, ShaInjective
  <2>2. QED
    BY <2>1
<1>2. CASE BoundId(l.id) = None
  <2>1. <<KeyBytes(l.owner), KeyBytes(l.revocation), U64(l.bond[1]), U64(l.lock[1]),
          <<"zeros33", 0>>, l.token, <<"u128", l.amount>>>>
          = <<KeyBytes(m.owner), KeyBytes(m.revocation), U64(m.bond[1]), U64(m.lock[1]),
              <<"zeros33", 0>>, m.token, <<"u128", m.amount>>>>
    <3> DEFINE x == <<KeyBytes(l.owner), KeyBytes(l.revocation), U64(l.bond[1]), U64(l.lock[1]),
                      <<"zeros33", 0>>, l.token, <<"u128", l.amount>>>>
               y == <<KeyBytes(m.owner), KeyBytes(m.revocation), U64(m.bond[1]), U64(m.lock[1]),
                      <<"zeros33", 0>>, m.token, <<"u128", m.amount>>>>
    <3>1. HashLeaf(l, FALSE) = Sha(x)
      BY <1>2, LeafTuple
    <3>2. HashLeaf(m, FALSE) = Sha(y)
      BY <1>1, <1>2, LeafTuple
    <3> HIDE DEF x, y
    <3>3. x = y
      BY <3>1, <3>2, ShaInjective
    <3>4. QED
      BY <3>3 DEF x, y
  <2>2. /\ KeyBytes(l.owner) = KeyBytes(m.owner) /\ KeyBytes(l.revocation) = KeyBytes(m.revocation)
        /\ U64(l.bond[1]) = U64(m.bond[1]) /\ U64(l.lock[1]) = U64(m.lock[1])
        /\ l.token = m.token /\ <<"u128", l.amount>> = <<"u128", m.amount>>
    BY <2>1
  <2>3. /\ l.owner = m.owner /\ l.revocation = m.revocation /\ l.bond[1] = m.bond[1]
        /\ l.lock[1] = m.lock[1] /\ l.token = m.token /\ l.amount = m.amount
    BY <2>2, PairsEqual
  <2>4. QED
    BY <1>1, <1>2, <2>3, LeafFacts, OptionsEqual
<1>3. CASE BoundId(l.id) # None
  <2>1. <<<<"str", l.id[1]>>, KeyBytes(l.owner), KeyBytes(l.revocation), U64(l.bond[1]),
          U64(l.lock[1]), <<"zeros33", 0>>, l.token, <<"u128", l.amount>>>>
          = <<<<"str", m.id[1]>>, KeyBytes(m.owner), KeyBytes(m.revocation), U64(m.bond[1]),
              U64(m.lock[1]), <<"zeros33", 0>>, m.token, <<"u128", m.amount>>>>
    BY <1>1, <1>3, LeafTuple, ShaInjective
  <2>2. /\ KeyBytes(l.owner) = KeyBytes(m.owner) /\ KeyBytes(l.revocation) = KeyBytes(m.revocation)
        /\ U64(l.bond[1]) = U64(m.bond[1]) /\ U64(l.lock[1]) = U64(m.lock[1])
        /\ l.token = m.token /\ <<"u128", l.amount>> = <<"u128", m.amount>>
        /\ <<"str", l.id[1]>> = <<"str", m.id[1]>>
    BY <2>1
  <2>3. /\ l.owner = m.owner /\ l.revocation = m.revocation /\ l.bond[1] = m.bond[1]
        /\ l.lock[1] = m.lock[1] /\ l.token = m.token /\ l.amount = m.amount
        /\ l.id[1] = m.id[1]
    BY <2>2, PairsEqual
  <2>4. l.id # None /\ m.id # None
    BY <1>1, <1>3, BoundIdFacts
  <2>5. l.id = m.id
    BY <2>3, <2>4, LeafFacts, OptionsEqual
  <2>6. QED
    BY <2>3, <2>5, LeafFacts, OptionsEqual
<1>4. QED
  BY <1>2, <1>3

\* Equal lists of hashes are as long as each other, and so are the lists they
\* are the hashes of.
LEMMA SameDomain ==
  ASSUME NEW S, NEW T, NEW a \in Seq(S), NEW b \in Seq(T), DOMAIN a = DOMAIN b
  PROVE  Len(a) = Len(b)
<1>1. DOMAIN a = 1..Len(a) /\ DOMAIN b = 1..Len(b) /\ Len(a) \in Nat /\ Len(b) \in Nat
  OBVIOUS
<1>2. QED
  BY <1>1, IntervalsEqual

\* Two leaves with one hash are bound alike.
LEMMA StreamLeafBound ==
  ASSUME NEW t, NEW u, t.version # 3, u.version # 3, NEW p \in BOOLEAN, NEW q \in BOOLEAN,
         NEW l \in LeafType, NEW m \in LeafType,
         p \/ (l.bond # None /\ l.lock # None), q \/ (m.bond # None /\ m.lock # None),
         HashLeaf(l, p) = HashLeaf(m, q)
  PROVE  BoundLeaf(t, p, l) = BoundLeaf(u, q, m)
<1>1. p = q
  <2>1. ~(p = TRUE /\ q = FALSE)
    BY LeafKinds
  <2>2. ~(p = FALSE /\ q = TRUE)
    BY LeafKinds
  <2>3. QED
    BY <2>1, <2>2
<1>2. CASE p
  <2>1. l.owner = m.owner /\ l.token = m.token /\ l.amount = m.amount
    BY <1>1, <1>2, LeafPartial
  <2>2. OperatorsTurn(t, p) /\ OperatorsTurn(u, q)
    BY <1>1, <1>2 DEF OperatorsTurn
  <2>3. QED
    BY <2>1, <2>2 DEF BoundLeaf
<1>3. CASE ~p
  <2>1. /\ l.owner = m.owner /\ l.token = m.token /\ l.amount = m.amount
        /\ BoundId(l.id) = BoundId(m.id)
        /\ l.revocation = m.revocation /\ l.bond = m.bond /\ l.lock = m.lock
    BY <1>1, <1>3, LeafFinal
  <2>2. ~OperatorsTurn(t, p) /\ ~OperatorsTurn(u, q)
    BY <1>1, <1>3 DEF OperatorsTurn
  <2>3. \A o : BoundNumber(t, o) = o /\ BoundNumber(u, o) = o
    BY DEF BoundNumber
  <2>4. QED
    BY <1>1, <1>3, <2>1, <2>2, <2>3 DEF BoundLeaf
<1>4. QED
  BY <1>2, <1>3

\* The leaves are bound by their hashes.
LEMMA StreamLeavesBound ==
  ASSUME NEW t, NEW u, Streamed(t), Streamed(u), NEW p \in BOOLEAN, NEW q \in BOOLEAN,
         Hashable(t, p), Hashable(u, q), LeafHashes(t, p) = LeafHashes(u, q)
  PROVE  Bound(t, p).leaves = Bound(u, q).leaves
<1>1. /\ t.leaves \in Seq(LeafType) /\ u.leaves \in Seq(LeafType)
      /\ t.version # 3 /\ u.version # 3
  BY TransactionFacts DEF Streamed
<1>2. /\ DOMAIN t.leaves = DOMAIN u.leaves
      /\ \A i \in DOMAIN t.leaves : HashLeaf(t.leaves[i], p) = HashLeaf(u.leaves[i], q)
  BY DEF LeafHashes, Map
<1>3. \A i \in DOMAIN t.leaves : BoundLeaf(t, p, t.leaves[i]) = BoundLeaf(u, q, u.leaves[i])
  <2> TAKE i \in DOMAIN t.leaves
  <2>1. t.leaves[i] \in LeafType /\ u.leaves[i] \in LeafType
    BY <1>1, <1>2
  <2>2. /\ p \/ (t.leaves[i].bond # None /\ t.leaves[i].lock # None)
        /\ q \/ (u.leaves[i].bond # None /\ u.leaves[i].lock # None)
    BY <1>2 DEF Hashable
  <2>3. QED
    BY <1>1, <1>2, <2>1, <2>2, StreamLeafBound
<1>4. QED
  BY <1>2, <1>3 DEF Bound, Map

\* The operators are bound by the hashes of their keys.
LEMMA KeysBound ==
  ASSUME NEW a \in Seq(Nat), NEW b \in Seq(Nat),
         Map(a, LAMBDA k : Sha(KeyBytes(k))) = Map(b, LAMBDA k : Sha(KeyBytes(k)))
  PROVE  a = b
<1>1. DOMAIN a = DOMAIN b /\ \A i \in DOMAIN a : Sha(KeyBytes(a[i])) = Sha(KeyBytes(b[i]))
  BY DEF Map
<1>2. \A i \in DOMAIN a : a[i] = b[i]
  BY <1>1, NumbersBound
<1>3. Len(a) = Len(b) /\ DOMAIN a = 1..Len(a)
  BY <1>1, SameDomain
<1>4. QED
  BY <1>2, <1>3, SeqEqual

\* What follows the operators of a stream.
TailOf(t, partial) == Join(NetworkHashes(t), Join(TimeHashes(t, partial), InvoiceHashes(t)))

\* The attachments begin with a number.
LEMMA InvoiceHead ==
  ASSUME NEW t, Streamed(t)
  PROVE  /\ InvoiceHashes(t) \in Seq(Shas)
         /\ InvoiceHashes(t) # << >> => \E n : InvoiceHashes(t)[1] = Sha(U32(n))
<1>1. InvoiceHashes(t) \in Seq(Shas)
  BY PartTypes DEF Streamed
<1>2. CASE t.version # 2
  BY <1>1, <1>2 DEF InvoiceHashes
<1>3. CASE t.version = 2
  <2> DEFINE x == Map(Attached(t), LAMBDA a : Sha(<<"str", a.text>>))
  <2>1. InvoiceHashes(t) = <<Sha(U32(Len(x)))>> \o x
    BY <1>3 DEF InvoiceHashes, Counted
  <2>2. InvoiceHashes(t)[1] = Sha(U32(Len(x)))
    BY <2>1
  <2>3. QED
    BY <1>1, <2>2
<1>4. QED
  BY <1>2, <1>3

\* The network is one number or none.
LEMMA NetworkHead ==
  ASSUME NEW t, Streamed(t)
  PROVE  /\ NetworkHashes(t) \in Seq(Shas) /\ Len(NetworkHashes(t)) <= 1
         /\ NetworkHashes(t) # << >> => NetworkHashes(t)[1] = Sha(U32(t.network[1]))
<1>1. t.network \in Option(Nat) /\ NetworkHashes(t) \in Seq(Shas)
  BY TransactionFacts, PartTypes DEF Streamed
<1>2. t.network \in Seq(Nat) /\ Len(t.network) <= 1
  BY <1>1 DEF Option
<1>3. DOMAIN NetworkHashes(t) = DOMAIN t.network
  BY DEF NetworkHashes, Map
<1>4. Len(NetworkHashes(t)) = Len(t.network)
  BY <1>1, <1>2, <1>3, SameDomain
<1>5. ASSUME NetworkHashes(t) # << >> PROVE NetworkHashes(t)[1] = Sha(U32(t.network[1]))
  <2>1. \E n \in Nat : t.network = <<n>>
    <3>1. t.network = << >> => NetworkHashes(t) = << >>
      BY DEF NetworkHashes, Map
    <3>2. QED
      BY <1>1, <1>5, <3>1, OptionFacts
  <2>2. 1 \in DOMAIN t.network
    BY <2>1
  <2>3. QED
    BY <2>2 DEF NetworkHashes, Map
<1>6. QED
  BY <1>1, <1>2, <1>4, <1>5

\* The network is bound by its hash.
LEMMA NetworkBound ==
  ASSUME NEW t, NEW u, Streamed(t), Streamed(u), NetworkHashes(t) = NetworkHashes(u)
  PROVE  t.network = u.network
<1>1. t.network \in Option(Nat) /\ u.network \in Option(Nat)
  BY TransactionFacts DEF Streamed
<1>2. /\ DOMAIN t.network = DOMAIN u.network
      /\ \A i \in DOMAIN t.network : Sha(U32(t.network[i])) = Sha(U32(u.network[i]))
  BY DEF NetworkHashes, Map
<1>3. \A i \in DOMAIN t.network : t.network[i] = u.network[i]
  BY <1>2, NumbersBound
<1>4. t.network \in Seq(Nat) /\ u.network \in Seq(Nat)
  BY <1>1 DEF Option
<1>5. Len(t.network) = Len(u.network) /\ DOMAIN t.network = 1..Len(t.network)
  BY <1>2, <1>4, SameDomain
<1>6. QED
  BY <1>3, <1>4, <1>5, SeqEqual

\* A sequence of one element before none or one.
LEMMA ShortConcat ==
  ASSUME NEW x, NEW y
  PROVE  <<x>> \o << >> = <<x>> /\ <<x>> \o <<y>> = <<x, y>>
<1>1. <<x>> \o << >> = <<x>>
  OBVIOUS
<1>2. <<x>> \o <<y>> = <<x, y>>
  <2> DEFINE S == {x, y}
             a == <<x>>
             b == <<y>>
             c == <<x, y>>
  <2>1. /\ a \in Seq(S) /\ b \in Seq(S) /\ c \in Seq(S) /\ Len(a) = 1 /\ Len(b) = 1 /\ Len(c) = 2
        /\ a[1] = x /\ b[1] = y /\ c[1] = x /\ c[2] = y
    OBVIOUS
  <2> HIDE DEF S, a, b, c
  <2>2. /\ a \o b \in Seq(S) /\ Len(a \o b) = Len(a) + Len(b)
        /\ \A i \in 1..Len(a) + Len(b) : (a \o b)[i] = IF i <= Len(a) THEN a[i] ELSE b[i - Len(a)]
    BY <2>1, ConcatProperties, Zenon
  <2>3. Len(a \o b) = 2 /\ (a \o b)[1] = x /\ (a \o b)[2] = y
    BY <2>1, <2>2
  <2>4. \A i \in 1..2 : (a \o b)[i] = c[i]
    BY <2>1, <2>3
  <2>5. a \o b = c
    BY <2>1, <2>2, <2>3, <2>4, SeqEqual
  <2>6. QED
    BY <2>5 DEF a, b, c
<1>3. QED
  BY <1>1, <1>2

\* The times: none, or the creation time and, in a final hash, the expiry.
LEMMA TimeHead ==
  ASSUME NEW t, Streamed(t), NEW partial \in BOOLEAN
  PROVE  /\ t.version = 0 => TimeHashes(t, partial) = << >>
         /\ t.version # 0 =>
              \E e \in Seq(Shas) :
                 /\ TimeHashes(t, partial) = Join(<<Sha(U64(t.created))>>, e) /\ Len(e) <= 1
                 /\ e = IF partial THEN << >> ELSE <<Sha(U64(t.expiry))>>
<1>1. t.created \in Nat /\ t.expiry \in Nat
  BY TransactionFacts DEF Streamed
<1> DEFINE x == Sha(U64(t.created))
           y == Sha(U64(t.expiry))
           e == IF partial THEN << >> ELSE <<y>>
<1>2. x \in Shas /\ y \in Shas
  BY <1>1, ShasFacts
<1>3. t.version # 0 => TimeHashes(t, partial) = IF partial THEN <<x>> ELSE <<x, y>>
  BY DEF TimeHashes
<1>4. e = IF partial THEN << >> ELSE <<Sha(U64(t.expiry))>>
  OBVIOUS
<1> HIDE DEF x, y
<1>5. /\ e \in Seq(Shas) /\ Len(e) <= 1
      /\ Join(<<x>>, e) = IF partial THEN <<x>> ELSE <<x, y>>
  <2>1. << >> \in Seq(Shas) /\ <<y>> \in Seq(Shas) /\ Len(<<y>>) = 1
    BY <1>2, EmptySeq
  <2>2. e \in Seq(Shas) /\ Len(e) <= 1
    BY <2>1
  <2>3. <<x>> \o << >> = <<x>> /\ <<x>> \o <<y>> = <<x, y>>
    BY ShortConcat
  <2>4. QED
    BY <2>2, <2>3 DEF Join
<1> HIDE DEF e
<1>6. t.version # 0 => TimeHashes(t, partial) = Join(<<x>>, e)
  BY <1>3, <1>5
<1>7. t.version = 0 => TimeHashes(t, partial) = << >>
  BY DEF TimeHashes
<1>8. QED
  BY <1>4, <1>5, <1>6, <1>7 DEF x

\* What begins with a time is bound: a time is no number of attachments.
LEMMA TimePeel ==
  ASSUME NEW t, NEW u, Streamed(t), Streamed(u), t.version = u.version, t.version # 0,
         NEW p \in BOOLEAN, NEW q \in BOOLEAN
  PROVE  Join(TimeHashes(t, p), InvoiceHashes(t)) = Join(TimeHashes(u, q), InvoiceHashes(u))
           => /\ p = q /\ t.created = u.created /\ (~p => t.expiry = u.expiry)
              /\ InvoiceHashes(t) = InvoiceHashes(u)
<1> DEFINE a == Sha(U64(t.created))
           b == Sha(U64(u.created))
           i == InvoiceHashes(t)
           j == InvoiceHashes(u)
<1>1. t.created \in Nat /\ t.expiry \in Nat /\ u.created \in Nat /\ u.expiry \in Nat
  BY TransactionFacts DEF Streamed
<1>2. a \in Shas /\ b \in Shas /\ (a = b => t.created = u.created)
  BY <1>1, ShasFacts, NumbersBound
<1>3. /\ i \in Seq(Shas) /\ (i # << >> => \E n : i[1] = Sha(U32(n)))
      /\ j \in Seq(Shas) /\ (j # << >> => \E n : j[1] = Sha(U32(n)))
  BY InvoiceHead
<1>4. PICK m \in Seq(Shas) : /\ TimeHashes(t, p) = Join(<<a>>, m) /\ Len(m) <= 1
                             /\ m = IF p THEN << >> ELSE <<Sha(U64(t.expiry))>>
  BY TimeHead
<1>5. PICK n \in Seq(Shas) : /\ TimeHashes(u, q) = Join(<<b>>, n) /\ Len(n) <= 1
                             /\ n = IF q THEN << >> ELSE <<Sha(U64(u.expiry))>>
  BY TimeHead
<1>6. /\ m # << >> => m[1] = Sha(U64(t.expiry))
      /\ n # << >> => n[1] = Sha(U64(u.expiry))
      /\ p <=> m = << >>
      /\ q <=> n = << >>
  BY <1>4, <1>5
<1>7. m = n => p = q /\ (~p => t.expiry = u.expiry)
  <2>1. m = n => p = q
    BY <1>6
  <2>2. m = n /\ ~p => Sha(U64(t.expiry)) = Sha(U64(u.expiry))
    BY <1>6
  <2>3. QED
    BY <2>1, <2>2, NumbersBound
<1>8. (m # << >> /\ j # << >> => m[1] # j[1]) /\ (n # << >> /\ i # << >> => n[1] # i[1])
  BY <1>3, <1>6, TagsDiffer
<1>9. Len(m) <= 1 /\ Len(n) <= 1
  BY <1>4, <1>5
<1> HIDE DEF a, b, i, j
<1>10. Join(Join(<<a>>, m), i) = Join(Join(<<b>>, n), j) => a = b /\ Join(m, i) = Join(n, j)
  BY <1>2, <1>3, HeadPeel
<1>11. Join(m, i) = Join(n, j) => m = n /\ i = j
  BY <1>3, <1>8, <1>9, OptionPeel DEF Join
<1>12. Join(TimeHashes(t, p), i) = Join(Join(<<a>>, m), i)
  BY <1>4
<1>13. Join(TimeHashes(u, q), j) = Join(Join(<<b>>, n), j)
  BY <1>5
<1>14. QED
  BY <1>2, <1>7, <1>10, <1>11, <1>12, <1>13 DEF i, j

\* The end of a stream: network, times and attachments.
LEMMA TailPeel ==
  ASSUME NEW t, NEW u, Streamed(t), Streamed(u), t.version = u.version,
         NEW p \in BOOLEAN, NEW q \in BOOLEAN, TailOf(t, p) = TailOf(u, q)
  PROVE  /\ t.network = u.network /\ InvoiceHashes(t) = InvoiceHashes(u)
         /\ t.version # 0 => p = q /\ t.created = u.created /\ (~p => t.expiry = u.expiry)
<1> DEFINE v == Join(TimeHashes(t, p), InvoiceHashes(t))
           w == Join(TimeHashes(u, q), InvoiceHashes(u))
           m == NetworkHashes(t)
           n == NetworkHashes(u)
<1>1. /\ m \in Seq(Shas) /\ Len(m) <= 1 /\ (m # << >> => \E k : m[1] = Sha(U32(k)))
      /\ n \in Seq(Shas) /\ Len(n) <= 1 /\ (n # << >> => \E k : n[1] = Sha(U32(k)))
  BY NetworkHead
<1>2. v \in Seq(Shas) /\ w \in Seq(Shas)
  BY PartTypes, JoinFacts DEF Streamed
<1>3. (v # << >> => \E k : v[1] = Sha(U64(k))) /\ (w # << >> => \E k : w[1] = Sha(U64(k)))
  <2>1. ASSUME NEW x, Streamed(x), NEW r \in BOOLEAN, Join(TimeHashes(x, r), InvoiceHashes(x)) # << >>
        PROVE  \E k : Join(TimeHashes(x, r), InvoiceHashes(x))[1] = Sha(U64(k))
    <3>1. CASE x.version = 0
      <4>1. TimeHashes(x, r) = << >> /\ InvoiceHashes(x) = << >>
        <5>1. TimeHashes(x, r) = << >>
          BY <3>1 DEF TimeHashes
        <5>2. QED
          BY <3>1, <5>1 DEF InvoiceHashes
      <4>2. QED
        BY <2>1, <4>1 DEF Join
    <3>2. CASE x.version # 0
      <4>1. /\ TimeHashes(x, r) \in Seq(Shas) /\ InvoiceHashes(x) \in Seq(Shas)
        BY <2>1, PartTypes DEF Streamed
      <4>2. TimeHashes(x, r) # << >> /\ TimeHashes(x, r)[1] = Sha(U64(x.created))
        BY <3>2 DEF TimeHashes
      <4>3. QED
        BY <4>1, <4>2, FirstOf DEF Join
    <3>3. QED
      BY <3>1, <3>2
  <2>2. QED
    BY <2>1
<1> HIDE DEF v, w, m, n
<1>4. (m # << >> /\ w # << >> => m[1] # w[1]) /\ (n # << >> /\ v # << >> => n[1] # v[1])
  BY <1>1, <1>3, TagsDiffer
<1>5. Join(m, v) = Join(n, w) => m = n /\ v = w
  BY <1>1, <1>2, <1>4, OptionPeel DEF Join
<1>6. m = n /\ v = w
  BY <1>5 DEF TailOf, m, n, v, w
<1>7. t.network = u.network
  BY <1>6, NetworkBound DEF m, n
<1>8. CASE t.version = 0
  BY <1>7, <1>8 DEF InvoiceHashes
<1>9. CASE t.version # 0
  BY <1>6, <1>7, <1>9, TimePeel DEF v, w
<1>10. QED
  BY <1>8, <1>9

Increasing(a) == \A i, j \in DOMAIN a : i < j => a[i] < a[j]

\* Every value of an increasing sequence stands, in another one that has all
\* of its values, where it stood or after: there must be room for the smaller.
LEMMA NoEarlier ==
  ASSUME NEW a \in Seq(Nat), NEW b \in Seq(Nat), Increasing(a), Increasing(b),
         \A i \in DOMAIN a : \E j \in DOMAIN b : a[i] = b[j],
         NEW i \in DOMAIN a, NEW j \in DOMAIN b, a[i] = b[j]
  PROVE  i <= j
<1>1. /\ Len(a) \in Nat /\ DOMAIN a = 1..Len(a) /\ a \in [DOMAIN a -> Nat]
      /\ Len(b) \in Nat /\ DOMAIN b = 1..Len(b) /\ b \in [DOMAIN b -> Nat]
  BY SeqFacts
<1>2. i \in Nat /\ j \in Nat /\ i <= Len(a) /\ j <= Len(b) /\ 1 <= i /\ 1 <= j
  BY <1>1
<1> DEFINE S == 1..i
           T == 1..j
           place(k) == CHOOSE l \in DOMAIN b : b[l] = a[k]
           f == [k \in S |-> place(k)]
<1>3. \A k \in S : k \in DOMAIN a /\ place(k) \in DOMAIN b /\ b[place(k)] = a[k]
  BY <1>1, <1>2
<1>4. \A k \in S : place(k) \in T
  <2> TAKE k \in S
  <2> DEFINE l == place(k)
  <2>1. k \in DOMAIN a /\ l \in DOMAIN b /\ b[l] = a[k] /\ k <= i
    BY <1>2, <1>3
  <2> HIDE DEF l
  <2>2. a[k] <= a[i] /\ a[k] \in Nat /\ a[i] \in Nat
    <3>1. k \in Nat /\ i \in Nat /\ a[k] \in Nat /\ a[i] \in Nat
      BY <1>1, <1>2, <2>1
    <3>2. CASE k = i
      BY <3>1, <3>2
    <3>3. CASE k < i
      BY <2>1, <3>1, <3>3 DEF Increasing
    <3>4. QED
      BY <2>1, <3>1, <3>2, <3>3
  <2>3. ~(j < l)
    <3>1. j < l => b[j] < b[l]
      BY <2>1 DEF Increasing
    <3>2. QED
      BY <2>1, <2>2, <3>1
  <2>4. l \in T
    BY <1>1, <1>2, <2>1, <2>3
  <2>5. QED
    BY <2>4 DEF l
<1>5. f \in [S -> T]
  BY <1>4
<1>6. \A k, l \in S : f[k] = f[l] => k = l
  <2> TAKE k, l \in S
  <2>1. f[k] = f[l] => a[k] = a[l]
    BY <1>3
  <2>2. k < l => a[k] < a[l]
    BY <1>3 DEF Increasing
  <2>3. l < k => a[l] < a[k]
    BY <1>3 DEF Increasing
  <2>4. a[k] \in Nat /\ a[l] \in Nat /\ k \in Nat /\ l \in Nat
    <3>1. k \in DOMAIN a /\ l \in DOMAIN a
      BY <1>3
    <3>2. \A x \in DOMAIN a : x \in Nat /\ a[x] \in Nat
      BY <1>1
    <3>3. QED
      BY <3>1, <3>2
  <2> HIDE DEF f
  <2>5. QED
    BY <2>1, <2>2, <2>3, <2>4
<1>7. IsFiniteSet(S) /\ Cardinality(S) = i /\ IsFiniteSet(T) /\ Cardinality(T) = j
  BY <1>2, FS_Interval
<1> HIDE DEF S, T, f
<1>8. ~(j < i)
  <2> SUFFICES ASSUME j < i PROVE FALSE
    OBVIOUS
  <2>1. /\ IsFiniteSet(S) /\ IsFiniteSet(T) /\ Cardinality(T) < Cardinality(S)
        /\ f \in [S -> T]
    BY <1>5, <1>7
  <2>2. \E x, y \in S : x # y /\ f[x] = f[y]
    BY ONLY <2>1, FS_PigeonHole
  <2>3. QED
    BY <1>6, <2>2
<1>9. QED
  BY <1>2, <1>8

\* Two increasing sequences of the same values are equal.
LEMMA IncreasingEqual ==
  ASSUME NEW a \in Seq(Nat), NEW b \in Seq(Nat), Increasing(a), Increasing(b),
         \A i \in DOMAIN a : \E j \in DOMAIN b : a[i] = b[j],
         \A j \in DOMAIN b : \E i \in DOMAIN a : b[j] = a[i]
  PROVE  a = b
<1>1. /\ Len(a) \in Nat /\ DOMAIN a = 1..Len(a) /\ Len(b) \in Nat /\ DOMAIN b = 1..Len(b)
  BY SeqFacts
<1>2. \A i \in DOMAIN a, j \in DOMAIN b : a[i] = b[j] => i <= j
  BY NoEarlier
<1>3. \A i \in DOMAIN a, j \in DOMAIN b : b[j] = a[i] => j <= i
  BY NoEarlier
<1>4. \A i \in DOMAIN a : i \in DOMAIN b /\ a[i] = b[i]
  <2> TAKE i \in DOMAIN a
  <2>1. PICK j \in DOMAIN b : a[i] = b[j]
    OBVIOUS
  <2>2. i = j
    <3>1. i <= j /\ j <= i /\ i \in Nat /\ j \in Nat
      BY <1>1, <1>2, <1>3, <2>1
    <3>2. QED
      BY <3>1
  <2>3. QED
    BY <2>1, <2>2
<1>5. \A j \in DOMAIN b : j \in DOMAIN a
  <2> TAKE j \in DOMAIN b
  <2>1. PICK i \in DOMAIN a : b[j] = a[i]
    OBVIOUS
  <2>2. i = j
    <3>1. i <= j /\ j <= i /\ i \in Nat /\ j \in Nat
      BY <1>1, <1>2, <1>3, <2>1
    <3>2. QED
      BY <3>1
  <2>3. QED
    BY <2>2
<1>6. DOMAIN a = DOMAIN b
  BY <1>4, <1>5
<1>7. Len(a) = Len(b)
  BY <1>6, SameDomain
<1>8. QED
  BY <1>1, <1>4, <1>7, SeqEqual

\* An order reaches every position.
LEMMA OrderOnto ==
  ASSUME NEW keys \in Seq(Nat), NEW p \in Orders(keys)
  PROVE  \A k \in DOMAIN keys : \E i \in DOMAIN keys : p[i] = k
<1> DEFINE D == DOMAIN keys
<1>1. IsFiniteSet(D)
  BY SeqFacts
<1>2. p \in Injection(D, D)
  BY DEF Orders, Injection, IsInjective
<1> HIDE DEF D
<1>3. p \in Surjection(D, D)
  BY <1>1, <1>2, FS_Injection
<1>4. QED
  BY <1>3 DEF Surjection, D

Distinct(s) == \A i, j \in DOMAIN s : s[i] = s[j] => i = j

\* Sorting distinct numbers gives an increasing sequence of the same numbers.
LEMMA SortedDistinct ==
  ASSUME NEW s \in Seq(Nat), Distinct(s)
  PROVE  /\ Sorted(s) \in Seq(Nat) /\ DOMAIN Sorted(s) = DOMAIN s /\ Increasing(Sorted(s))
         /\ \A i \in DOMAIN s : \E j \in DOMAIN s : Sorted(s)[i] = s[j]
         /\ \A j \in DOMAIN s : \E i \in DOMAIN s : s[j] = Sorted(s)[i]
<1>1. /\ Sorted(s) \in Seq(Nat) /\ DOMAIN Sorted(s) = DOMAIN s
      /\ \A i, j \in DOMAIN s : i <= j => Sorted(s)[i] <= Sorted(s)[j]
  BY SortedFacts
<1>2. PICK p \in Orders(s) : Sorted(s) = [i \in DOMAIN s |-> s[p[i]]]
  BY SortedFacts
<1>3. p \in [DOMAIN s -> DOMAIN s] /\ \A i, j \in DOMAIN s : p[i] = p[j] => i = j
  BY DEF Orders
<1>4. \A i \in DOMAIN s : p[i] \in DOMAIN s /\ Sorted(s)[i] = s[p[i]]
  BY <1>2, <1>3
<1>5. \A j \in DOMAIN s : \E i \in DOMAIN s : s[j] = Sorted(s)[i]
  <2> TAKE j \in DOMAIN s
  <2>1. PICK i \in DOMAIN s : p[i] = j
    BY OrderOnto
  <2>2. QED
    BY <1>4, <2>1
<1>6. Increasing(Sorted(s))
  <2> SUFFICES ASSUME NEW i \in DOMAIN s, NEW j \in DOMAIN s, i < j
               PROVE  Sorted(s)[i] < Sorted(s)[j]
    BY <1>1 DEF Increasing
  <2>1. i \in Nat /\ j \in Nat /\ Sorted(s)[i] \in Nat /\ Sorted(s)[j] \in Nat
    <3>1. i \in Nat /\ j \in Nat
      BY SeqFacts
    <3>2. \A k \in DOMAIN s : Sorted(s)[k] \in Nat
      BY <1>1, SeqFacts
    <3>3. QED
      BY <3>1, <3>2
  <2>2. i <= j /\ i # j
    BY <2>1
  <2>3. Sorted(s)[i] <= Sorted(s)[j]
    BY <1>1, <2>2
  <2>4. Sorted(s)[i] # Sorted(s)[j]
    BY <1>3, <1>4, <2>2 DEF Distinct
  <2>5. QED
    BY <2>1, <2>3, <2>4
<1>7. QED
  BY <1>1, <1>4, <1>5, <1>6

\* The same distinct numbers, listed in any order, are sorted alike.
LEMMA SortedAlike ==
  ASSUME NEW s \in Seq(Nat), NEW r \in Seq(Nat), Distinct(s), Distinct(r),
         \A i \in DOMAIN s : \E j \in DOMAIN r : s[i] = r[j],
         \A j \in DOMAIN r : \E i \in DOMAIN s : r[j] = s[i]
  PROVE  Sorted(s) = Sorted(r)
<1> DEFINE a == Sorted(s)
           b == Sorted(r)
<1>1. /\ a \in Seq(Nat) /\ DOMAIN a = DOMAIN s /\ Increasing(a)
      /\ \A i \in DOMAIN s : \E j \in DOMAIN s : a[i] = s[j]
      /\ \A j \in DOMAIN s : \E i \in DOMAIN s : s[j] = a[i]
  BY SortedDistinct
<1>2. /\ b \in Seq(Nat) /\ DOMAIN b = DOMAIN r /\ Increasing(b)
      /\ \A i \in DOMAIN r : \E j \in DOMAIN r : b[i] = r[j]
      /\ \A j \in DOMAIN r : \E i \in DOMAIN r : r[j] = b[i]
  BY SortedDistinct
<1> HIDE DEF a, b
<1>3. \A i \in DOMAIN a : \E j \in DOMAIN b : a[i] = b[j]
  <2> TAKE i \in DOMAIN a
  <2>1. PICK k \in DOMAIN s : a[i] = s[k]
    BY <1>1
  <2>2. PICK l \in DOMAIN r : s[k] = r[l]
    OBVIOUS
  <2>3. PICK j \in DOMAIN r : r[l] = b[j]
    BY <1>2
  <2>4. QED
    BY <1>2, <2>1, <2>2, <2>3
<1>4. \A j \in DOMAIN b : \E i \in DOMAIN a : b[j] = a[i]
  <2> TAKE j \in DOMAIN b
  <2>1. PICK l \in DOMAIN r : b[j] = r[l]
    BY <1>2
  <2>2. PICK k \in DOMAIN s : r[l] = s[k]
    OBVIOUS
  <2>3. PICK i \in DOMAIN s : s[k] = a[i]
    BY <1>1
  <2>4. QED
    BY <1>1, <2>1, <2>2, <2>3
<1>5. a = b
  BY <1>1, <1>2, <1>3, <1>4, IncreasingEqual
<1>6. QED
  BY <1>5 DEF a, b

IdsOf(t) == Map(t.invoices, LAMBDA a : a.id)
TextsOf(t) == Map(t.invoices, LAMBDA a : a.text)

\* The ids and the texts of the attachments.
LEMMA IdsFacts ==
  ASSUME NEW t \in TransactionType
  PROVE  /\ t.invoices \in Seq(AttachmentType)
         /\ IdsOf(t) \in Seq(Nat) /\ DOMAIN IdsOf(t) = DOMAIN t.invoices
         /\ Len(IdsOf(t)) = Len(t.invoices)
         /\ TextsOf(t) \in Seq(Nat) /\ DOMAIN TextsOf(t) = DOMAIN t.invoices
         /\ \A i \in DOMAIN t.invoices : /\ t.invoices[i] \in AttachmentType
                                         /\ IdsOf(t)[i] = t.invoices[i].id
                                         /\ TextsOf(t)[i] = t.invoices[i].text
<1>1. t.invoices \in Seq(AttachmentType)
  BY TransactionFacts
<1>2. \A i \in DOMAIN t.invoices : t.invoices[i] \in AttachmentType
  BY <1>1
<1>3. \A i \in DOMAIN t.invoices : t.invoices[i].id \in Nat /\ t.invoices[i].text \in Nat
  BY <1>2 DEF AttachmentType
<1>4. DOMAIN t.invoices = 1..Len(t.invoices) /\ Len(t.invoices) \in Nat
  BY <1>1
<1>5. IdsOf(t) \in [1..Len(t.invoices) -> Nat]
  BY <1>3, <1>4 DEF IdsOf, Map
<1>6. TextsOf(t) \in [1..Len(t.invoices) -> Nat]
  BY <1>3, <1>4 DEF TextsOf, Map
<1>7. \A i \in DOMAIN t.invoices : IdsOf(t)[i] = t.invoices[i].id /\ TextsOf(t)[i] = t.invoices[i].text
  BY DEF IdsOf, TextsOf, Map
<1>8. IdsOf(t) \in Seq(Nat) /\ Len(IdsOf(t)) = Len(t.invoices) /\ TextsOf(t) \in Seq(Nat)
  BY <1>4, <1>5, <1>6, SeqOf
<1>9. DOMAIN IdsOf(t) = DOMAIN t.invoices /\ DOMAIN TextsOf(t) = DOMAIN t.invoices
  BY DEF IdsOf, TextsOf, Map
<1>10. QED
  BY <1>1, <1>2, <1>7, <1>8, <1>9

\* The attachments in the order of their ids.
LEMMA AttachedFacts ==
  ASSUME NEW t \in TransactionType
  PROVE  /\ DOMAIN Attached(t) = DOMAIN t.invoices
         /\ \A i \in DOMAIN t.invoices : Attached(t)[i].id = Sorted(IdsOf(t))[i]
         /\ \A i \in DOMAIN t.invoices : \E j \in DOMAIN t.invoices : Attached(t)[i] = t.invoices[j]
         /\ \A j \in DOMAIN t.invoices : \E i \in DOMAIN t.invoices : t.invoices[j] = Attached(t)[i]
<1> DEFINE D == DOMAIN t.invoices
           keys == IdsOf(t)
           p == CHOOSE p \in Orders(keys) : TRUE
<1>1. /\ keys \in Seq(Nat) /\ DOMAIN keys = D
      /\ \A i \in D : keys[i] = t.invoices[i].id
  BY IdsFacts
<1>2. Attached(t) = [i \in D |-> t.invoices[p[i]]]
  BY DEF Attached, SortedBy, IdsOf
<1>3. Sorted(keys) = [i \in D |-> keys[p[i]]]
  BY <1>1 DEF Sorted, SortedBy
<1> HIDE DEF keys
<1>4. p \in Orders(keys)
  BY <1>1, OrderExists
<1> HIDE DEF p
<1>5. p \in [D -> D]
  BY <1>1, <1>4 DEF Orders
<1>6. \A j \in D : \E i \in D : p[i] = j
  BY <1>1, <1>4, OrderOnto
<1> HIDE DEF D
<1>7. \A i \in D : p[i] \in D /\ Attached(t)[i] = t.invoices[p[i]] /\ Sorted(keys)[i] = keys[p[i]]
  BY <1>2, <1>3, <1>5
<1>8. \A i \in D : Attached(t)[i].id = Sorted(keys)[i]
  BY <1>1, <1>7
<1>9. \A j \in D : \E i \in D : t.invoices[j] = Attached(t)[i]
  <2> TAKE j \in D
  <2>1. PICK i \in D : p[i] = j
    BY <1>6
  <2>2. QED
    BY <1>7, <2>1
<1>10. DOMAIN Attached(t) = D
  BY <1>2
<1>11. QED
  BY <1>7, <1>8, <1>9, <1>10 DEF D, keys

\* Two transactions have the same attachments.
SameTexts(t, u) ==
  /\ \A i \in DOMAIN t.invoices : \E j \in DOMAIN u.invoices : t.invoices[i].text = u.invoices[j].text
  /\ \A j \in DOMAIN u.invoices : \E i \in DOMAIN t.invoices : u.invoices[j].text = t.invoices[i].text

LEMMA SameTextsSets ==
  ASSUME NEW t, NEW u
  PROVE  SameTexts(t, u) <=> {t.invoices[i].text : i \in DOMAIN t.invoices}
                               = {u.invoices[i].text : i \in DOMAIN u.invoices}
<1> DEFINE A == {t.invoices[i].text : i \in DOMAIN t.invoices}
           B == {u.invoices[i].text : i \in DOMAIN u.invoices}
<1>1. (\A i \in DOMAIN t.invoices : \E j \in DOMAIN u.invoices : t.invoices[i].text = u.invoices[j].text)
        <=> A \subseteq B
  OBVIOUS
<1>2. (\A j \in DOMAIN u.invoices : \E i \in DOMAIN t.invoices : u.invoices[j].text = t.invoices[i].text)
        <=> B \subseteq A
  OBVIOUS
<1> HIDE DEF A, B
<1>3. SameTexts(t, u) <=> A = B
  BY <1>1, <1>2 DEF SameTexts
<1>4. QED
  BY <1>3 DEF A, B

\* The hash of the attachments binds their texts.
LEMMA InvoicesBound ==
  ASSUME NEW t \in TransactionType, NEW u \in TransactionType,
         t.version = 2, u.version = 2, InvoiceHashes(t) = InvoiceHashes(u)
  PROVE  SameTexts(t, u)
<1> DEFINE a == Attached(t)
           b == Attached(u)
           x == Map(a, LAMBDA c : Sha(<<"str", c.text>>))
           y == Map(b, LAMBDA c : Sha(<<"str", c.text>>))
           m == <<Sha(U32(Len(x)))>>
           n == <<Sha(U32(Len(y)))>>
<1>1. /\ DOMAIN a = DOMAIN t.invoices
      /\ \A i \in DOMAIN t.invoices : \E j \in DOMAIN t.invoices : a[i] = t.invoices[j]
      /\ \A j \in DOMAIN t.invoices : \E i \in DOMAIN t.invoices : t.invoices[j] = a[i]
  BY AttachedFacts
<1>2. /\ DOMAIN b = DOMAIN u.invoices
      /\ \A i \in DOMAIN u.invoices : \E j \in DOMAIN u.invoices : b[i] = u.invoices[j]
      /\ \A j \in DOMAIN u.invoices : \E i \in DOMAIN u.invoices : u.invoices[j] = b[i]
  BY AttachedFacts
<1> HIDE DEF a, b
<1>3. x \in Seq(Shas) /\ y \in Seq(Shas)
  <2>1. ASSUME NEW z, NEW v \in TransactionType, DOMAIN z = DOMAIN v.invoices,
               \A i \in DOMAIN v.invoices : \E j \in DOMAIN v.invoices : z[i] = v.invoices[j]
        PROVE  Map(z, LAMBDA c : Sha(<<"str", c.text>>)) \in Seq(Shas)
    <3>1. /\ Len(v.invoices) \in Nat /\ DOMAIN v.invoices = 1..Len(v.invoices)
          /\ \A j \in DOMAIN v.invoices : v.invoices[j] \in AttachmentType
      BY TransactionFacts
    <3>2. \A i \in DOMAIN v.invoices : z[i].text \in Nat
      BY <2>1, <3>1 DEF AttachmentType
    <3>3. \A i \in DOMAIN v.invoices : Sha(<<"str", z[i].text>>) \in Shas
      BY <3>2, ShasFacts
    <3>4. Map(z, LAMBDA c : Sha(<<"str", c.text>>)) \in [1..Len(v.invoices) -> Shas]
      BY <2>1, <3>1, <3>3 DEF Map
    <3>5. QED
      BY <3>1, <3>4, SeqOf
  <2>2. QED
    BY <1>1, <1>2, <2>1
<1>4. Counted(x) = Counted(y)
  BY DEF InvoiceHashes, a, b
<1>5. /\ DOMAIN x = DOMAIN a /\ DOMAIN y = DOMAIN b
      /\ \A i \in DOMAIN a : x[i] = Sha(<<"str", a[i].text>>)
      /\ \A i \in DOMAIN b : y[i] = Sha(<<"str", b[i].text>>)
  BY DEF Map
<1> HIDE DEF x, y, m, n
<1>6. x = y
  <2>1. Counted(x) \o << >> = Counted(y) \o << >> /\ << >> \in Seq(Shas)
    BY <1>4, EmptySeq
  <2>2. QED
    BY <1>3, <2>1, CountedPeel
<1>7. DOMAIN a = DOMAIN b /\ \A i \in DOMAIN a : a[i].text = b[i].text
  <2>1. DOMAIN a = DOMAIN b
    BY <1>5, <1>6
  <2>2. \A i \in DOMAIN a : Sha(<<"str", a[i].text>>) = Sha(<<"str", b[i].text>>)
    BY <1>5, <1>6, <2>1
  <2>3. QED
    BY <2>1, <2>2, NumbersBound
<1>8. \A i \in DOMAIN t.invoices : \E j \in DOMAIN u.invoices : t.invoices[i].text = u.invoices[j].text
  <2> TAKE i \in DOMAIN t.invoices
  <2>1. PICK k \in DOMAIN t.invoices : t.invoices[i] = a[k]
    BY <1>1
  <2>2. PICK j \in DOMAIN u.invoices : b[k] = u.invoices[j]
    BY <1>1, <1>2, <1>7
  <2>3. a[k].text = b[k].text
    BY <1>1, <1>7
  <2>4. QED
    BY <2>1, <2>2, <2>3
<1>9. \A j \in DOMAIN u.invoices : \E i \in DOMAIN t.invoices : u.invoices[j].text = t.invoices[i].text
  <2> TAKE j \in DOMAIN u.invoices
  <2>1. PICK k \in DOMAIN u.invoices : u.invoices[j] = b[k]
    BY <1>2
  <2>2. PICK i \in DOMAIN t.invoices : a[k] = t.invoices[i]
    BY <1>1, <1>2, <1>7
  <2>3. a[k].text = b[k].text
    BY <1>2, <1>7
  <2>4. QED
    BY <2>1, <2>2, <2>3
<1>10. QED
  BY <1>8, <1>9 DEF SameTexts

\* Attachments with the same texts are hashed alike, in whatever order they
\* are listed.
LEMMA InvoicesAlike ==
  ASSUME NEW t \in TransactionType, NEW u \in TransactionType,
         KeyedByInvoice(t, u), KeyedByInvoice(u, t), SameTexts(t, u)
  PROVE  /\ Map(Attached(t), LAMBDA a : Sha(<<"str", a.text>>))
              = Map(Attached(u), LAMBDA a : Sha(<<"str", a.text>>))
         /\ Sorted(TextsOf(t)) = Sorted(TextsOf(u))
<1> DEFINE D == DOMAIN t.invoices
           E == DOMAIN u.invoices
           p == t.invoices
           q == u.invoices
           a == Attached(t)
           b == Attached(u)
<1>1. /\ \A i, j \in D : p[i].id = p[j].id => i = j
      /\ \A i, j \in E : q[i].id = q[j].id => i = j
      /\ \A i \in D, j \in E : p[i].text = q[j].text => p[i].id = q[j].id
  BY DEF KeyedByInvoice
<1>2. /\ \A i \in D : \E j \in E : p[i].text = q[j].text
      /\ \A j \in E : \E i \in D : q[j].text = p[i].text
  BY DEF SameTexts
<1>3. /\ IdsOf(t) \in Seq(Nat) /\ DOMAIN IdsOf(t) = D
      /\ TextsOf(t) \in Seq(Nat) /\ DOMAIN TextsOf(t) = D
      /\ \A i \in D : IdsOf(t)[i] = p[i].id /\ TextsOf(t)[i] = p[i].text
  BY IdsFacts
<1>4. /\ IdsOf(u) \in Seq(Nat) /\ DOMAIN IdsOf(u) = E
      /\ TextsOf(u) \in Seq(Nat) /\ DOMAIN TextsOf(u) = E
      /\ \A i \in E : IdsOf(u)[i] = q[i].id /\ TextsOf(u)[i] = q[i].text
  BY IdsFacts
<1>5. /\ DOMAIN a = D /\ \A i \in D : a[i].id = Sorted(IdsOf(t))[i]
      /\ \A i \in D : \E j \in D : a[i] = p[j]
  BY AttachedFacts
<1>6. /\ DOMAIN b = E /\ \A i \in E : b[i].id = Sorted(IdsOf(u))[i]
      /\ \A i \in E : \E j \in E : b[i] = q[j]
  BY AttachedFacts
<1> HIDE DEF D, E, p, q, a, b
<1>7. \A i \in D : \E j \in E : p[i].id = q[j].id
  BY <1>1, <1>2
<1>8. \A j \in E : \E i \in D : q[j].id = p[i].id
  BY <1>1, <1>2
<1>9. Distinct(IdsOf(t)) /\ Distinct(IdsOf(u))
  <2>1. Distinct(IdsOf(t))
    BY <1>1, <1>3 DEF Distinct
  <2>2. Distinct(IdsOf(u))
    BY <1>1, <1>4 DEF Distinct
  <2>3. QED
    BY <2>1, <2>2
<1>10. Sorted(IdsOf(t)) = Sorted(IdsOf(u))
  <2>1. \A i \in DOMAIN IdsOf(t) : \E j \in DOMAIN IdsOf(u) : IdsOf(t)[i] = IdsOf(u)[j]
    BY <1>3, <1>4, <1>7
  <2>2. \A j \in DOMAIN IdsOf(u) : \E i \in DOMAIN IdsOf(t) : IdsOf(u)[j] = IdsOf(t)[i]
    BY <1>3, <1>4, <1>8
  <2>3. QED
    BY <1>3, <1>4, <1>9, <2>1, <2>2, SortedAlike
<1>11. D = E
  <2>1. DOMAIN Sorted(IdsOf(t)) = D
    BY <1>3, SortedFacts
  <2>2. DOMAIN Sorted(IdsOf(u)) = E
    BY <1>4, SortedFacts
  <2>3. QED
    BY <1>10, <2>1, <2>2
<1>12. \A i \in D : a[i].text = b[i].text
  <2> TAKE i \in D
  <2>1. PICK j \in D : a[i] = p[j]
    BY <1>5
  <2>2. PICK k \in E : b[i] = q[k]
    BY <1>6, <1>11
  <2>3. p[j].id = q[k].id
    <3>1. a[i].id = Sorted(IdsOf(t))[i]
      BY <1>5
    <3>2. b[i].id = Sorted(IdsOf(u))[i]
      BY <1>6, <1>11
    <3>3. QED
      BY <1>10, <2>1, <2>2, <3>1, <3>2
  <2>4. PICK l \in E : p[j].text = q[l].text
    BY <1>2
  <2>5. l = k
    BY <1>1, <2>3, <2>4
  <2>6. QED
    BY <2>1, <2>2, <2>4, <2>5
<1>13. Map(a, LAMBDA c : Sha(<<"str", c.text>>)) = Map(b, LAMBDA c : Sha(<<"str", c.text>>))
  BY <1>5, <1>6, <1>11, <1>12 DEF Map
<1>14. Sorted(TextsOf(t)) = Sorted(TextsOf(u))
  <2>1. Distinct(TextsOf(t))
    <3>1. \A i, j \in D : p[i].text = p[j].text => i = j
      <4> SUFFICES ASSUME NEW i \in D, NEW j \in D, p[i].text = p[j].text
                   PROVE  i = j
        OBVIOUS
      <4>1. PICK k \in E : p[i].text = q[k].text
        BY <1>2
      <4>2. p[i].id = q[k].id
        BY <1>1, <4>1
      <4>3. p[j].id = q[k].id
        BY <1>1, <4>1
      <4>4. QED
        BY <1>1, <4>2, <4>3
    <3>2. QED
      BY <1>3, <3>1 DEF Distinct
  <2>2. Distinct(TextsOf(u))
    <3>1. \A i, j \in E : q[i].text = q[j].text => i = j
      <4> SUFFICES ASSUME NEW i \in E, NEW j \in E, q[i].text = q[j].text
                   PROVE  i = j
        OBVIOUS
      <4>1. PICK k \in D : q[i].text = p[k].text
        BY <1>2
      <4>2. q[i].id = p[k].id
        BY <1>1, <4>1
      <4>3. q[j].id = p[k].id
        <5>1. p[k].text = q[j].text
          BY <4>1
        <5>2. QED
          BY <1>1, <5>1
      <4>4. QED
        BY <1>1, <4>2, <4>3
    <3>2. QED
      BY <1>4, <3>1 DEF Distinct
  <2>3. \A i \in DOMAIN TextsOf(t) : \E j \in DOMAIN TextsOf(u) : TextsOf(t)[i] = TextsOf(u)[j]
    <3>1. SUFFICES ASSUME NEW i \in D
                   PROVE  \E j \in E : TextsOf(t)[i] = TextsOf(u)[j]
      BY <1>3, <1>4
    <3>2. PICK j \in E : p[i].text = q[j].text
      BY <1>2
    <3>3. TextsOf(t)[i] = TextsOf(u)[j]
      BY <1>3, <1>4, <3>2
    <3>4. QED
      BY <3>3
  <2>4. \A j \in DOMAIN TextsOf(u) : \E i \in DOMAIN TextsOf(t) : TextsOf(u)[j] = TextsOf(t)[i]
    <3>1. SUFFICES ASSUME NEW j \in E
                   PROVE  \E i \in D : TextsOf(u)[j] = TextsOf(t)[i]
      BY <1>3, <1>4
    <3>2. PICK i \in D : q[j].text = p[i].text
      BY <1>2
    <3>3. TextsOf(u)[j] = TextsOf(t)[i]
      BY <1>3, <1>4, <3>2
    <3>4. QED
      BY <3>3
  <2>5. QED
    BY <1>3, <1>4, <2>1, <2>2, <2>3, <2>4, SortedAlike
<1>15. QED
  BY <1>13, <1>14 DEF a, b

\* A bound is its parts.
LEMMA BoundParts ==
  ASSUME NEW t, NEW u, NEW p, NEW q
  PROVE  Bound(t, p) = Bound(u, q) <=>
           /\ t.version = u.version /\ BoundInput(t.input, p) = BoundInput(u.input, q)
           /\ Bound(t, p).leaves = Bound(u, q).leaves
           /\ Sorted(t.operators) = Sorted(u.operators) /\ t.network = u.network
           /\ Bound(t, p).created = Bound(u, q).created
           /\ Bound(t, p).expiry = Bound(u, q).expiry
           /\ Bound(t, p).invoices = Bound(u, q).invoices
<1> DEFINE x == Bound(t, p)
           y == Bound(u, q)
<1>1. /\ x = [version |-> x.version, input |-> x.input, leaves |-> x.leaves,
              operators |-> x.operators, network |-> x.network, created |-> x.created,
              expiry |-> x.expiry, invoices |-> x.invoices]
      /\ x.version = t.version /\ x.input = BoundInput(t.input, p)
      /\ x.operators = Sorted(t.operators) /\ x.network = t.network
  BY DEF Bound
<1>2. /\ y = [version |-> y.version, input |-> y.input, leaves |-> y.leaves,
              operators |-> y.operators, network |-> y.network, created |-> y.created,
              expiry |-> y.expiry, invoices |-> y.invoices]
      /\ y.version = u.version /\ y.input = BoundInput(u.input, q)
      /\ y.operators = Sorted(u.operators) /\ y.network = u.network
  BY DEF Bound
<1> HIDE DEF x, y
<1>3. x = y <=> /\ x.version = y.version /\ x.input = y.input /\ x.leaves = y.leaves
                /\ x.operators = y.operators /\ x.network = y.network /\ x.created = y.created
                /\ x.expiry = y.expiry /\ x.invoices = y.invoices
  BY <1>1, <1>2
<1>4. QED
  BY <1>1, <1>2, <1>3 DEF x, y

\* What follows the input of a stream.
AfterInput(t, partial) ==
  Join(Counted(LeafHashes(t, partial)), Join(Counted(KeyHashes(t)), TailOf(t, partial)))

LEMMA StreamShape ==
  ASSUME NEW t, NEW partial
  PROVE  HashStream(t, partial) = Sha(StreamOf(t, AfterInput(t, partial)))
BY DEF HashStream, StreamOf, AfterInput, TailOf, Join

LEMMA AfterInputFacts ==
  ASSUME NEW t, Streamed(t), NEW partial \in BOOLEAN
  PROVE  /\ LeafHashes(t, partial) \in Seq(Shas) /\ KeyHashes(t) \in Seq(Shas)
         /\ TailOf(t, partial) \in Seq(Shas)
         /\ Join(Counted(KeyHashes(t)), TailOf(t, partial)) \in Seq(Shas)
         /\ AfterInput(t, partial) \in Seq(Shas)
         /\ AfterInput(t, partial)[1] = Sha(U32(Len(LeafHashes(t, partial))))
<1>1. /\ LeafHashes(t, partial) \in Seq(Shas) /\ KeyHashes(t) \in Seq(Shas)
      /\ NetworkHashes(t) \in Seq(Shas) /\ TimeHashes(t, partial) \in Seq(Shas)
      /\ InvoiceHashes(t) \in Seq(Shas)
  BY PartTypes DEF Streamed
<1>2. TailOf(t, partial) \in Seq(Shas)
  BY <1>1, JoinFacts DEF TailOf
<1> DEFINE l == Counted(LeafHashes(t, partial))
           k == Counted(KeyHashes(t))
           r == Join(k, TailOf(t, partial))
<1>3. /\ l \in Seq(Shas) /\ l # << >> /\ l[1] = Sha(U32(Len(LeafHashes(t, partial))))
      /\ k \in Seq(Shas)
  BY <1>1, CountedFacts
<1> HIDE DEF l, k
<1>4. r \in Seq(Shas)
  BY <1>2, <1>3, JoinFacts
<1>5. AfterInput(t, partial) = Join(l, r)
  BY DEF AfterInput, l, k
<1> HIDE DEF r
<1>6. Join(l, r) \in Seq(Shas) /\ Join(l, r)[1] = l[1]
  BY <1>3, <1>4, FirstOf DEF Join
<1>7. QED
  BY <1>1, <1>2, <1>3, <1>4, <1>5, <1>6 DEF r, k

\* Counted lists at the head, under the name of concatenation.
LEMMA CountedJoin ==
  ASSUME NEW g \in Seq(Shas), NEW h \in Seq(Shas), NEW c \in Seq(Shas), NEW d \in Seq(Shas)
  PROVE  Join(Counted(g), c) = Join(Counted(h), d) => g = h /\ c = d
BY CountedPeel DEF Join

\* A V1, V2 or V3 hash binds the transaction.
LEMMA StreamsBind ==
  ASSUME NEW t, NEW u, Streamed(t), Streamed(u), NEW p \in BOOLEAN, NEW q \in BOOLEAN,
         Hashable(t, p), Hashable(u, q), HashStream(t, p) = HashStream(u, q)
  PROVE  Bound(t, p) = Bound(u, q)
<1>1. StreamOf(t, AfterInput(t, p)) = StreamOf(u, AfterInput(u, q))
  BY StreamShape, ShaInjective
<1>2. /\ AfterInput(t, p) \in Seq(Shas) /\ AfterInput(u, q) \in Seq(Shas)
      /\ AfterInput(t, p)[1] = Sha(U32(Len(LeafHashes(t, p))))
      /\ AfterInput(u, q)[1] = Sha(U32(Len(LeafHashes(u, q))))
  BY AfterInputFacts
<1>3. /\ t.version = u.version /\ t.input.kind = u.input.kind
      /\ Join(InputHashes(t.input), AfterInput(t, p)) = Join(InputHashes(u.input), AfterInput(u, q))
  BY <1>1, <1>2, TypePeel DEF Join
<1>4. t.input = u.input /\ AfterInput(t, p) = AfterInput(u, q)
  BY <1>2, <1>3, InputPeel
<1>5. /\ LeafHashes(t, p) = LeafHashes(u, q)
      /\ Join(Counted(KeyHashes(t)), TailOf(t, p)) = Join(Counted(KeyHashes(u)), TailOf(u, q))
  BY <1>4, AfterInputFacts, CountedJoin DEF AfterInput
<1>6. KeyHashes(t) = KeyHashes(u) /\ TailOf(t, p) = TailOf(u, q)
  BY <1>5, AfterInputFacts, CountedJoin
<1>7. /\ t.network = u.network /\ InvoiceHashes(t) = InvoiceHashes(u)
      /\ t.version # 0 => p = q /\ t.created = u.created /\ (~p => t.expiry = u.expiry)
  BY <1>3, <1>6, TailPeel
<1>8. Bound(t, p).leaves = Bound(u, q).leaves
  BY <1>5, StreamLeavesBound
<1>9. /\ t \in TransactionType /\ u \in TransactionType /\ t.version \in 0..2
      /\ t.input.kind # "Create" /\ u.input.kind # "Create"
  BY DEF Streamed
<1>10. Sorted(t.operators) = Sorted(u.operators)
  <2>1. Sorted(t.operators) \in Seq(Nat) /\ Sorted(u.operators) \in Seq(Nat)
    BY <1>9, TransactionFacts, SortedFacts
  <2>2. QED
    BY <1>6, <2>1, KeysBound DEF KeyHashes
<1>11. BoundInput(t.input, p) = BoundInput(u.input, q)
  BY <1>4, <1>9 DEF BoundInput
<1>12. Bound(t, p).created = Bound(u, q).created /\ Bound(t, p).expiry = Bound(u, q).expiry
  BY <1>3, <1>7 DEF Bound
<1>13. Bound(t, p).invoices = Bound(u, q).invoices
  <2>1. CASE t.version # 2
    BY <1>3, <1>9, <2>1 DEF Bound
  <2>2. CASE t.version = 2
    <3>1. SameTexts(t, u)
      BY <1>3, <1>7, <1>9, <2>2, InvoicesBound
    <3>2. {t.invoices[i].text : i \in DOMAIN t.invoices} = {u.invoices[i].text : i \in DOMAIN u.invoices}
      BY <3>1, SameTextsSets
    <3>3. QED
      BY <1>3, <2>2, <3>2 DEF Bound
  <2>3. QED
    BY <2>1, <2>2
<1>14. QED
  BY <1>3, <1>7, <1>8, <1>10, <1>11, <1>12, <1>13, BoundParts

\* Leaves that are bound alike have one hash.
LEMMA StreamLeafAlike ==
  ASSUME NEW t, NEW u, t.version # 3, u.version # 3, NEW p \in BOOLEAN,
         NEW l, NEW m, BoundLeaf(t, p, l) = BoundLeaf(u, p, m)
  PROVE  HashLeaf(l, p) = HashLeaf(m, p)
<1>1. CASE p = TRUE
  <2>1. OperatorsTurn(t, p) /\ OperatorsTurn(u, p)
    BY <1>1 DEF OperatorsTurn
  <2>2. <<l.owner, l.token, l.amount>> = <<m.owner, m.token, m.amount>>
    BY <2>1 DEF BoundLeaf
  <2>3. l.owner = m.owner /\ l.token = m.token /\ l.amount = m.amount
    BY <2>2
  <2>4. QED
    BY <1>1, <2>3, LeafTuple
<1>2. CASE p = FALSE
  <2>1. ~OperatorsTurn(t, p) /\ ~OperatorsTurn(u, p)
    BY <1>2 DEF OperatorsTurn
  <2>2. \A o : BoundNumber(t, o) = o /\ BoundNumber(u, o) = o
    BY DEF BoundNumber
  <2>3. <<l.owner, l.token, l.amount, BoundId(l.id), l.revocation, l.bond, l.lock>>
          = <<m.owner, m.token, m.amount, BoundId(m.id), m.revocation, m.bond, m.lock>>
    BY <1>2, <2>1, <2>2 DEF BoundLeaf
  <2>4. /\ l.owner = m.owner /\ l.token = m.token /\ l.amount = m.amount
        /\ BoundId(l.id) = BoundId(m.id)
        /\ l.revocation = m.revocation /\ l.bond = m.bond /\ l.lock = m.lock
    BY <2>3
  <2>5. CASE BoundId(l.id) = None
    BY <1>2, <2>4, <2>5, LeafTuple
  <2>6. CASE BoundId(l.id) # None
    <3>1. l.id = m.id /\ BoundId(m.id) # None
      BY <2>4, <2>6, BoundIdFacts
    <3>2. QED
      BY <1>2, <2>4, <2>6, <3>1, LeafTuple
  <2>7. QED
    BY <2>5, <2>6
<1>3. QED
  BY <1>1, <1>2

\* V1, V2 or V3 transactions that are bound alike have one hash.
LEMMA StreamsAlike ==
  ASSUME NEW t, NEW u, Streamed(t), Streamed(u), NEW p \in BOOLEAN,
         KeyedByInvoice(t, u), KeyedByInvoice(u, t), Bound(t, p) = Bound(u, p)
  PROVE  HashStream(t, p) = HashStream(u, p)
<1>1. /\ t.version = u.version /\ BoundInput(t.input, p) = BoundInput(u.input, p)
      /\ Bound(t, p).leaves = Bound(u, p).leaves
      /\ Sorted(t.operators) = Sorted(u.operators) /\ t.network = u.network
      /\ Bound(t, p).created = Bound(u, p).created
      /\ Bound(t, p).expiry = Bound(u, p).expiry
      /\ Bound(t, p).invoices = Bound(u, p).invoices
  BY BoundParts
<1>2. /\ t \in TransactionType /\ u \in TransactionType /\ t.version \in 0..2
      /\ t.version # 3 /\ u.version # 3
      /\ t.input.kind # "Create" /\ u.input.kind # "Create"
  BY <1>1 DEF Streamed
<1>3. t.input = u.input
  BY <1>1, <1>2 DEF BoundInput
<1>4. TypeHashes(t) = TypeHashes(u) /\ InputHashes(t.input) = InputHashes(u.input)
  BY <1>1, <1>3 DEF TypeHashes
<1>5. LeafHashes(t, p) = LeafHashes(u, p)
  <2>1. /\ DOMAIN t.leaves = DOMAIN u.leaves
        /\ \A i \in DOMAIN t.leaves : BoundLeaf(t, p, t.leaves[i]) = BoundLeaf(u, p, u.leaves[i])
    BY <1>1 DEF Bound, Map
  <2>2. \A i \in DOMAIN t.leaves : HashLeaf(t.leaves[i], p) = HashLeaf(u.leaves[i], p)
    BY <1>2, <2>1, StreamLeafAlike
  <2>3. QED
    BY <2>1, <2>2 DEF LeafHashes, Map
<1>6. KeyHashes(t) = KeyHashes(u) /\ NetworkHashes(t) = NetworkHashes(u)
  BY <1>1 DEF KeyHashes, NetworkHashes
<1>7. TimeHashes(t, p) = TimeHashes(u, p)
  <2>1. CASE t.version = 0
    BY <1>1, <2>1 DEF TimeHashes
  <2>2. CASE t.version # 0
    <3>1. t.created = u.created /\ (~p => t.expiry = u.expiry)
      BY <1>1, <2>2 DEF Bound
    <3>2. QED
      BY <1>1, <2>2, <3>1 DEF TimeHashes
  <2>3. QED
    BY <2>1, <2>2
<1>8. InvoiceHashes(t) = InvoiceHashes(u)
  <2>1. CASE t.version # 2
    BY <1>1, <2>1 DEF InvoiceHashes
  <2>2. CASE t.version = 2
    <3>1. {t.invoices[i].text : i \in DOMAIN t.invoices} = {u.invoices[i].text : i \in DOMAIN u.invoices}
      BY <1>1, <2>2 DEF Bound
    <3>2. SameTexts(t, u)
      BY <3>1, SameTextsSets
    <3>3. Map(Attached(t), LAMBDA a : Sha(<<"str", a.text>>))
            = Map(Attached(u), LAMBDA a : Sha(<<"str", a.text>>))
      BY <1>2, <3>2, InvoicesAlike
    <3>4. QED
      BY <1>1, <2>2, <3>3 DEF InvoiceHashes
  <2>3. QED
    BY <2>1, <2>2
<1>9. QED
  BY <1>4, <1>5, <1>6, <1>7, <1>8 DEF HashStream

-----------------------------------------------------------------------------
(* What the hash of a protocol message binds.                              *)

\* The fields of a message by their number: eleven at most.
Fields(f) == UNION {f[n] : n \in 1..11}
Tagged(n, F) == \A x \in F : x[1] = n
Numbered(f) == \A n \in 1..11 : Tagged(n, f[n])

\* Messages of the same fields agree in each.
LEMMA FieldsEqual ==
  ASSUME NEW f, NEW g, Numbered(f), Numbered(g), Fields(f) = Fields(g)
  PROVE  \A n \in 1..11 : f[n] = g[n]
<1>1. ASSUME NEW h, Numbered(h), NEW n \in 1..11
      PROVE  h[n] = {x \in Fields(h) : x[1] = n}
  <2>1. \A x : x \in Fields(h) <=> \E m \in 1..11 : x \in h[m]
    BY DEF Fields
  <2>2. \A x : x \in h[n] => x \in Fields(h) /\ x[1] = n
    BY <1>1, <2>1 DEF Numbered, Tagged
  <2>3. \A x : x \in Fields(h) /\ x[1] = n => x \in h[n]
    BY <1>1, <2>1 DEF Numbered, Tagged
  <2>4. QED
    BY <2>2, <2>3
<1>2. ASSUME NEW n \in 1..11 PROVE f[n] = g[n]
  <2>1. f[n] = {x \in Fields(f) : x[1] = n}
    BY <1>1
  <2>2. g[n] = {x \in Fields(g) : x[1] = n}
    BY <1>1
  <2>3. QED
    BY <2>1, <2>2
<1>3. QED
  BY <1>2

\* The fields of a message, one after the other.
LEMMA FieldsUnion ==
  ASSUME NEW f
  PROVE  Fields(f) = f[1] \cup f[2] \cup f[3] \cup f[4] \cup f[5] \cup f[6] \cup f[7] \cup f[8]
                     \cup f[9] \cup f[10] \cup f[11]
<1>1. \A n \in 1..11 : n = 1 \/ n = 2 \/ n = 3 \/ n = 4 \/ n = 5 \/ n = 6 \/ n = 7 \/ n = 8
                       \/ n = 9 \/ n = 10 \/ n = 11
  OBVIOUS
<1>2. 1 \in 1..11 /\ 2 \in 1..11 /\ 3 \in 1..11 /\ 4 \in 1..11 /\ 5 \in 1..11 /\ 6 \in 1..11
      /\ 7 \in 1..11 /\ 8 \in 1..11 /\ 9 \in 1..11 /\ 10 \in 1..11 /\ 11 \in 1..11
  OBVIOUS
<1>3. \A x : x \in Fields(f) <=> \E n \in 1..11 : x \in f[n]
  BY DEF Fields
<1> DEFINE U == f[1] \cup f[2] \cup f[3] \cup f[4] \cup f[5] \cup f[6] \cup f[7] \cup f[8]
                \cup f[9] \cup f[10] \cup f[11]
<1>4. \A x : x \in Fields(f) => x \in U
  BY <1>1, <1>3, Zenon
<1>5. \A x : x \in U => x \in Fields(f)
  BY <1>2, <1>3, Zenon
<1>6. QED
  BY <1>4, <1>5, Zenon

\* The elements of a field have its number.
LEMMA FieldNumbers ==
  ASSUME NEW n, NEW v
  PROVE  /\ Tagged(n, {}) /\ Tagged(n, IntField(n, v)) /\ Tagged(n, BytesField(n, v))
         /\ Tagged(n, StringField(n, v)) /\ Tagged(n, BoolField(n, v))
         /\ Tagged(n, MessageField(n, v)) /\ Tagged(n, ListField(n, v))
         /\ Tagged(n, TimestampField(n, v))
<1>1. Tagged(n, {}) /\ \A x : Tagged(n, {<<n, x>>})
  BY DEF Tagged
<1>2. Tagged(n, IntField(n, v)) /\ Tagged(n, BytesField(n, v))
  BY <1>1 DEF IntField, BytesField
<1>3. Tagged(n, StringField(n, v)) /\ Tagged(n, BoolField(n, v))
  BY <1>1 DEF StringField, BoolField
<1>4. Tagged(n, MessageField(n, v)) /\ Tagged(n, ListField(n, v))
  BY <1>1 DEF MessageField, ListField
<1>5. Tagged(n, TimestampField(n, v))
  BY <1>1 DEF TimestampField, OptField
<1>6. QED
  BY <1>1, <1>2, <1>3, <1>4, <1>5

\* Equal sets of one field hold the same hash.
LEMMA HashInField ==
  ASSUME NEW n, NEW x, NEW y, {<<n, x>>} = {<<n, y>>}
  PROVE  x = y
<1> DEFINE a == <<n, x>>
           b == <<n, y>>
<1>1. a = b => x = y
  OBVIOUS
<1> HIDE DEF a, b
<1>2. {a} = {b}
  BY DEF a, b
<1>3. QED
  BY <1>1, <1>2, Zenon

\* A field binds its value.
LEMMA IntBound ==
  ASSUME NEW n, NEW v, NEW w, IntField(n, v) = IntField(n, w)
  PROVE  v = w
<1>1. v = 0 <=> w = 0
  BY DEF IntField
<1>2. CASE v # 0
  <2>1. {<<n, HashInt(v)>>} = {<<n, HashInt(w)>>}
    BY <1>1, <1>2 DEF IntField
  <2>2. HashInt(v) = HashInt(w)
    BY <2>1, HashInField
  <2>3. <<"i", v>> = <<"i", w>>
    BY <2>2, ShaInjective DEF HashInt
  <2>4. QED
    BY <2>3
<1>3. QED
  BY <1>1, <1>2

LEMMA BytesBound ==
  ASSUME NEW n, NEW v, NEW w, BytesField(n, v) = BytesField(n, w)
  PROVE  v = w
<1>1. HashBytes(v) = HashBytes(w)
  BY HashInField DEF BytesField
<1>2. <<"r", v>> = <<"r", w>>
  BY <1>1, ShaInjective DEF HashBytes
<1>3. QED
  BY <1>2

LEMMA StringHashBound ==
  ASSUME NEW n, NEW v, NEW w, {<<n, HashString(v)>>} = {<<n, HashString(w)>>}
  PROVE  v = w
<1>1. HashString(v) = HashString(w)
  BY HashInField
<1>2. <<"u", v>> = <<"u", w>>
  BY <1>1, ShaInjective DEF HashString
<1>3. QED
  BY <1>2

LEMMA StringBound ==
  ASSUME NEW n, NEW v, NEW w, StringField(n, v) = StringField(n, w)
  PROVE  v = w
<1>1. v = "" <=> w = ""
  BY DEF StringField
<1>2. CASE v # ""
  <2>1. {<<n, HashString(v)>>} = {<<n, HashString(w)>>}
    BY <1>1, <1>2 DEF StringField
  <2>2. QED
    BY <2>1, StringHashBound
<1>3. QED
  BY <1>1, <1>2

LEMMA TextBound ==
  ASSUME NEW n, NEW v, NEW w, TextField(n, v) = TextField(n, w)
  PROVE  v = w
<1>1. v = 0 <=> w = 0
  BY DEF TextField
<1>2. CASE v # 0
  <2>1. {<<n, HashString(v)>>} = {<<n, HashString(w)>>}
    BY <1>1, <1>2 DEF TextField
  <2>2. QED
    BY <2>1, StringHashBound
<1>3. QED
  BY <1>1, <1>2

LEMMA MessagesBound ==
  ASSUME NEW v, NEW w, HashMessage(v) = HashMessage(w)
  PROVE  v = w
<1>1. <<"d", v>> = <<"d", w>>
  BY ShaInjective DEF HashMessage
<1>2. QED
  BY <1>1

LEMMA MessageBound ==
  ASSUME NEW n, NEW v, NEW w, MessageField(n, v) = MessageField(n, w)
  PROVE  v = w
<1>1. v = {} <=> w = {}
  BY DEF MessageField
<1>2. CASE v # {}
  <2>1. {<<n, HashMessage(v)>>} = {<<n, HashMessage(w)>>}
    BY <1>1, <1>2 DEF MessageField
  <2>2. HashMessage(v) = HashMessage(w)
    BY <2>1, HashInField
  <2>3. QED
    BY <2>2, MessagesBound
<1>3. QED
  BY <1>1, <1>2

LEMMA ListBound ==
  ASSUME NEW n, NEW v, NEW w, ListField(n, v) = ListField(n, w)
  PROVE  v = w
<1>1. v = << >> <=> w = << >>
  BY DEF ListField
<1>2. CASE v # << >>
  <2>1. {<<n, Sha(<<"l", v>>)>>} = {<<n, Sha(<<"l", w>>)>>}
    BY <1>1, <1>2 DEF ListField
  <2>2. Sha(<<"l", v>>) = Sha(<<"l", w>>)
    BY <2>1, HashInField
  <2>3. <<"l", v>> = <<"l", w>>
    BY <2>2, ShaInjective
  <2>4. QED
    BY <2>3
<1>3. QED
  BY <1>1, <1>2

\* Optional fields.
OptInt(n, o) == OptField(o, LAMBDA v : IntField(n, v))
OptBytes(n, o) == OptField(o, LAMBDA b : BytesField(n, b))
OptKey(n, o) == OptField(o, LAMBDA k : BytesField(n, KeyBytes(k)))
OptString(n, o) == OptField(o, LAMBDA s : StringField(n, s))

LEMMA OptionNumbers ==
  ASSUME NEW n, NEW o
  PROVE  /\ Tagged(n, OptInt(n, o)) /\ Tagged(n, OptBytes(n, o)) /\ Tagged(n, OptKey(n, o))
         /\ Tagged(n, OptString(n, o))
<1>1. Tagged(n, OptInt(n, o))
  BY FieldNumbers DEF OptInt, OptField
<1>2. Tagged(n, OptBytes(n, o))
  BY FieldNumbers DEF OptBytes, OptField
<1>3. Tagged(n, OptKey(n, o))
  BY FieldNumbers DEF OptKey, OptField
<1>4. Tagged(n, OptString(n, o))
  BY FieldNumbers DEF OptString, OptField
<1>5. QED
  BY <1>1, <1>2, <1>3, <1>4

\* The fields of an output: the operator's are empty while it is its turn.
LeafParts(t, partial, l) ==
  LET turn == OperatorsTurn(t, partial)
  IN  <<IF turn THEN {} ELSE OptString(1, l.id), BytesField(2, KeyBytes(l.owner)),
        IF partial THEN {} ELSE BytesField(3, KeyBytes(l.revocation)),
        IF turn THEN {} ELSE OptInt(4, l.bond), IF turn THEN {} ELSE OptInt(5, l.lock), {},
        BytesField(7, <<"u128", l.amount>>), BytesField(8, l.token), {}, {}, {}>>

\* The fields of an input.
InputParts(in) ==
  CASE in.kind = "Mint" ->
         <<BytesField(1, KeyBytes(in.issuer)), OptBytes(2, in.token), {}, {}, {}, {}, {}, {}, {}, {}, {}>>
    [] in.kind = "Transfer" ->
         <<ListField(1, Map(in.spends, LAMBDA l : HashMessage(BytesField(1, l.hash) \cup IntField(2, l.index)))),
           {}, {}, {}, {}, {}, {}, {}, {}, {}, {}>>
    [] in.kind = "Create" ->
         <<BytesField(1, KeyBytes(in.issuer)), StringField(2, in.name), StringField(3, in.ticker),
           IntField(4, in.decimals), BytesField(5, <<"u128", in.supply>>), BoolField(6, in.freezable),
           OptKey(7, in.creator), {}, {}, {}, {}>>

\* A list of eleven fields is numbered when each field is.
LEMMA NumberedEleven ==
  ASSUME NEW f,
         Tagged(1, f[1]), Tagged(2, f[2]), Tagged(3, f[3]), Tagged(4, f[4]), Tagged(5, f[5]),
         Tagged(6, f[6]), Tagged(7, f[7]), Tagged(8, f[8]), Tagged(9, f[9]), Tagged(10, f[10]),
         Tagged(11, f[11])
  PROVE  Numbered(f)
<1>1. \A n \in 1..11 : n = 1 \/ n = 2 \/ n = 3 \/ n = 4 \/ n = 5 \/ n = 6 \/ n = 7 \/ n = 8
                       \/ n = 9 \/ n = 10 \/ n = 11
  OBVIOUS
<1>2. QED
  BY <1>1 DEF Numbered

\* The fields of an output are numbered.
LEMMA LeafNumbered ==
  ASSUME NEW t, NEW partial, NEW l
  PROVE  Numbered(LeafParts(t, partial, l))
<1> DEFINE f == LeafParts(t, partial, l)
<1>1. Tagged(1, f[1])
  <2>1. f[1] = {} \/ f[1] = OptString(1, l.id)
    BY DEF LeafParts
  <2>2. QED
    BY <2>1, FieldNumbers, OptionNumbers
<1>2. Tagged(2, f[2]) /\ Tagged(6, f[6]) /\ Tagged(7, f[7]) /\ Tagged(8, f[8])
  BY FieldNumbers DEF LeafParts
<1>3. Tagged(3, f[3])
  <2>1. f[3] = {} \/ f[3] = BytesField(3, KeyBytes(l.revocation))
    BY DEF LeafParts
  <2>2. QED
    BY <2>1, FieldNumbers
<1>4. Tagged(4, f[4])
  <2>1. f[4] = {} \/ f[4] = OptInt(4, l.bond)
    BY DEF LeafParts
  <2>2. QED
    BY <2>1, FieldNumbers, OptionNumbers
<1>5. Tagged(5, f[5])
  <2>1. f[5] = {} \/ f[5] = OptInt(5, l.lock)
    BY DEF LeafParts
  <2>2. QED
    BY <2>1, FieldNumbers, OptionNumbers
<1>6. Tagged(9, f[9]) /\ Tagged(10, f[10]) /\ Tagged(11, f[11])
  BY FieldNumbers DEF LeafParts
<1> HIDE DEF f
<1>7. Numbered(f)
  BY <1>1, <1>2, <1>6, <1>3, <1>4, <1>5, NumberedEleven
<1>8. QED
  BY <1>7 DEF f

\* The output that is hashed for a leaf.
HashedOutput(t, partial, l) ==
  IF OperatorsTurn(t, partial)
  THEN [MarshalLeaf(l, FALSE) EXCEPT !.id = None, !.revocation = None, !.bond = None, !.lock = None]
  ELSE MarshalLeaf(l, ~partial)

LEMMA OutputFieldsOf ==
  ASSUME NEW o
  PROVE  OutputFields(o) = OptString(1, o.id) \cup BytesField(2, KeyBytes(o.owner))
                           \cup OptKey(3, o.revocation) \cup OptInt(4, o.bond) \cup OptInt(5, o.lock)
                           \cup BytesField(7, <<"u128", o.amount>>) \cup OptBytes(8, o.token)
BY DEF OutputFields, OptString, OptKey, OptInt, OptBytes

\* Absent and present options.
LEMMA OptionFields ==
  ASSUME NEW n, NEW x
  PROVE  /\ OptString(n, None) = {} /\ OptKey(n, None) = {} /\ OptInt(n, None) = {}
         /\ OptBytes(n, None) = {} /\ OptBytes(n, Some(x)) = BytesField(n, x)
         /\ OptKey(n, Some(x)) = BytesField(n, KeyBytes(x))
         /\ OptInt(n, Some(x)) = IntField(n, x) /\ OptString(n, Some(x)) = StringField(n, x)
BY SomeFacts DEF OptString, OptKey, OptInt, OptBytes, OptField

\* Its fields.
LEMMA LeafShape ==
  ASSUME NEW t, NEW partial \in BOOLEAN, NEW l, t.version = 3
  PROVE  OutputFields(HashedOutput(t, partial, l)) = Fields(LeafParts(t, partial, l))
<1> DEFINE o == HashedOutput(t, partial, l)
           f == LeafParts(t, partial, l)
           b2 == BytesField(2, KeyBytes(l.owner))
           b7 == BytesField(7, <<"u128", l.amount>>)
           b8 == BytesField(8, l.token)
<1>1. Fields(f) = f[1] \cup f[2] \cup f[3] \cup f[4] \cup f[5] \cup f[6] \cup f[7] \cup f[8]
                  \cup f[9] \cup f[10] \cup f[11]
  BY FieldsUnion
<1>2. /\ f[2] = b2 /\ f[6] = {} /\ f[7] = b7 /\ f[8] = b8 /\ f[9] = {} /\ f[10] = {} /\ f[11] = {}
  BY DEF LeafParts
<1>3. OptBytes(8, Some(l.token)) = b8
  BY OptionFields
<1>4. CASE OperatorsTurn(t, partial)
  <2> DEFINE raw == MarshalLeaf(l, FALSE)
             tok == Some(l.token)
  <2>1. raw = [id |-> l.id, owner |-> l.owner, revocation |-> None, bond |-> l.bond,
               lock |-> l.lock, token |-> tok, amount |-> l.amount]
    BY DEF MarshalLeaf
  <2>2. o = [raw EXCEPT !.id = None, !.revocation = None, !.bond = None, !.lock = None]
    BY <1>4 DEF HashedOutput
  <2> HIDE DEF raw, tok
  <2>3. /\ o.id = None /\ o.revocation = None /\ o.bond = None /\ o.lock = None
        /\ o.owner = l.owner /\ o.token = tok /\ o.amount = l.amount
    BY <2>1, <2>2
  <2>4. f[1] = {} /\ f[3] = {} /\ f[4] = {} /\ f[5] = {}
    BY <1>4 DEF LeafParts, OperatorsTurn
  <2> HIDE DEF o, f
  <2>5. OutputFields(o) = {} \cup b2 \cup {} \cup {} \cup {} \cup b7 \cup b8
    BY <1>3, <2>3, OutputFieldsOf, OptionFields DEF tok
  <2> HIDE DEF b2, b7, b8
  <2>6. Fields(f) = {} \cup b2 \cup {} \cup {} \cup {} \cup b7 \cup b8
    BY <1>1, <1>2, <2>4
  <2>7. QED
    BY <2>5, <2>6 DEF o, f
<1>5. CASE ~OperatorsTurn(t, partial)
  <2> DEFINE tok == Some(l.token)
             rev == IF ~partial THEN Some(l.revocation) ELSE None
             i1 == OptString(1, l.id)
             i3 == IF partial THEN {} ELSE BytesField(3, KeyBytes(l.revocation))
             i4 == OptInt(4, l.bond)
             i5 == OptInt(5, l.lock)
  <2>1. o = [id |-> l.id, owner |-> l.owner, revocation |-> rev, bond |-> l.bond,
             lock |-> l.lock, token |-> tok, amount |-> l.amount]
    BY <1>5 DEF HashedOutput, MarshalLeaf
  <2>2. OptKey(3, rev) = i3
    BY OptionFields
  <2> HIDE DEF tok, rev
  <2>3. /\ o.id = l.id /\ o.revocation = rev /\ o.bond = l.bond /\ o.lock = l.lock
        /\ o.owner = l.owner /\ o.token = tok /\ o.amount = l.amount
    BY <2>1
  <2>4. f[1] = i1 /\ f[3] = i3 /\ f[4] = i4 /\ f[5] = i5
    BY <1>5 DEF LeafParts
  <2> HIDE DEF o, f, i3
  <2>5. OutputFields(o) = i1 \cup b2 \cup i3 \cup i4 \cup i5 \cup b7 \cup b8
    BY <1>3, <2>2, <2>3, OutputFieldsOf DEF tok
  <2> HIDE DEF b2, b7, b8, i1, i4, i5
  <2>6. Fields(f) = i1 \cup b2 \cup i3 \cup i4 \cup i5 \cup b7 \cup b8
    BY <1>1, <1>2, <2>4
  <2>7. QED
    BY <2>5, <2>6 DEF o, f
<1>6. QED
  BY <1>4, <1>5

\* An optional field binds its option; a number up to zero for none, and a
\* string up to the empty one for none.
NumberOf(o) == IF o = Some(0) THEN None ELSE o

LEMMA OptIntIs ==
  ASSUME NEW n, NEW o \in Option(Nat)
  PROVE  \/ NumberOf(o) = None /\ OptInt(n, o) = {}
         \/ \E v \in Nat : v # 0 /\ NumberOf(o) = Some(v) /\ OptInt(n, o) = {<<n, HashInt(v)>>}
<1>1. o = None \/ \E v \in Nat : o = Some(v)
  BY OptionFacts DEF None, Some
<1>2. CASE o = None
  <2>1. None # Some(0)
    BY SomeFacts
  <2>2. QED
    BY <1>2, <2>1, OptionFields DEF NumberOf
<1>3. ASSUME NEW v \in Nat, o = Some(v), v = 0
      PROVE  NumberOf(o) = None /\ OptInt(n, o) = {}
  BY <1>3, OptionFields DEF NumberOf, IntField
<1>4. ASSUME NEW v \in Nat, o = Some(v), v # 0
      PROVE  NumberOf(o) = Some(v) /\ OptInt(n, o) = {<<n, HashInt(v)>>}
  <2>1. Some(v) # Some(0)
    BY <1>4, SomeFacts
  <2>2. QED
    BY <1>4, <2>1, OptionFields DEF NumberOf, IntField
<1>5. QED
  BY <1>1, <1>2, <1>3, <1>4

LEMMA OptIntBound ==
  ASSUME NEW n, NEW o \in Option(Nat), NEW p \in Option(Nat)
  PROVE  OptInt(n, o) = OptInt(n, p) <=> NumberOf(o) = NumberOf(p)
<1>1. \/ NumberOf(o) = None /\ OptInt(n, o) = {}
      \/ \E v \in Nat : v # 0 /\ NumberOf(o) = Some(v) /\ OptInt(n, o) = {<<n, HashInt(v)>>}
  BY OptIntIs
<1>2. \/ NumberOf(p) = None /\ OptInt(n, p) = {}
      \/ \E v \in Nat : v # 0 /\ NumberOf(p) = Some(v) /\ OptInt(n, p) = {<<n, HashInt(v)>>}
  BY OptIntIs
<1>3. \A v, w : {<<n, HashInt(v)>>} = {<<n, HashInt(w)>>} => v = w
  <2> SUFFICES ASSUME NEW v, NEW w, {<<n, HashInt(v)>>} = {<<n, HashInt(w)>>}
               PROVE  v = w
    OBVIOUS
  <2>1. HashInt(v) = HashInt(w)
    BY HashInField
  <2>2. <<"i", v>> = <<"i", w>>
    BY <2>1, ShaInjective DEF HashInt
  <2>3. QED
    BY <2>2
<1>4. \A v : Some(v) # None /\ {<<n, HashInt(v)>>} # {}
  BY SomeFacts
<1>5. \A v, w : Some(v) = Some(w) => v = w
  BY SomeFacts
<1>6. QED
  BY <1>1, <1>2, <1>3, <1>4, <1>5

LEMMA OptStringIs ==
  ASSUME NEW S, NEW n, NEW o \in Option(S)
  PROVE  \/ BoundId(o) = None /\ OptString(n, o) = {}
         \/ \E v \in S : BoundId(o) = Some(v) /\ OptString(n, o) = {<<n, HashString(v)>>}
<1>1. o = None \/ \E v \in S : o = Some(v)
  BY OptionFacts DEF None, Some
<1>2. CASE o = None
  <2>1. None # Some("")
    BY SomeFacts
  <2>2. QED
    BY <1>2, <2>1, OptionFields DEF BoundId
<1>3. ASSUME NEW v \in S, o = Some(v), v = ""
      PROVE  BoundId(o) = None /\ OptString(n, o) = {}
  BY <1>3, OptionFields DEF BoundId, StringField
<1>4. ASSUME NEW v \in S, o = Some(v), v # ""
      PROVE  BoundId(o) = Some(v) /\ OptString(n, o) = {<<n, HashString(v)>>}
  <2>1. Some(v) # Some("")
    BY <1>4, SomeFacts
  <2>2. QED
    BY <1>4, <2>1, OptionFields DEF BoundId, StringField
<1>5. QED
  BY <1>1, <1>2, <1>3, <1>4

LEMMA OptStringBound ==
  ASSUME NEW S, NEW n, NEW o \in Option(S), NEW p \in Option(S)
  PROVE  OptString(n, o) = OptString(n, p) <=> BoundId(o) = BoundId(p)
<1>1. \/ BoundId(o) = None /\ OptString(n, o) = {}
      \/ \E v \in S : BoundId(o) = Some(v) /\ OptString(n, o) = {<<n, HashString(v)>>}
  BY OptStringIs
<1>2. \/ BoundId(p) = None /\ OptString(n, p) = {}
      \/ \E v \in S : BoundId(p) = Some(v) /\ OptString(n, p) = {<<n, HashString(v)>>}
  BY OptStringIs
<1>3. \A v, w : {<<n, HashString(v)>>} = {<<n, HashString(w)>>} => v = w
  BY StringHashBound
<1>4. \A v : Some(v) # None /\ {<<n, HashString(v)>>} # {}
  BY SomeFacts
<1>5. \A v, w : Some(v) = Some(w) => v = w
  BY SomeFacts
<1>6. QED
  BY <1>1, <1>2, <1>3, <1>4, <1>5

LEMMA OptBytesBound ==
  ASSUME NEW S, NEW n, NEW o \in Option(S), NEW p \in Option(S), OptBytes(n, o) = OptBytes(n, p)
  PROVE  o = p
<1>1. (o = None \/ \E v \in S : o = Some(v)) /\ (p = None \/ \E v \in S : p = Some(v))
  BY OptionFacts DEF None, Some
<1>2. \A v, w : BytesField(n, v) = BytesField(n, w) => v = w
  BY BytesBound
<1>3. \A v : BytesField(n, v) # {}
  BY DEF BytesField
<1>4. QED
  BY <1>1, <1>2, <1>3, OptionFields

LEMMA OptKeyBound ==
  ASSUME NEW S, NEW n, NEW o \in Option(S), NEW p \in Option(S), OptKey(n, o) = OptKey(n, p)
  PROVE  o = p
<1>1. (o = None \/ \E v \in S : o = Some(v)) /\ (p = None \/ \E v \in S : p = Some(v))
  BY OptionFacts DEF None, Some
<1>2. \A v, w : BytesField(n, KeyBytes(v)) = BytesField(n, KeyBytes(w)) => v = w
  BY BytesBound, PairsEqual
<1>3. \A v : BytesField(n, v) # {}
  BY DEF BytesField
<1>4. QED
  BY <1>1, <1>2, <1>3, OptionFields

\* Two leaves with one V4 hash are bound alike.
LEMMA LeafPartsBound ==
  ASSUME NEW t, NEW u, t.version = 3, u.version = 3, t.input.kind = u.input.kind,
         NEW p \in BOOLEAN, NEW q \in BOOLEAN, NEW l \in LeafType, NEW m \in LeafType,
         OutputFields(HashedOutput(t, p, l)) = OutputFields(HashedOutput(u, q, m))
  PROVE  BoundLeaf(t, p, l) = BoundLeaf(u, q, m)
<1> DEFINE f == LeafParts(t, p, l)
           g == LeafParts(u, q, m)
<1>1. \A n \in 1..11 : f[n] = g[n]
  BY LeafShape, LeafNumbered, FieldsEqual
<1>2. /\ f[1] = g[1] /\ f[2] = g[2] /\ f[3] = g[3] /\ f[4] = g[4] /\ f[5] = g[5]
      /\ f[7] = g[7] /\ f[8] = g[8]
  BY <1>1
<1>3. p = q
  <2>1. p => f[3] = {}
    BY DEF LeafParts
  <2>2. ~p => f[3] = BytesField(3, KeyBytes(l.revocation))
    BY DEF LeafParts
  <2>3. q => g[3] = {}
    BY DEF LeafParts
  <2>4. ~q => g[3] = BytesField(3, KeyBytes(m.revocation))
    BY DEF LeafParts
  <2>5. \A b : BytesField(3, b) # {}
    BY DEF BytesField
  <2> HIDE DEF f, g
  <2>6. QED
    BY <1>2, <2>1, <2>2, <2>3, <2>4, <2>5
<1>4. OperatorsTurn(t, p) <=> OperatorsTurn(u, q)
  BY <1>3 DEF OperatorsTurn
<1>5. l.owner = m.owner /\ l.amount = m.amount /\ l.token = m.token
  <2>1. f[2] = BytesField(2, KeyBytes(l.owner)) /\ g[2] = BytesField(2, KeyBytes(m.owner))
    BY DEF LeafParts
  <2>2. /\ f[7] = BytesField(7, <<"u128", l.amount>>) /\ g[7] = BytesField(7, <<"u128", m.amount>>)
        /\ f[8] = BytesField(8, l.token) /\ g[8] = BytesField(8, m.token)
    BY DEF LeafParts
  <2> HIDE DEF f, g
  <2>3. BytesField(2, KeyBytes(l.owner)) = BytesField(2, KeyBytes(m.owner))
    BY <1>2, <2>1
  <2>4. BytesField(7, <<"u128", l.amount>>) = BytesField(7, <<"u128", m.amount>>)
    BY <1>2, <2>2
  <2>5. BytesField(8, l.token) = BytesField(8, m.token)
    BY <1>2, <2>2
  <2>6. KeyBytes(l.owner) = KeyBytes(m.owner)
    BY <2>3, BytesBound
  <2>7. <<"u128", l.amount>> = <<"u128", m.amount>>
    BY <2>4, BytesBound
  <2>8. l.token = m.token
    BY <2>5, BytesBound
  <2>9. QED
    BY <2>6, <2>7, <2>8, PairsEqual
<1>6. CASE OperatorsTurn(t, p)
  BY <1>4, <1>5, <1>6 DEF BoundLeaf
<1>7. CASE ~OperatorsTurn(t, p)
  <2>1. f[1] = OptString(1, l.id) /\ g[1] = OptString(1, m.id)
    BY <1>4, <1>7 DEF LeafParts
  <2>2. /\ f[4] = OptInt(4, l.bond) /\ g[4] = OptInt(4, m.bond)
        /\ f[5] = OptInt(5, l.lock) /\ g[5] = OptInt(5, m.lock)
    BY <1>4, <1>7 DEF LeafParts
  <2>3. ~p => /\ f[3] = BytesField(3, KeyBytes(l.revocation))
              /\ g[3] = BytesField(3, KeyBytes(m.revocation))
    BY <1>3 DEF LeafParts
  <2> HIDE DEF f, g
  <2>4. /\ l.id \in Option(STRING) /\ l.bond \in Option(Nat) /\ l.lock \in Option(Nat)
        /\ m.id \in Option(STRING) /\ m.bond \in Option(Nat) /\ m.lock \in Option(Nat)
    BY LeafFacts
  <2>5. OptString(1, l.id) = OptString(1, m.id)
    BY <1>2, <2>1
  <2>6. OptInt(4, l.bond) = OptInt(4, m.bond)
    BY <1>2, <2>2
  <2>7. OptInt(5, l.lock) = OptInt(5, m.lock)
    BY <1>2, <2>2
  <2>8. BoundId(l.id) = BoundId(m.id)
    BY <2>4, <2>5, OptStringBound
  <2>9. NumberOf(l.bond) = NumberOf(m.bond)
    BY <2>4, <2>6, OptIntBound
  <2>10. NumberOf(l.lock) = NumberOf(m.lock)
    BY <2>4, <2>7, OptIntBound
  <2>11. ~p => l.revocation = m.revocation
    <3>1. ~p => BytesField(3, KeyBytes(l.revocation)) = BytesField(3, KeyBytes(m.revocation))
      BY <1>2, <2>3
    <3>2. ~p => KeyBytes(l.revocation) = KeyBytes(m.revocation)
      BY <3>1, BytesBound
    <3>3. QED
      BY <3>2, PairsEqual
  <2>12. \A o : BoundNumber(t, o) = NumberOf(o) /\ BoundNumber(u, o) = NumberOf(o)
    BY DEF BoundNumber, NumberOf
  <2>13. QED
    BY <1>3, <1>4, <1>5, <1>7, <2>8, <2>9, <2>10, <2>11, <2>12 DEF BoundLeaf
<1>8. QED
  BY <1>6, <1>7

\* Leaves that are bound alike have the same fields.
LEMMA LeafPartsAlike ==
  ASSUME NEW t, NEW u, t.version = 3, u.version = 3, t.input.kind = u.input.kind,
         NEW p \in BOOLEAN, NEW l \in LeafType, NEW m \in LeafType,
         BoundLeaf(t, p, l) = BoundLeaf(u, p, m)
  PROVE  OutputFields(HashedOutput(t, p, l)) = OutputFields(HashedOutput(u, p, m))
<1>1. OperatorsTurn(t, p) <=> OperatorsTurn(u, p)
  BY DEF OperatorsTurn
<1>2. LeafParts(t, p, l) = LeafParts(u, p, m)
  <2>1. CASE OperatorsTurn(t, p)
    <3>1. <<l.owner, l.token, l.amount>> = <<m.owner, m.token, m.amount>>
      BY <1>1, <2>1 DEF BoundLeaf
    <3>2. l.owner = m.owner /\ l.token = m.token /\ l.amount = m.amount
      BY <3>1
    <3>3. p
      BY <2>1 DEF OperatorsTurn
    <3>4. QED
      BY <1>1, <2>1, <3>2, <3>3 DEF LeafParts
  <2>2. CASE ~OperatorsTurn(t, p)
    <3> DEFINE r == IF p THEN 0 ELSE l.revocation
               s == IF p THEN 0 ELSE m.revocation
    <3>1. \A o : BoundNumber(t, o) = NumberOf(o) /\ BoundNumber(u, o) = NumberOf(o)
      BY DEF BoundNumber, NumberOf
    <3>2. <<l.owner, l.token, l.amount, BoundId(l.id), r, NumberOf(l.bond), NumberOf(l.lock)>>
            = <<m.owner, m.token, m.amount, BoundId(m.id), s, NumberOf(m.bond), NumberOf(m.lock)>>
      BY <1>1, <2>2, <3>1 DEF BoundLeaf
    <3> HIDE DEF r, s
    <3>3. /\ l.owner = m.owner /\ l.token = m.token /\ l.amount = m.amount
          /\ BoundId(l.id) = BoundId(m.id)
          /\ r = s /\ NumberOf(l.bond) = NumberOf(m.bond) /\ NumberOf(l.lock) = NumberOf(m.lock)
      BY <3>2
    <3>4. ~p => l.revocation = m.revocation
      BY <3>3 DEF r, s
    <3>5. /\ l.bond \in Option(Nat) /\ l.lock \in Option(Nat) /\ l.id \in Option(STRING)
          /\ m.bond \in Option(Nat) /\ m.lock \in Option(Nat) /\ m.id \in Option(STRING)
      BY LeafFacts
    <3>6. OptInt(4, l.bond) = OptInt(4, m.bond)
      BY <3>3, <3>5, OptIntBound
    <3>7. OptInt(5, l.lock) = OptInt(5, m.lock)
      BY <3>3, <3>5, OptIntBound
    <3>8. OptString(1, l.id) = OptString(1, m.id)
      BY <3>3, <3>5, OptStringBound
    <3>9. QED
      BY <1>1, <2>2, <3>3, <3>4, <3>6, <3>7, <3>8 DEF LeafParts
  <2>3. QED
    BY <2>1, <2>2
<1>3. OutputFields(HashedOutput(t, p, l)) = Fields(LeafParts(t, p, l))
  BY LeafShape
<1>4. OutputFields(HashedOutput(u, p, m)) = Fields(LeafParts(u, p, m))
  BY LeafShape
<1>5. QED
  BY <1>2, <1>3, <1>4

\* The fields of a spent output.
SpendParts(s) == BytesField(1, s.hash) \cup IntField(2, s.index)

LEMMA SpendPartsBound ==
  ASSUME NEW a, NEW b, SpendParts(a) = SpendParts(b)
  PROVE  a.hash = b.hash /\ a.index = b.index
<1>1. \A s : \A x : x \in BytesField(1, s.hash) <=> x \in SpendParts(s) /\ x[1] = 1
  BY FieldNumbers DEF SpendParts, Tagged
<1>2. \A s : \A x : x \in IntField(2, s.index) <=> x \in SpendParts(s) /\ x[1] = 2
  BY FieldNumbers DEF SpendParts, Tagged
<1>3. BytesField(1, a.hash) = BytesField(1, b.hash)
  <2>1. BytesField(1, a.hash) \subseteq BytesField(1, b.hash)
    BY <1>1
  <2>2. BytesField(1, b.hash) \subseteq BytesField(1, a.hash)
    BY <1>1
  <2>3. QED
    BY <2>1, <2>2
<1>4. IntField(2, a.index) = IntField(2, b.index)
  <2>1. IntField(2, a.index) \subseteq IntField(2, b.index)
    BY <1>2
  <2>2. IntField(2, b.index) \subseteq IntField(2, a.index)
    BY <1>2
  <2>3. QED
    BY <2>1, <2>2
<1>5. a.hash = b.hash
  BY <1>3, BytesBound
<1>6. a.index = b.index
  BY <1>4, IntBound
<1>7. QED
  BY <1>5, <1>6

\* The fields of an input, numbered.
LEMMA InputNumbered ==
  ASSUME NEW in, in.kind \in {"Mint", "Transfer", "Create"}
  PROVE  Numbered(InputParts(in)) /\ InputFields(in) = Fields(InputParts(in))
<1> DEFINE f == InputParts(in)
<1>1. Fields(f) = f[1] \cup f[2] \cup f[3] \cup f[4] \cup f[5] \cup f[6] \cup f[7] \cup f[8]
                  \cup f[9] \cup f[10] \cup f[11]
  BY FieldsUnion
<1>2. CASE in.kind = "Mint"
  <2> DEFINE a == BytesField(1, KeyBytes(in.issuer))
             b == OptBytes(2, in.token)
  <2>1. InputFields(in) = a \cup b
    BY <1>2 DEF InputFields, OptBytes
  <2>2. f = <<a, b, {}, {}, {}, {}, {}, {}, {}, {}, {}>>
    BY <1>2 DEF InputParts
  <2>3. Tagged(1, a)
    BY FieldNumbers
  <2>4. Tagged(2, b)
    BY OptionNumbers
  <2>5. \A n : Tagged(n, {})
    BY FieldNumbers
  <2> HIDE DEF f, a, b
  <2>6. /\ f[1] = a /\ f[2] = b /\ f[3] = {} /\ f[4] = {} /\ f[5] = {} /\ f[6] = {} /\ f[7] = {}
        /\ f[8] = {} /\ f[9] = {} /\ f[10] = {} /\ f[11] = {}
    BY <2>2
  <2>7. Numbered(f)
    BY <2>3, <2>4, <2>5, <2>6, NumberedEleven
  <2>8. Fields(f) = a \cup b
    BY <1>1, <2>6
  <2>9. QED
    BY <2>1, <2>7, <2>8 DEF f
<1>3. CASE in.kind = "Transfer"
  <2> DEFINE a == ListField(1, Map(in.spends, LAMBDA l : HashMessage(BytesField(1, l.hash) \cup IntField(2, l.index))))
  <2>1. InputFields(in) = a
    BY <1>3 DEF InputFields
  <2>2. f = <<a, {}, {}, {}, {}, {}, {}, {}, {}, {}, {}>>
    BY <1>3 DEF InputParts
  <2>3. Tagged(1, a)
    BY FieldNumbers
  <2>4. \A n : Tagged(n, {})
    BY FieldNumbers
  <2> HIDE DEF f, a
  <2>5. /\ f[1] = a /\ f[2] = {} /\ f[3] = {} /\ f[4] = {} /\ f[5] = {} /\ f[6] = {} /\ f[7] = {}
        /\ f[8] = {} /\ f[9] = {} /\ f[10] = {} /\ f[11] = {}
    BY <2>2
  <2>6. Numbered(f)
    BY <2>3, <2>4, <2>5, NumberedEleven
  <2>7. Fields(f) = a
    BY <1>1, <2>5
  <2>8. QED
    BY <2>1, <2>6, <2>7 DEF f
<1>4. CASE in.kind = "Create"
  <2> DEFINE a == BytesField(1, KeyBytes(in.issuer))
             b == StringField(2, in.name)
             c == StringField(3, in.ticker)
             d == IntField(4, in.decimals)
             e == BytesField(5, <<"u128", in.supply>>)
             g == BoolField(6, in.freezable)
             h == OptKey(7, in.creator)
  <2>1. InputFields(in) = a \cup b \cup c \cup d \cup e \cup g \cup h
    BY <1>4 DEF InputFields, OptKey
  <2>2. f = <<a, b, c, d, e, g, h, {}, {}, {}, {}>>
    BY <1>4 DEF InputParts
  <2>3. /\ Tagged(1, a) /\ Tagged(2, b) /\ Tagged(3, c) /\ Tagged(4, d) /\ Tagged(5, e)
        /\ Tagged(6, g)
    BY FieldNumbers
  <2>4. Tagged(7, h)
    BY OptionNumbers
  <2>5. \A n : Tagged(n, {})
    BY FieldNumbers
  <2> HIDE DEF f, a, b, c, d, e, g, h
  <2>6. /\ f[1] = a /\ f[2] = b /\ f[3] = c /\ f[4] = d /\ f[5] = e /\ f[6] = g /\ f[7] = h
        /\ f[8] = {} /\ f[9] = {} /\ f[10] = {} /\ f[11] = {}
    BY <2>2
  <2>7. Numbered(f)
    BY <2>3, <2>4, <2>5, <2>6, NumberedEleven
  <2>8. Fields(f) = a \cup b \cup c \cup d \cup e \cup g \cup h
    BY <1>1, <2>6
  <2>9. QED
    BY <2>1, <2>7, <2>8 DEF f
<1>5. QED
  BY <1>2, <1>3, <1>4

\* Inputs of one kind are bound by their fields.
LEMMA MintFieldsBound ==
  ASSUME NEW a \in MintType, NEW b \in MintType, InputFields(a) = InputFields(b)
  PROVE  a = b
<1> DEFINE f == InputParts(a)
           g == InputParts(b)
<1>1. a.kind = "Mint" /\ b.kind = "Mint" /\ a.token \in Option(Ids) /\ b.token \in Option(Ids)
  BY DEF MintType
<1>2. \A n \in 1..11 : f[n] = g[n]
  BY <1>1, InputNumbered, FieldsEqual
<1>3. f[1] = g[1] /\ f[2] = g[2]
  BY <1>2
<1>4. /\ f[1] = BytesField(1, KeyBytes(a.issuer)) /\ g[1] = BytesField(1, KeyBytes(b.issuer))
      /\ f[2] = OptBytes(2, a.token) /\ g[2] = OptBytes(2, b.token)
  BY <1>1 DEF InputParts
<1> HIDE DEF f, g
<1>5. BytesField(1, KeyBytes(a.issuer)) = BytesField(1, KeyBytes(b.issuer))
  BY <1>3, <1>4
<1>6. KeyBytes(a.issuer) = KeyBytes(b.issuer)
  BY <1>5, BytesBound
<1>7. a.issuer = b.issuer
  BY <1>6, PairsEqual
<1>8. OptBytes(2, a.token) = OptBytes(2, b.token)
  BY <1>3, <1>4
<1>9. a.token = b.token
  BY <1>1, <1>8, OptBytesBound
<1>10. QED
  BY <1>7, <1>9, MintsEqual

LEMMA TransferFieldsBound ==
  ASSUME NEW a \in TransferType, NEW b \in TransferType, InputFields(a) = InputFields(b)
  PROVE  a = b
<1> DEFINE F(l) == HashMessage(BytesField(1, l.hash) \cup IntField(2, l.index))
           s == a.spends
           r == b.spends
<1>1. a.kind = "Transfer" /\ b.kind = "Transfer" /\ s \in Seq(SpendType) /\ r \in Seq(SpendType)
  BY DEF TransferType
<1>2. InputFields(a) = ListField(1, Map(s, F)) /\ InputFields(b) = ListField(1, Map(r, F))
  BY <1>1 DEF InputFields
<1>3. ListField(1, Map(s, F)) = ListField(1, Map(r, F))
  BY <1>2
<1>4. \A v, w : ListField(1, v) = ListField(1, w) => v = w
  BY ListBound
<1>5. Map(s, F) = Map(r, F)
  BY <1>3, <1>4
<1>6. DOMAIN s = DOMAIN r /\ \A i \in DOMAIN s : F(s[i]) = F(r[i])
  BY <1>5 DEF Map
<1>7. DOMAIN s = 1..Len(s) /\ DOMAIN r = 1..Len(r) /\ Len(s) \in Nat /\ Len(r) \in Nat
  BY <1>1
<1>8. Len(s) = Len(r)
  BY <1>6, <1>7, IntervalsEqual
<1>9. DOMAIN s = DOMAIN r
  BY <1>6
<1>10. (\A i \in DOMAIN s : s[i] \in SpendType) /\ (\A i \in DOMAIN r : r[i] \in SpendType)
  BY <1>1
<1>11. ASSUME NEW i \in DOMAIN s PROVE s[i] = r[i]
  <2>1. s[i] \in SpendType /\ r[i] \in SpendType
    BY <1>9, <1>10
  <2>2. F(s[i]) = F(r[i])
    BY <1>6
  <2>3. HashMessage(SpendParts(s[i])) = HashMessage(SpendParts(r[i]))
    BY <2>2 DEF SpendParts
  <2>4. SpendParts(s[i]) = SpendParts(r[i])
    BY <2>3, MessagesBound
  <2>5. s[i].hash = r[i].hash /\ s[i].index = r[i].index
    BY <2>4, SpendPartsBound
  <2>6. QED
    BY <2>1, <2>5, SpendsEqual
<1> HIDE DEF s, r
<1>12. s = r
  BY <1>1, <1>7, <1>8, <1>11, SeqEqual
<1>13. QED
  BY <1>12, TransfersEqual DEF s, r

LEMMA BoolBound ==
  ASSUME NEW n, NEW v \in BOOLEAN, NEW w \in BOOLEAN, BoolField(n, v) = BoolField(n, w)
  PROVE  v = w
<1>1. v <=> w
  BY DEF BoolField
<1>2. QED
  BY <1>1

LEMMA CreateFieldsBound ==
  ASSUME NEW a \in CreateType, NEW b \in CreateType, InputFields(a) = InputFields(b)
  PROVE  a = b
<1> DEFINE f == InputParts(a)
           g == InputParts(b)
<1>1. /\ a.kind = "Create" /\ b.kind = "Create" /\ a.freezable \in BOOLEAN /\ b.freezable \in BOOLEAN
      /\ a.creator \in Option(Nat) /\ b.creator \in Option(Nat)
  BY DEF CreateType
<1>2. \A n \in 1..11 : f[n] = g[n]
  BY <1>1, InputNumbered, FieldsEqual
<1>3. /\ f[1] = g[1] /\ f[2] = g[2] /\ f[3] = g[3] /\ f[4] = g[4] /\ f[5] = g[5] /\ f[6] = g[6]
      /\ f[7] = g[7]
  BY <1>2
<1>4. /\ f[1] = BytesField(1, KeyBytes(a.issuer)) /\ g[1] = BytesField(1, KeyBytes(b.issuer))
      /\ f[2] = StringField(2, a.name) /\ g[2] = StringField(2, b.name)
      /\ f[3] = StringField(3, a.ticker) /\ g[3] = StringField(3, b.ticker)
      /\ f[4] = IntField(4, a.decimals) /\ g[4] = IntField(4, b.decimals)
  BY <1>1 DEF InputParts
<1>5. /\ f[5] = BytesField(5, <<"u128", a.supply>>) /\ g[5] = BytesField(5, <<"u128", b.supply>>)
      /\ f[6] = BoolField(6, a.freezable) /\ g[6] = BoolField(6, b.freezable)
      /\ f[7] = OptKey(7, a.creator) /\ g[7] = OptKey(7, b.creator)
  BY <1>1 DEF InputParts
<1> HIDE DEF f, g
<1>6. BytesField(1, KeyBytes(a.issuer)) = BytesField(1, KeyBytes(b.issuer))
  BY <1>3, <1>4
<1>7. StringField(2, a.name) = StringField(2, b.name)
  BY <1>3, <1>4
<1>8. StringField(3, a.ticker) = StringField(3, b.ticker)
  BY <1>3, <1>4
<1>9. IntField(4, a.decimals) = IntField(4, b.decimals)
  BY <1>3, <1>4
<1>10. BytesField(5, <<"u128", a.supply>>) = BytesField(5, <<"u128", b.supply>>)
  BY <1>3, <1>5
<1>11. BoolField(6, a.freezable) = BoolField(6, b.freezable)
  BY <1>3, <1>5
<1>12. OptKey(7, a.creator) = OptKey(7, b.creator)
  BY <1>3, <1>5
<1>13. KeyBytes(a.issuer) = KeyBytes(b.issuer)
  BY <1>6, BytesBound
<1>14. a.name = b.name
  BY <1>7, StringBound
<1>15. a.ticker = b.ticker
  BY <1>8, StringBound
<1>16. a.decimals = b.decimals
  BY <1>9, IntBound
<1>17. <<"u128", a.supply>> = <<"u128", b.supply>>
  BY <1>10, BytesBound
<1>18. a.freezable = b.freezable
  BY <1>1, <1>11, BoolBound
<1>19. a.creator = b.creator
  BY <1>1, <1>12, OptKeyBound
<1>20. a.issuer = b.issuer /\ a.supply = b.supply
  BY <1>13, <1>17, PairsEqual
<1>21. QED
  BY <1>14, <1>15, <1>16, <1>18, <1>19, <1>20, CreatesEqual

\* The message that is hashed, and its fields.
HashedExpiry(t, partial) ==
  IF ~partial /\ t.expiry > 0 THEN Some([seconds |-> t.expiry, nanos |-> 0]) ELSE None

HashedMessage(t, partial) ==
  [version |-> t.version, input |-> Some(BoundInput(t.input, partial)),
   outputs |-> Map(t.leaves, LAMBDA l : HashedOutput(t, partial, l)),
   operators |-> Sorted(t.operators), expiry |-> HashedExpiry(t, partial), network |-> t.network[1],
   created |-> Some(Timestamp(t.created)), invoices |-> MarshalInvoices(t),
   validity |-> Some(DefaultValidity)]

OutputHashes(t, partial) ==
  Map(t.leaves, LAMBDA l : HashMessage(OutputFields(HashedOutput(t, partial, l))))

MessageParts(t, partial) ==
  LET in == BoundInput(t.input, partial)
  IN  <<IntField(1, t.version),
        IF in.kind = "Mint" THEN MessageField(2, InputFields(in)) ELSE {},
        IF in.kind = "Transfer" THEN MessageField(3, InputFields(in)) ELSE {},
        ListField(4, OutputHashes(t, partial)), OperatorList(5, Sorted(t.operators)),
        TimestampField(6, HashedExpiry(t, partial)), IntField(7, t.network[1]),
        IF in.kind = "Create" THEN MessageField(8, InputFields(in)) ELSE {},
        TimestampField(9, Some(Timestamp(t.created))), InvoiceList(10, MarshalInvoices(t)),
        IntField(11, DefaultValidity)>>

\* The input of a partial hash has no creator.
LEMMA BoundInputFacts ==
  ASSUME NEW in \in MintType \cup TransferType \cup CreateType, NEW p \in BOOLEAN
  PROVE  /\ BoundInput(in, p) \in MintType \cup TransferType \cup CreateType
         /\ BoundInput(in, p).kind = in.kind
         /\ in.kind \in {"Mint", "Transfer", "Create"}
         /\ in.kind = "Mint" => BoundInput(in, p) \in MintType
         /\ in.kind = "Transfer" => BoundInput(in, p) \in TransferType
         /\ in.kind = "Create" => BoundInput(in, p) \in CreateType
<1>1. CASE in \in MintType
  BY <1>1 DEF BoundInput, MintType
<1>2. CASE in \in TransferType
  BY <1>2 DEF BoundInput, TransferType
<1>3. CASE in \in CreateType
  <2>1. in.kind = "Create"
    BY <1>3 DEF CreateType
  <2>2. None \in Option(Nat)
    BY DEF None, Option
  <2>3. [in EXCEPT !.creator = None] \in CreateType /\ [in EXCEPT !.creator = None].kind = "Create"
    BY <1>3, <2>2 DEF CreateType
  <2>4. BoundInput(in, p) = [in EXCEPT !.creator = None] \/ BoundInput(in, p) = in
    BY DEF BoundInput
  <2>5. BoundInput(in, p) \in CreateType /\ BoundInput(in, p).kind = "Create"
    BY <1>3, <2>1, <2>3, <2>4
  <2>6. QED
    BY <2>1, <2>5
<1>4. QED
  BY <1>1, <1>2, <1>3

\* The fields of a message are numbered.
LEMMA MessageNumbered ==
  ASSUME NEW t, NEW partial
  PROVE  Numbered(MessageParts(t, partial))
<1> DEFINE f == MessageParts(t, partial)
           in == BoundInput(t.input, partial)
<1>1. Tagged(1, f[1]) /\ Tagged(7, f[7]) /\ Tagged(11, f[11])
  BY FieldNumbers DEF MessageParts
<1>2. Tagged(2, f[2])
  <2>1. f[2] = {} \/ f[2] = MessageField(2, InputFields(in))
    BY DEF MessageParts
  <2>2. QED
    BY <2>1, FieldNumbers
<1>3. Tagged(3, f[3])
  <2>1. f[3] = {} \/ f[3] = MessageField(3, InputFields(in))
    BY DEF MessageParts
  <2>2. QED
    BY <2>1, FieldNumbers
<1>4. Tagged(8, f[8])
  <2>1. f[8] = {} \/ f[8] = MessageField(8, InputFields(in))
    BY DEF MessageParts
  <2>2. QED
    BY <2>1, FieldNumbers
<1>5. Tagged(4, f[4])
  BY FieldNumbers DEF MessageParts
<1>6. Tagged(5, f[5]) /\ Tagged(10, f[10])
  BY FieldNumbers DEF MessageParts, OperatorList, InvoiceList
<1>7. Tagged(6, f[6]) /\ Tagged(9, f[9])
  BY FieldNumbers DEF MessageParts
<1> HIDE DEF f
<1>8. Numbered(f)
  BY <1>1, <1>2, <1>3, <1>4, <1>5, <1>6, <1>7, NumberedEleven
<1>9. QED
  BY <1>8 DEF f

\* The hash of a message is that of its fields.
LEMMA MessageShape ==
  ASSUME NEW t \in TransactionType, NEW partial \in BOOLEAN
  PROVE  HashV4(HashedMessage(t, partial)) = HashMessage(Fields(MessageParts(t, partial)))
<1> DEFINE P == HashedMessage(t, partial)
           f == MessageParts(t, partial)
           in == BoundInput(t.input, partial)
           a1 == IntField(1, t.version)
           a4 == ListField(4, OutputHashes(t, partial))
           a5 == OperatorList(5, Sorted(t.operators))
           a6 == TimestampField(6, HashedExpiry(t, partial))
           a7 == IntField(7, t.network[1])
           a9 == TimestampField(9, Some(Timestamp(t.created)))
           a10 == InvoiceList(10, MarshalInvoices(t))
           a11 == IntField(11, DefaultValidity)
           number == CASE in.kind = "Mint" -> 2 [] in.kind = "Transfer" -> 3 [] in.kind = "Create" -> 8
           ain == MessageField(number, InputFields(in))
<1>1. /\ P.version = t.version /\ P.input = Some(in) /\ P.operators = Sorted(t.operators)
      /\ P.expiry = HashedExpiry(t, partial) /\ P.network = t.network[1]
      /\ P.created = Some(Timestamp(t.created)) /\ P.invoices = MarshalInvoices(t)
      /\ P.validity = Some(DefaultValidity)
      /\ P.outputs = Map(t.leaves, LAMBDA l : HashedOutput(t, partial, l))
  BY DEF HashedMessage
<1>2. P.input[1] = in
  BY <1>1, SomeFacts
<1>3. Map(P.outputs, LAMBDA o : HashMessage(OutputFields(o))) = OutputHashes(t, partial)
  BY <1>1 DEF Map, OutputHashes
<1>4. OptField(P.validity, LAMBDA v : IntField(11, v)) = a11
  BY <1>1, SomeFacts DEF OptField
<1>5. in.kind \in {"Mint", "Transfer", "Create"}
  <2>1. t.input \in MintType \cup TransferType \cup CreateType
    BY DEF TransactionType
  <2>2. QED
    BY <2>1, BoundInputFacts
<1> HIDE DEF P, in
<1>6. HashV4(P) = HashMessage(a1 \cup ain \cup a4 \cup a5 \cup a6 \cup a7 \cup a9 \cup a10 \cup a11)
  BY <1>1, <1>2, <1>3, <1>4 DEF HashV4
<1>7. /\ f[1] = a1 /\ f[4] = a4 /\ f[5] = a5 /\ f[6] = a6 /\ f[7] = a7 /\ f[9] = a9
      /\ f[10] = a10 /\ f[11] = a11
  BY DEF MessageParts
<1>8. f[2] \cup f[3] \cup f[8] = ain
  <2>1. /\ f[2] = IF in.kind = "Mint" THEN MessageField(2, InputFields(in)) ELSE {}
        /\ f[3] = IF in.kind = "Transfer" THEN MessageField(3, InputFields(in)) ELSE {}
        /\ f[8] = IF in.kind = "Create" THEN MessageField(8, InputFields(in)) ELSE {}
    BY DEF MessageParts, in
  <2> HIDE DEF f
  <2>2. QED
    BY <1>5, <2>1
<1>9. Fields(f) = f[1] \cup f[2] \cup f[3] \cup f[4] \cup f[5] \cup f[6] \cup f[7] \cup f[8]
                  \cup f[9] \cup f[10] \cup f[11]
  BY FieldsUnion
<1> HIDE DEF f, a1, ain, a4, a5, a6, a7, a9, a10, a11
<1>10. Fields(f) = a1 \cup ain \cup a4 \cup a5 \cup a6 \cup a7 \cup a9 \cup a10 \cup a11
  BY <1>7, <1>8, <1>9
<1>11. QED
  BY <1>6, <1>10 DEF P, f

\* A V4 transaction that can be hashed has a network and a version, and its
\* hash is that of its message.
LEMMA V4Shape ==
  ASSUME NEW t \in TransactionType, NEW partial \in BOOLEAN, t.version = 3,
         NEW h, HashTokenTransaction(t, partial) = Ok(h)
  PROVE  t.network # None /\ h = HashMessage(Fields(MessageParts(t, partial)))
<1> DEFINE m == Marshal(t, ~partial)
           P == IF partial THEN StripOperatorFields(m.val) ELSE m.val
           E == HashedMessage(t, partial)
           in == t.input
           outs == Map(t.leaves, LAMBDA l : MarshalLeaf(l, ~partial))
           exp == IF t.expiry > 0 THEN Some([seconds |-> t.expiry, nanos |-> 0]) ELSE None
           raw == [version |-> t.version, input |-> Some(in), outputs |-> outs,
                   operators |-> Sorted(t.operators), expiry |-> exp,
                   network |-> t.network[1], created |-> Some(Timestamp(t.created)),
                   invoices |-> MarshalInvoices(t), validity |-> Some(DefaultValidity)]
<1>1. m.ok
  <2>1. ~Err.ok /\ Ok(h).ok
    BY DEF Err, Ok
  <2>2. ~m.ok => HashTokenTransaction(t, partial) = Err
    BY DEF HashTokenTransaction
  <2>3. QED
    BY <2>1, <2>2
<1>2. HashTokenTransaction(t, partial) = Ok(HashV4(P))
  BY <1>1 DEF HashTokenTransaction
<1>3. h = HashV4(P)
  BY <1>2 DEF Ok
<1>4. t.network # None /\ m = Ok(raw)
  <2>1. ~Err.ok
    BY DEF Err
  <2>2. ~(t.network = None \/ t.version = 0 \/ ~MarshalableInput(t.input))
    BY <1>1, <2>1 DEF Marshal
  <2>3. QED
    BY <2>2 DEF Marshal
<1>5. m.val = raw
  BY <1>4 DEF Ok
<1>6. in.kind \in {"Mint", "Transfer", "Create"}
  <2>1. t.input \in MintType \cup TransferType \cup CreateType
    BY DEF TransactionType
  <2>2. QED
    BY <2>1, BoundInputFacts
<1>7. CASE ~partial
  <2>1. P = raw
    BY <1>5, <1>7
  <2>2. BoundInput(in, partial) = in /\ HashedExpiry(t, partial) = raw.expiry
    BY <1>7 DEF BoundInput, HashedExpiry
  <2>3. \A l : HashedOutput(t, partial, l) = MarshalLeaf(l, ~partial)
    BY <1>7 DEF HashedOutput, OperatorsTurn
  <2>4. outs = Map(t.leaves, LAMBDA l : HashedOutput(t, partial, l))
    BY <2>3 DEF Map
  <2>5. E = raw
    <3> HIDE DEF in, outs, exp
    <3>1. exp = HashedExpiry(t, partial) /\ Some(in) = Some(BoundInput(t.input, partial))
      BY <2>2 DEF in
    <3>2. QED
      BY <2>4, <3>1 DEF HashedMessage
  <2>6. QED
    BY <1>3, <1>4, <2>1, <2>5, MessageShape
<1>8. CASE partial /\ in.kind = "Create"
  <2>1. raw.input[1] = in
    BY SomeFacts
  <2>2. P = [raw EXCEPT !.expiry = None, !.input = Some([in EXCEPT !.creator = None])]
    <3> HIDE DEF raw
    <3>1. P = StripOperatorFields(raw)
      BY <1>5, <1>8
    <3>2. QED
      BY <1>8, <2>1, <3>1 DEF StripOperatorFields
  <2>3. BoundInput(in, partial) = [in EXCEPT !.creator = None] /\ HashedExpiry(t, partial) = None
    BY <1>8 DEF BoundInput, HashedExpiry
  <2>4. \A l : HashedOutput(t, partial, l) = MarshalLeaf(l, ~partial)
    BY <1>8 DEF HashedOutput, OperatorsTurn
  <2>5. outs = Map(t.leaves, LAMBDA l : HashedOutput(t, partial, l))
    BY <2>4 DEF Map
  <2>6. P = E
    <3> DEFINE new == Some([in EXCEPT !.creator = None])
    <3>1. HashedExpiry(t, partial) = None /\ new = Some(BoundInput(t.input, partial))
      BY <2>3
    <3>2. P = [raw EXCEPT !.expiry = None, !.input = new]
      BY <2>2
    <3> HIDE DEF in, outs, exp, new, P
    <3>3. P = [version |-> t.version, input |-> new, outputs |-> outs,
               operators |-> Sorted(t.operators), expiry |-> None,
               network |-> t.network[1], created |-> Some(Timestamp(t.created)),
               invoices |-> MarshalInvoices(t), validity |-> Some(DefaultValidity)]
      BY <3>2
    <3>4. QED
      BY <2>5, <3>1, <3>3 DEF HashedMessage
  <2>7. QED
    BY <1>3, <1>4, <2>6, MessageShape
<1>9. CASE partial /\ in.kind # "Create"
  <2> DEFINE Strip(o) == [o EXCEPT !.id = None, !.revocation = None, !.bond = None, !.lock = None]
  <2>1. raw.input[1] = in /\ raw.outputs = Map(t.leaves, LAMBDA l : MarshalLeaf(l, ~partial))
    BY SomeFacts
  <2>2. P = [raw EXCEPT !.expiry = None, !.outputs = Map(raw.outputs, Strip)]
    <3> HIDE DEF raw
    <3>1. P = StripOperatorFields(raw)
      BY <1>5, <1>9
    <3>2. QED
      BY <1>9, <2>1, <3>1 DEF StripOperatorFields
  <2>3. BoundInput(in, partial) = in /\ HashedExpiry(t, partial) = None
    BY <1>9 DEF BoundInput, HashedExpiry
  <2>4. \A l : HashedOutput(t, partial, l) = Strip(MarshalLeaf(l, ~partial))
    <3>1. OperatorsTurn(t, partial) /\ ~partial = FALSE
      BY <1>9 DEF OperatorsTurn
    <3>2. QED
      BY <3>1 DEF HashedOutput
  <2>5. Map(raw.outputs, Strip) = Map(t.leaves, LAMBDA l : HashedOutput(t, partial, l))
    BY <2>1, <2>4 DEF Map
  <2>6. P = E
    <3> DEFINE new == Map(raw.outputs, Strip)
    <3>1. /\ HashedExpiry(t, partial) = None /\ Some(in) = Some(BoundInput(t.input, partial))
          /\ new = Map(t.leaves, LAMBDA l : HashedOutput(t, partial, l))
      BY <2>3, <2>5
    <3>2. P = [raw EXCEPT !.expiry = None, !.outputs = new]
      BY <2>2
    <3> HIDE DEF in, outs, exp, new, P
    <3>3. P = [version |-> t.version, input |-> Some(in), outputs |-> new,
               operators |-> Sorted(t.operators), expiry |-> None,
               network |-> t.network[1], created |-> Some(Timestamp(t.created)),
               invoices |-> MarshalInvoices(t), validity |-> Some(DefaultValidity)]
      BY <3>2
    <3>4. QED
      BY <3>1, <3>3 DEF HashedMessage
  <2>7. QED
    BY <1>3, <1>4, <2>6, MessageShape
<1>10. QED
  BY <1>7, <1>8, <1>9

\* A time is bound by its field.
LEMMA StampBound ==
  ASSUME NEW n, NEW a, NEW b, TimestampField(n, Some(a)) = TimestampField(n, Some(b))
  PROVE  a.seconds = b.seconds /\ a.nanos = b.nanos
<1>1. /\ a.seconds = 0 /\ a.nanos = 0 => TimestampField(n, Some(a)) = {}
      /\ ~(a.seconds = 0 /\ a.nanos = 0) => TimestampField(n, Some(a)) = {<<n, HashTimestamp(a)>>}
  BY SomeFacts DEF TimestampField, OptField
<1>2. /\ b.seconds = 0 /\ b.nanos = 0 => TimestampField(n, Some(b)) = {}
      /\ ~(b.seconds = 0 /\ b.nanos = 0) => TimestampField(n, Some(b)) = {<<n, HashTimestamp(b)>>}
  BY SomeFacts DEF TimestampField, OptField
<1>3. CASE ~(a.seconds = 0 /\ a.nanos = 0)
  <2>1. {<<n, HashTimestamp(a)>>} = {<<n, HashTimestamp(b)>>}
    BY <1>1, <1>2, <1>3
  <2>2. HashTimestamp(a) = HashTimestamp(b)
    BY <2>1, HashInField
  <2>3. <<"l", <<HashInt(a.seconds), HashInt(a.nanos)>>>> = <<"l", <<HashInt(b.seconds), HashInt(b.nanos)>>>>
    BY <2>2, ShaInjective DEF HashTimestamp
  <2>4. HashInt(a.seconds) = HashInt(b.seconds) /\ HashInt(a.nanos) = HashInt(b.nanos)
    BY <2>3
  <2>5. <<"i", a.seconds>> = <<"i", b.seconds>> /\ <<"i", a.nanos>> = <<"i", b.nanos>>
    BY <2>4, ShaInjective DEF HashInt
  <2>6. QED
    BY <2>5
<1>4. CASE a.seconds = 0 /\ a.nanos = 0
  <2>1. b.seconds = 0 /\ b.nanos = 0
    BY <1>1, <1>2, <1>4
  <2>2. QED
    BY <1>4, <2>1
<1>5. QED
  BY <1>3, <1>4

LEMMA CreatedBound ==
  ASSUME NEW a \in Nat, NEW b \in Nat,
         TimestampField(9, Some(Timestamp(a))) = TimestampField(9, Some(Timestamp(b)))
  PROVE  a = b
<1>1. Timestamp(a).seconds = Timestamp(b).seconds /\ Timestamp(a).nanos = Timestamp(b).nanos
  BY StampBound
<1>2. Millis(Timestamp(a)) = Millis(Timestamp(b))
  BY <1>1 DEF Millis
<1>3. QED
  BY <1>2, MillisOfTimestamp

LEMMA ExpiryBound ==
  ASSUME NEW t, NEW u, NEW p \in BOOLEAN, NEW q \in BOOLEAN, t.expiry \in Nat, u.expiry \in Nat,
         TimestampField(6, HashedExpiry(t, p)) = TimestampField(6, HashedExpiry(u, q))
  PROVE  (IF p THEN 0 ELSE t.expiry) = (IF q THEN 0 ELSE u.expiry)
<1> DEFINE T(e) == [seconds |-> e, nanos |-> 0]
           F(e) == IF e > 0 THEN TimestampField(6, Some(T(e))) ELSE {}
<1>1. ASSUME NEW w, NEW r \in BOOLEAN, w.expiry \in Nat
      PROVE  TimestampField(6, HashedExpiry(w, r)) = F(IF r THEN 0 ELSE w.expiry)
  <2>1. TimestampField(6, None) = {}
    BY DEF TimestampField, OptField
  <2>2. CASE r
    BY <2>1, <2>2 DEF HashedExpiry
  <2>3. CASE ~r
    BY <2>1, <2>3, <1>1 DEF HashedExpiry
  <2>4. QED
    BY <2>2, <2>3
<1>2. \A e \in Nat : e > 0 => TimestampField(6, Some(T(e))) # {}
  <2>1. \A ts : ~(ts.seconds = 0 /\ ts.nanos = 0) => TimestampField(6, Some(ts)) # {}
    BY SomeFacts DEF TimestampField, OptField
  <2>2. \A e \in Nat : e > 0 => T(e).seconds # 0
    OBVIOUS
  <2> HIDE DEF T
  <2>3. QED
    BY <2>1, <2>2
<1>3. ASSUME NEW d \in Nat, NEW e \in Nat, F(d) = F(e)
      PROVE  d = e
  <2>1. CASE d > 0 /\ e > 0
    <3>1. TimestampField(6, Some(T(d))) = TimestampField(6, Some(T(e)))
      BY <1>3, <2>1
    <3>2. T(d).seconds = T(e).seconds
      BY <3>1, StampBound
    <3>3. QED
      BY <3>2
  <2>2. CASE d = 0
    BY <1>2, <1>3, <2>2
  <2>3. CASE e = 0
    BY <1>2, <1>3, <2>3
  <2>4. QED
    BY <2>1, <2>2, <2>3
<1>4. F(IF p THEN 0 ELSE t.expiry) = F(IF q THEN 0 ELSE u.expiry)
  <2>1. TimestampField(6, HashedExpiry(t, p)) = F(IF p THEN 0 ELSE t.expiry)
    BY <1>1
  <2>2. TimestampField(6, HashedExpiry(u, q)) = F(IF q THEN 0 ELSE u.expiry)
    BY <1>1
  <2>3. QED
    BY <2>1, <2>2
<1>5. (IF p THEN 0 ELSE t.expiry) \in Nat /\ (IF q THEN 0 ELSE u.expiry) \in Nat
  OBVIOUS
<1> HIDE DEF F
<1>6. QED
  BY <1>3, <1>4, <1>5

\* The lists of a message bind what they list.
LEMMA OperatorsListBound ==
  ASSUME NEW n, NEW a \in Seq(Nat), NEW b \in Seq(Nat), OperatorList(n, a) = OperatorList(n, b)
  PROVE  a = b
<1> DEFINE F(k) == HashBytes(KeyBytes(k))
<1>1. ListField(n, Map(a, F)) = ListField(n, Map(b, F))
  BY DEF OperatorList
<1>2. \A v, w : ListField(n, v) = ListField(n, w) => v = w
  BY ListBound
<1>3. Map(a, F) = Map(b, F)
  BY <1>1, <1>2
<1>4. DOMAIN a = DOMAIN b /\ \A i \in DOMAIN a : F(a[i]) = F(b[i])
  BY <1>3 DEF Map
<1>5. ASSUME NEW i \in DOMAIN a PROVE a[i] = b[i]
  <2>1. HashBytes(KeyBytes(a[i])) = HashBytes(KeyBytes(b[i]))
    BY <1>4
  <2>2. <<"r", KeyBytes(a[i])>> = <<"r", KeyBytes(b[i])>>
    BY <2>1, ShaInjective DEF HashBytes
  <2>3. KeyBytes(a[i]) = KeyBytes(b[i])
    BY <2>2
  <2>4. QED
    BY <2>3, PairsEqual
<1>6. DOMAIN a = DOMAIN b
  BY <1>4
<1>7. Len(a) = Len(b) /\ DOMAIN a = 1..Len(a)
  BY <1>6, SameDomain
<1>8. QED
  BY <1>5, <1>7, SeqEqual

LEMMA InvoicesListBound ==
  ASSUME NEW n, NEW a \in Seq(Nat), NEW b \in Seq(Nat), InvoiceList(n, a) = InvoiceList(n, b)
  PROVE  a = b
<1> DEFINE F(k) == HashMessage(TextField(1, k))
<1>1. ListField(n, Map(a, F)) = ListField(n, Map(b, F))
  BY DEF InvoiceList
<1>2. \A v, w : ListField(n, v) = ListField(n, w) => v = w
  BY ListBound
<1>3. Map(a, F) = Map(b, F)
  BY <1>1, <1>2
<1>4. DOMAIN a = DOMAIN b /\ \A i \in DOMAIN a : F(a[i]) = F(b[i])
  BY <1>3 DEF Map
<1>5. ASSUME NEW i \in DOMAIN a PROVE a[i] = b[i]
  <2>1. HashMessage(TextField(1, a[i])) = HashMessage(TextField(1, b[i]))
    BY <1>4
  <2>2. TextField(1, a[i]) = TextField(1, b[i])
    BY <2>1, MessagesBound
  <2>3. QED
    BY <2>2, TextBound
<1>6. DOMAIN a = DOMAIN b
  BY <1>4
<1>7. Len(a) = Len(b) /\ DOMAIN a = 1..Len(a)
  BY <1>6, SameDomain
<1>8. QED
  BY <1>5, <1>7, SeqEqual

\* Sorting keeps what is sorted.
LEMMA SortedRange ==
  ASSUME NEW s \in Seq(Nat)
  PROVE  /\ \A i \in DOMAIN s : \E j \in DOMAIN s : Sorted(s)[i] = s[j]
         /\ \A j \in DOMAIN s : \E i \in DOMAIN s : s[j] = Sorted(s)[i]
<1>1. PICK p \in Orders(s) : Sorted(s) = [i \in DOMAIN s |-> s[p[i]]]
  BY SortedFacts
<1>2. p \in [DOMAIN s -> DOMAIN s]
  BY DEF Orders
<1>3. \A k \in DOMAIN s : \E i \in DOMAIN s : p[i] = k
  BY OrderOnto
<1>4. QED
  BY <1>1, <1>2, <1>3

LEMMA SortedTexts ==
  ASSUME NEW t \in TransactionType, NEW u \in TransactionType,
         Sorted(TextsOf(t)) = Sorted(TextsOf(u))
  PROVE  SameTexts(t, u)
<1> DEFINE a == TextsOf(t)
           b == TextsOf(u)
           D == DOMAIN t.invoices
           E == DOMAIN u.invoices
<1>1. /\ a \in Seq(Nat) /\ DOMAIN a = D /\ \A i \in D : a[i] = t.invoices[i].text
      /\ b \in Seq(Nat) /\ DOMAIN b = E /\ \A i \in E : b[i] = u.invoices[i].text
  BY IdsFacts
<1>2. Sorted(a) = Sorted(b)
  OBVIOUS
<1> HIDE DEF a, b
<1>3. DOMAIN Sorted(a) = D /\ DOMAIN Sorted(b) = E
  BY <1>1, SortedFacts
<1>4. D = E
  BY <1>2, <1>3
<1>5. /\ \A i \in D : \E j \in D : Sorted(a)[i] = a[j]
      /\ \A j \in D : \E i \in D : a[j] = Sorted(a)[i]
  <2>1. a \in Seq(Nat) /\ DOMAIN a = D
    BY <1>1
  <2>2. /\ \A i \in DOMAIN a : \E j \in DOMAIN a : Sorted(a)[i] = a[j]
        /\ \A j \in DOMAIN a : \E i \in DOMAIN a : a[j] = Sorted(a)[i]
    BY <2>1, SortedRange
  <2> HIDE DEF D
  <2>3. QED
    BY <2>1, <2>2
<1>6. /\ \A i \in E : \E j \in E : Sorted(b)[i] = b[j]
      /\ \A j \in E : \E i \in E : b[j] = Sorted(b)[i]
  <2>1. b \in Seq(Nat) /\ DOMAIN b = E
    BY <1>1
  <2>2. /\ \A i \in DOMAIN b : \E j \in DOMAIN b : Sorted(b)[i] = b[j]
        /\ \A j \in DOMAIN b : \E i \in DOMAIN b : b[j] = Sorted(b)[i]
    BY <2>1, SortedRange
  <2> HIDE DEF E
  <2>3. QED
    BY <2>1, <2>2
<1>7. ASSUME NEW i \in D
      PROVE  \E j \in E : t.invoices[i].text = u.invoices[j].text
  <2>1. PICK k \in D : a[i] = Sorted(a)[k]
    BY <1>5
  <2>2. PICK j \in E : Sorted(b)[k] = b[j]
    BY <1>4, <1>6
  <2>3. t.invoices[i].text = u.invoices[j].text
    BY <1>1, <1>2, <2>1, <2>2
  <2>4. QED
    BY <2>3
<1>8. ASSUME NEW j \in E
      PROVE  \E i \in D : u.invoices[j].text = t.invoices[i].text
  <2>1. PICK k \in E : b[j] = Sorted(b)[k]
    BY <1>6
  <2>2. PICK i \in D : Sorted(a)[k] = a[i]
    BY <1>4, <1>5
  <2>3. u.invoices[j].text = t.invoices[i].text
    BY <1>1, <1>2, <2>1, <2>2
  <2>4. QED
    BY <2>3
<1>9. QED
  BY <1>7, <1>8 DEF SameTexts

\* An input is bound by the field it is in and the fields it has.
LEMMA InputPartsBound ==
  ASSUME NEW a \in MintType \cup TransferType \cup CreateType,
         NEW b \in MintType \cup TransferType \cup CreateType,
         (IF a.kind = "Mint" THEN MessageField(2, InputFields(a)) ELSE {})
           = (IF b.kind = "Mint" THEN MessageField(2, InputFields(b)) ELSE {}),
         (IF a.kind = "Transfer" THEN MessageField(3, InputFields(a)) ELSE {})
           = (IF b.kind = "Transfer" THEN MessageField(3, InputFields(b)) ELSE {}),
         (IF a.kind = "Create" THEN MessageField(8, InputFields(a)) ELSE {})
           = (IF b.kind = "Create" THEN MessageField(8, InputFields(b)) ELSE {})
  PROVE  a = b
<1>1. \A x, F : F # {} => MessageField(x, F) # {}
  BY DEF MessageField
<1>2. \A in : in.kind = "Mint" => InputFields(in) # {}
  BY DEF InputFields, BytesField
<1>3. \A in : in.kind = "Create" => InputFields(in) # {}
  BY DEF InputFields, BytesField
<1>4. a.kind = "Mint" => MessageField(2, InputFields(a)) # {}
  BY <1>1, <1>2
<1>5. b.kind = "Mint" => MessageField(2, InputFields(b)) # {}
  BY <1>1, <1>2
<1>6. a.kind = "Create" => MessageField(8, InputFields(a)) # {}
  BY <1>1, <1>3
<1>7. b.kind = "Create" => MessageField(8, InputFields(b)) # {}
  BY <1>1, <1>3
<1>8. a.kind = "Mint" <=> b.kind = "Mint"
  BY <1>4, <1>5
<1>9. a.kind = "Create" <=> b.kind = "Create"
  BY <1>6, <1>7
<1>10. a.kind \in {"Mint", "Transfer", "Create"} /\ b.kind \in {"Mint", "Transfer", "Create"}
  BY InputFacts
<1>11. CASE a.kind = "Mint"
  <2>1. a \in MintType /\ b \in MintType
    BY <1>8, <1>11, InputFacts
  <2>2. MessageField(2, InputFields(a)) = MessageField(2, InputFields(b))
    BY <1>8, <1>11
  <2>3. InputFields(a) = InputFields(b)
    BY <2>2, MessageBound
  <2>4. QED
    BY <2>1, <2>3, MintFieldsBound
<1>12. CASE a.kind = "Create"
  <2>1. a \in CreateType /\ b \in CreateType
    BY <1>9, <1>12, InputFacts
  <2>2. MessageField(8, InputFields(a)) = MessageField(8, InputFields(b))
    BY <1>9, <1>12
  <2>3. InputFields(a) = InputFields(b)
    BY <2>2, MessageBound
  <2>4. QED
    BY <2>1, <2>3, CreateFieldsBound
<1>13. CASE a.kind = "Transfer"
  <2>1. b.kind = "Transfer"
    BY <1>8, <1>9, <1>10, <1>13
  <2>2. a \in TransferType /\ b \in TransferType
    BY <1>13, <2>1, InputFacts
  <2>3. MessageField(3, InputFields(a)) = MessageField(3, InputFields(b))
    BY <1>13, <2>1
  <2>4. InputFields(a) = InputFields(b)
    BY <2>3, MessageBound
  <2>5. QED
    BY <2>2, <2>4, TransferFieldsBound
<1>14. QED
  BY <1>10, <1>11, <1>12, <1>13

\* The leaves are bound by their field.
LEMMA OutputsBound ==
  ASSUME NEW t \in TransactionType, NEW u \in TransactionType, t.version = 3, u.version = 3,
         t.input.kind = u.input.kind, NEW p \in BOOLEAN, NEW q \in BOOLEAN,
         ListField(4, OutputHashes(t, p)) = ListField(4, OutputHashes(u, q))
  PROVE  Bound(t, p).leaves = Bound(u, q).leaves
<1>1. OutputHashes(t, p) = OutputHashes(u, q)
  <2>1. \A v, w : ListField(4, v) = ListField(4, w) => v = w
    BY ListBound
  <2>2. QED
    BY <2>1
<1>2. /\ DOMAIN t.leaves = DOMAIN u.leaves
      /\ \A i \in DOMAIN t.leaves : HashMessage(OutputFields(HashedOutput(t, p, t.leaves[i])))
                                    = HashMessage(OutputFields(HashedOutput(u, q, u.leaves[i])))
  BY <1>1 DEF OutputHashes, Map
<1>3. /\ t.leaves \in Seq(LeafType) /\ u.leaves \in Seq(LeafType)
  BY TransactionFacts
<1>4. (\A i \in DOMAIN t.leaves : t.leaves[i] \in LeafType) /\ (\A i \in DOMAIN u.leaves : u.leaves[i] \in LeafType)
  BY <1>3
<1>5. ASSUME NEW i \in DOMAIN t.leaves
      PROVE  BoundLeaf(t, p, t.leaves[i]) = BoundLeaf(u, q, u.leaves[i])
  <2>1. t.leaves[i] \in LeafType /\ u.leaves[i] \in LeafType
    BY <1>2, <1>4
  <2>2. HashMessage(OutputFields(HashedOutput(t, p, t.leaves[i])))
          = HashMessage(OutputFields(HashedOutput(u, q, u.leaves[i])))
    BY <1>2
  <2>3. OutputFields(HashedOutput(t, p, t.leaves[i])) = OutputFields(HashedOutput(u, q, u.leaves[i]))
    BY <2>2, MessagesBound
  <2>4. QED
    BY <2>1, <2>3, LeafPartsBound
<1>6. QED
  BY <1>2, <1>5 DEF Bound, Map

\* A V4 hash binds the transaction.
LEMMA MessagesBind ==
  ASSUME NEW t \in TransactionType, NEW u \in TransactionType, t.version = 3, u.version = 3,
         NEW p \in BOOLEAN, NEW q \in BOOLEAN, t.network # None, u.network # None,
         HashMessage(Fields(MessageParts(t, p))) = HashMessage(Fields(MessageParts(u, q)))
  PROVE  Bound(t, p) = Bound(u, q)
<1> DEFINE f == MessageParts(t, p)
           g == MessageParts(u, q)
           a == BoundInput(t.input, p)
           b == BoundInput(u.input, q)
<1>1. Fields(f) = Fields(g)
  BY MessagesBound
<1>2. \A n \in 1..11 : f[n] = g[n]
  BY <1>1, MessageNumbered, FieldsEqual
<1>3. /\ f[2] = g[2] /\ f[3] = g[3] /\ f[4] = g[4] /\ f[5] = g[5] /\ f[6] = g[6] /\ f[7] = g[7]
      /\ f[8] = g[8] /\ f[9] = g[9] /\ f[10] = g[10]
  BY <1>2
<1>4. /\ f[2] = (IF a.kind = "Mint" THEN MessageField(2, InputFields(a)) ELSE {})
      /\ f[3] = (IF a.kind = "Transfer" THEN MessageField(3, InputFields(a)) ELSE {})
      /\ f[8] = (IF a.kind = "Create" THEN MessageField(8, InputFields(a)) ELSE {})
      /\ g[2] = (IF b.kind = "Mint" THEN MessageField(2, InputFields(b)) ELSE {})
      /\ g[3] = (IF b.kind = "Transfer" THEN MessageField(3, InputFields(b)) ELSE {})
      /\ g[8] = (IF b.kind = "Create" THEN MessageField(8, InputFields(b)) ELSE {})
  BY DEF MessageParts
<1>5. /\ f[4] = ListField(4, OutputHashes(t, p)) /\ g[4] = ListField(4, OutputHashes(u, q))
      /\ f[5] = OperatorList(5, Sorted(t.operators)) /\ g[5] = OperatorList(5, Sorted(u.operators))
      /\ f[6] = TimestampField(6, HashedExpiry(t, p)) /\ g[6] = TimestampField(6, HashedExpiry(u, q))
  BY DEF MessageParts
<1>6. /\ f[7] = IntField(7, t.network[1]) /\ g[7] = IntField(7, u.network[1])
      /\ f[9] = TimestampField(9, Some(Timestamp(t.created)))
      /\ g[9] = TimestampField(9, Some(Timestamp(u.created)))
      /\ f[10] = InvoiceList(10, MarshalInvoices(t)) /\ g[10] = InvoiceList(10, MarshalInvoices(u))
  BY DEF MessageParts
<1> HIDE DEF f, g
<1>7. /\ t.input \in MintType \cup TransferType \cup CreateType
      /\ u.input \in MintType \cup TransferType \cup CreateType
      /\ t.operators \in Seq(Nat) /\ u.operators \in Seq(Nat) /\ t.expiry \in Nat /\ u.expiry \in Nat
      /\ t.network \in Option(Nat) /\ u.network \in Option(Nat) /\ t.created \in Nat /\ u.created \in Nat
  BY TransactionFacts
<1>8. /\ a \in MintType \cup TransferType \cup CreateType /\ a.kind = t.input.kind
      /\ b \in MintType \cup TransferType \cup CreateType /\ b.kind = u.input.kind
  BY <1>7, BoundInputFacts
<1> HIDE DEF a, b
<1>9. a = b
  <2>1. (IF a.kind = "Mint" THEN MessageField(2, InputFields(a)) ELSE {})
          = (IF b.kind = "Mint" THEN MessageField(2, InputFields(b)) ELSE {})
    BY <1>3, <1>4
  <2>2. (IF a.kind = "Transfer" THEN MessageField(3, InputFields(a)) ELSE {})
          = (IF b.kind = "Transfer" THEN MessageField(3, InputFields(b)) ELSE {})
    BY <1>3, <1>4
  <2>3. (IF a.kind = "Create" THEN MessageField(8, InputFields(a)) ELSE {})
          = (IF b.kind = "Create" THEN MessageField(8, InputFields(b)) ELSE {})
    BY <1>3, <1>4
  <2>4. QED
    BY <1>8, <2>1, <2>2, <2>3, InputPartsBound
<1>10. Bound(t, p).leaves = Bound(u, q).leaves
  <2>1. ListField(4, OutputHashes(t, p)) = ListField(4, OutputHashes(u, q))
    BY <1>3, <1>5
  <2>2. t.input.kind = u.input.kind
    BY <1>8, <1>9
  <2>3. QED
    BY <2>1, <2>2, OutputsBound
<1>11. Sorted(t.operators) = Sorted(u.operators)
  <2>1. OperatorList(5, Sorted(t.operators)) = OperatorList(5, Sorted(u.operators))
    BY <1>3, <1>5
  <2>2. Sorted(t.operators) \in Seq(Nat) /\ Sorted(u.operators) \in Seq(Nat)
    BY <1>7, SortedFacts
  <2>3. QED
    BY <2>1, <2>2, OperatorsListBound
<1>12. t.network = u.network
  <2>1. IntField(7, t.network[1]) = IntField(7, u.network[1])
    BY <1>3, <1>6
  <2>2. t.network[1] = u.network[1]
    BY <2>1, IntBound
  <2>3. QED
    BY <1>7, <2>2, OptionsEqual
<1>13. Bound(t, p).created = Bound(u, q).created
  <2>1. TimestampField(9, Some(Timestamp(t.created))) = TimestampField(9, Some(Timestamp(u.created)))
    BY <1>3, <1>6
  <2>2. t.created = u.created
    BY <1>7, <2>1, CreatedBound
  <2>3. QED
    BY <2>2 DEF Bound
<1>14. Bound(t, p).expiry = Bound(u, q).expiry
  <2>1. TimestampField(6, HashedExpiry(t, p)) = TimestampField(6, HashedExpiry(u, q))
    BY <1>3, <1>5
  <2>2. (IF p THEN 0 ELSE t.expiry) = (IF q THEN 0 ELSE u.expiry)
    BY <1>7, <2>1, ExpiryBound
  <2>3. QED
    BY <2>2 DEF Bound
<1>15. Bound(t, p).invoices = Bound(u, q).invoices
  <2>1. MarshalInvoices(t) = Sorted(TextsOf(t)) /\ MarshalInvoices(u) = Sorted(TextsOf(u))
    BY DEF MarshalInvoices, TextsOf
  <2>2. InvoiceList(10, Sorted(TextsOf(t))) = InvoiceList(10, Sorted(TextsOf(u)))
    BY <1>3, <1>6, <2>1
  <2>3. TextsOf(t) \in Seq(Nat) /\ TextsOf(u) \in Seq(Nat)
    BY IdsFacts
  <2>4. Sorted(TextsOf(t)) \in Seq(Nat) /\ Sorted(TextsOf(u)) \in Seq(Nat)
    BY <2>3, SortedFacts
  <2>5. Sorted(TextsOf(t)) = Sorted(TextsOf(u))
    BY <2>2, <2>4, InvoicesListBound
  <2>6. {t.invoices[i].text : i \in DOMAIN t.invoices} = {u.invoices[i].text : i \in DOMAIN u.invoices}
    BY <2>5, SortedTexts, SameTextsSets
  <2>7. QED
    BY <2>6 DEF Bound
<1>16. QED
  BY <1>9, <1>10, <1>11, <1>12, <1>13, <1>14, <1>15, BoundParts DEF a, b

\* V4 transactions that are bound alike have the same fields.
LEMMA MessagesAlike ==
  ASSUME NEW t \in TransactionType, NEW u \in TransactionType, t.version = 3, u.version = 3,
         KeyedByInvoice(t, u), KeyedByInvoice(u, t), NEW p \in BOOLEAN, Bound(t, p) = Bound(u, p)
  PROVE  MessageParts(t, p) = MessageParts(u, p)
<1>1. /\ BoundInput(t.input, p) = BoundInput(u.input, p)
      /\ Bound(t, p).leaves = Bound(u, p).leaves
      /\ Sorted(t.operators) = Sorted(u.operators) /\ t.network = u.network
      /\ Bound(t, p).created = Bound(u, p).created
      /\ Bound(t, p).expiry = Bound(u, p).expiry
      /\ Bound(t, p).invoices = Bound(u, p).invoices
  BY BoundParts
<1>2. t.created = u.created
  BY <1>1 DEF Bound
<1>3. HashedExpiry(t, p) = HashedExpiry(u, p)
  <2>1. ~p => t.expiry = u.expiry
    BY <1>1 DEF Bound
  <2>2. QED
    BY <2>1 DEF HashedExpiry
<1>4. MarshalInvoices(t) = MarshalInvoices(u)
  <2>1. {t.invoices[i].text : i \in DOMAIN t.invoices} = {u.invoices[i].text : i \in DOMAIN u.invoices}
    BY <1>1 DEF Bound
  <2>2. SameTexts(t, u)
    BY <2>1, SameTextsSets
  <2>3. Sorted(TextsOf(t)) = Sorted(TextsOf(u))
    BY <2>2, InvoicesAlike
  <2>4. QED
    BY <2>3 DEF MarshalInvoices, TextsOf
<1>5. OutputHashes(t, p) = OutputHashes(u, p)
  <2>1. t.input.kind = u.input.kind
    <3>1. /\ t.input \in MintType \cup TransferType \cup CreateType
          /\ u.input \in MintType \cup TransferType \cup CreateType
      BY TransactionFacts
    <3>2. BoundInput(t.input, p).kind = t.input.kind /\ BoundInput(u.input, p).kind = u.input.kind
      BY <3>1, BoundInputFacts
    <3>3. QED
      BY <1>1, <3>2
  <2>2. /\ DOMAIN t.leaves = DOMAIN u.leaves
        /\ \A i \in DOMAIN t.leaves : BoundLeaf(t, p, t.leaves[i]) = BoundLeaf(u, p, u.leaves[i])
    BY <1>1 DEF Bound, Map
  <2>3. t.leaves \in Seq(LeafType) /\ u.leaves \in Seq(LeafType)
    BY TransactionFacts
  <2>4. /\ \A i \in DOMAIN t.leaves : t.leaves[i] \in LeafType
        /\ \A i \in DOMAIN u.leaves : u.leaves[i] \in LeafType
    BY <2>3
  <2>5. ASSUME NEW i \in DOMAIN t.leaves
        PROVE  OutputFields(HashedOutput(t, p, t.leaves[i])) = OutputFields(HashedOutput(u, p, u.leaves[i]))
    <3>1. t.leaves[i] \in LeafType /\ u.leaves[i] \in LeafType
      BY <2>2, <2>4
    <3>2. BoundLeaf(t, p, t.leaves[i]) = BoundLeaf(u, p, u.leaves[i])
      BY <2>2
    <3>3. QED
      BY <2>1, <3>1, <3>2, LeafPartsAlike
  <2>6. QED
    BY <2>2, <2>5 DEF OutputHashes, Map
<1>6. QED
  BY <1>1, <1>2, <1>3, <1>4, <1>5 DEF MessageParts

\* A stream of hashes is no message.
LEMMA StreamNoMessage ==
  ASSUME NEW t, Streamed(t), NEW p \in BOOLEAN, NEW F
  PROVE  HashStream(t, p) # HashMessage(F)
<1> DEFINE s == StreamOf(t, AfterInput(t, p))
<1>1. HashStream(t, p) = Sha(s)
  BY StreamShape
<1> DEFINE y == TypeHashes(t)
           i == InputHashes(t.input)
           l == Counted(LeafHashes(t, p))
           k == Join(Counted(KeyHashes(t)), TailOf(t, p))
           c == AfterInput(t, p)
<1>2. c \in Seq(Shas) /\ k \in Seq(Shas) /\ LeafHashes(t, p) \in Seq(Shas) /\ c = Join(l, k)
  BY AfterInputFacts DEF AfterInput
<1>3. i \in Seq(Shas) /\ i # << >> /\ i \o c \in Seq(Shas)
  BY <1>2, InputHead, TypeHead
<1>4. y \in Seq(Shas) /\ Len(y) >= 1 /\ s = y \o (i \o c)
  <2>1. /\ y \in Seq(Shas) /\ (t.version = 0 => Len(y) = 1) /\ (t.version # 0 => Len(y) = 2)
    BY <1>2, TypeHead
  <2>2. s = y \o (i \o c)
    BY DEF StreamOf
  <2>3. Len(y) >= 1
    <3>1. Len(y) = 1 \/ Len(y) = 2
      BY <2>1, Zenon
    <3>2. QED
      BY <3>1
  <2>4. QED
    BY <2>1, <2>2, <2>3
<1>5. l \in Seq(Shas) /\ Len(l) >= 1
  <2>1. l \in Seq(Shas) /\ Len(l) = Len(LeafHashes(t, p)) + 1 /\ Len(LeafHashes(t, p)) \in Nat
    BY <1>2, CountedFacts
  <2> HIDE DEF l
  <2>2. QED
    BY <2>1
<1> HIDE DEF y, i, l, k, c, s
<1>6. Len(c) >= 1
  <2>1. Len(c) = Len(l) + Len(k)
    BY <1>2, <1>5, ConcatProperties DEF Join
  <2>2. Len(l) \in Nat /\ Len(k) \in Nat
    BY <1>2, <1>5
  <2>3. QED
    BY <1>5, <2>1, <2>2
<1>7. Len(i) \in Nat \ {0} /\ Len(c) \in Nat /\ Len(y) \in Nat
  BY <1>2, <1>3, <1>4, EmptySeq
<1>8. Len(i \o c) = Len(i) + Len(c)
  BY <1>2, <1>3, ConcatProperties
<1>9. Len(s) = Len(y) + Len(i \o c)
  BY <1>3, <1>4, ConcatProperties
<1>10. Len(s) >= 3
  BY <1>4, <1>6, <1>7, <1>8, <1>9
<1>11. Len(<<"d", F>>) = 2
  OBVIOUS
<1>12. Len(s) # 2
  BY <1>10
<1>13. s # <<"d", F>>
  BY <1>11, <1>12, Zenon
<1>14. QED
  BY <1>1, <1>13, ShaInjective DEF HashMessage, s

\* What a stream is.
LEMMA HashIs ==
  ASSUME NEW t, NEW p, NEW h, HashTokenTransaction(t, p) = Ok(h), t.version # 3
  PROVE  Hashable(t, p) /\ h = HashStream(t, p)
<1>1. ~Err.ok /\ Ok(h).ok /\ Ok(h).val = h
  BY DEF Err, Ok
<1>2. Hashable(t, p)
  BY <1>1 DEF HashTokenTransaction
<1>3. HashTokenTransaction(t, p) = Ok(HashStream(t, p))
  BY <1>2 DEF HashTokenTransaction
<1>4. Ok(HashStream(t, p)).val = HashStream(t, p)
  BY DEF Ok
<1>5. QED
  BY <1>1, <1>2, <1>3, <1>4

\* Hashes of two transactions are equal only if the transactions are bound
\* alike, and kinds of hash that are bound alike have one hash.
LEMMA HashesBind ==
  ASSUME NEW t \in Transactions, NEW u \in Transactions, NEW p \in BOOLEAN, NEW q \in BOOLEAN,
         NEW g, NEW h,
         HashTokenTransaction(t, p) = Ok(g), HashTokenTransaction(u, q) = Ok(h)
  PROVE  /\ g = h => Bound(t, p) = Bound(u, q)
         /\ p = q /\ Bound(t, p) = Bound(u, q) => g = h
<1>1. t \in TransactionType /\ u \in TransactionType /\ KeyedByInvoice(t, u) /\ KeyedByInvoice(u, t)
  BY TokenTxAssumption
<1>2. t.version \in 0..3 /\ u.version \in 0..3
  BY <1>1, TransactionFacts
<1>3. t.version # 3 => Streamed(t) /\ Hashable(t, p) /\ g = HashStream(t, p)
  <2>1. t.version # 3 => Hashable(t, p) /\ g = HashStream(t, p)
    BY HashIs
  <2>2. QED
    BY <1>1, <1>2, <2>1 DEF Streamed, Hashable
<1>4. u.version # 3 => Streamed(u) /\ Hashable(u, q) /\ h = HashStream(u, q)
  <2>1. u.version # 3 => Hashable(u, q) /\ h = HashStream(u, q)
    BY HashIs
  <2>2. QED
    BY <1>1, <1>2, <2>1 DEF Streamed, Hashable
<1>5. t.version = 3 => t.network # None /\ g = HashMessage(Fields(MessageParts(t, p)))
  BY <1>1, V4Shape
<1>6. u.version = 3 => u.network # None /\ h = HashMessage(Fields(MessageParts(u, q)))
  BY <1>1, V4Shape
<1>7. CASE t.version = 3 /\ u.version = 3
  <2>1. g = h => Bound(t, p) = Bound(u, q)
    BY <1>1, <1>5, <1>6, <1>7, MessagesBind
  <2>2. p = q /\ Bound(t, p) = Bound(u, q) => g = h
    <3>1. Bound(t, p) = Bound(u, p) => MessageParts(t, p) = MessageParts(u, p)
      BY <1>1, <1>7, MessagesAlike
    <3>2. QED
      BY <1>5, <1>6, <1>7, <3>1
  <2>3. QED
    BY <2>1, <2>2
<1>8. CASE t.version # 3 /\ u.version # 3
  <2>1. g = h => Bound(t, p) = Bound(u, q)
    BY <1>3, <1>4, <1>8, StreamsBind
  <2>2. p = q /\ Bound(t, p) = Bound(u, q) => g = h
    <3>1. Bound(t, p) = Bound(u, p) => HashStream(t, p) = HashStream(u, p)
      BY <1>1, <1>3, <1>4, <1>8, StreamsAlike
    <3>2. QED
      BY <1>3, <1>4, <1>8, <3>1
  <2>3. QED
    BY <2>1, <2>2
<1>9. Bound(t, p) = Bound(u, q) => t.version = u.version
  BY BoundParts
<1>10. CASE t.version = 3 /\ u.version # 3
  <2>1. g # h
    BY <1>4, <1>5, <1>10, StreamNoMessage
  <2>2. QED
    BY <1>9, <1>10, <2>1
<1>11. CASE t.version # 3 /\ u.version = 3
  <2>1. g # h
    BY <1>3, <1>6, <1>11, StreamNoMessage
  <2>2. QED
    BY <1>9, <1>11, <2>1
<1>12. QED
  BY <1>7, <1>8, <1>10, <1>11

\* In every state of every behaviour, hash_token_transaction binds the
\* transaction: two of its hashes, partial or final, of whatever versions, are
\* equal only if the transactions agree on all that the hash is to bind; and
\* transactions that agree have one hash, in whatever order their operators
\* and attachments are listed.
THEOREM HashesBindTransactions == Spec => []HashBinds
<1>1. IInv => HashBinds
  <2> SUFFICES ASSUME IInv, NEW a \in hashed, NEW b \in hashed
               PROVE  /\ a.hash = b.hash => Bound(a.tx, a.partial) = Bound(b.tx, b.partial)
                      /\ (a.partial = b.partial /\ Bound(a.tx, a.partial) = Bound(b.tx, b.partial))
                           => a.hash = b.hash
    BY DEF HashBinds
  <2>1. /\ a.tx \in Transactions /\ a.partial \in BOOLEAN
        /\ HashTokenTransaction(a.tx, a.partial) = Ok(a.hash)
        /\ b.tx \in Transactions /\ b.partial \in BOOLEAN
        /\ HashTokenTransaction(b.tx, b.partial) = Ok(b.hash)
    BY DEF IInv, HashedSound
  <2>2. QED
    BY <2>1, HashesBind
<1>2. QED
  BY <1>1, InductiveInvariance, PTL
=============================================================================
