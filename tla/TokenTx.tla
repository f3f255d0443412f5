------------------------------ MODULE TokenTx ------------------------------
(***************************************************************************)
(* The data of one token transaction, from the request to the messages the *)
(* signers are asked to sign: create_partial_token_transaction and         *)
(* create_wrunes_metadata (spark_service), marshal and unmarshal           *)
(* (crates/lrc20), the hashes of the service and of lrc20's SparkHash, and *)
(* the proto hasher under both.                                            *)
(*                                                                         *)
(* SHA-256 is a constructor: two hashes are equal exactly when their       *)
(* inputs are, and an input is a sequence of tagged values, the tag being  *)
(* the width in which the value is written.  Public keys are numbers in    *)
(* the order of their serialization.  An Option is a sequence of at most   *)
(* one element.  The Spark operator, which fills in its own fields of the  *)
(* transaction, is external.                                               *)
(***************************************************************************)
EXTENDS Naturals, Sequences, FiniteSets

CONSTANTS Requests,     \* what send_spark_transaction may be asked for
          Issuer,       \* the issuer's key
          Operators,    \* the configured operator keys, in configuration order
          Created,      \* creation times, in milliseconds
          Expiries,     \* expiry times an operator may answer
          Transactions  \* TokenTransaction values hashed with SparkHash

Option(S) == {o \in Seq(S) : Len(o) <= 1}

(* The data types of lrc20.  32-byte identifiers and hashes are numbered.  *)
Ids == {"id32"} \X Nat
LeafType ==
  [id : Option(STRING), owner : Nat, revocation : Nat, token : Ids, amount : Nat,
   bond : Option(Nat), lock : Option(Nat)]
SpendType == [hash : Ids, index : Nat]
AttachmentType == [id : Nat, text : Nat]
MintType == [kind : {"Mint"}, issuer : Nat, token : Option(Ids)]
TransferType == [kind : {"Transfer"}, spends : Seq(SpendType)]
CreateType ==
  [kind : {"Create"}, issuer : Nat, name : STRING, ticker : STRING, decimals : Nat, supply : Nat,
   freezable : BOOLEAN, creator : Option(Nat)]
TransactionType ==
  [version : 0..3, input : MintType \cup TransferType \cup CreateType, leaves : Seq(LeafType),
   operators : Seq(Nat), expiry : Nat, network : Option(Nat), created : Nat,
   invoices : Seq(AttachmentType)]

(* The attachments are a map from the id that each invoice carries to the  *)
(* text of the invoice, listed in any order.  Texts are numbered in their  *)
(* order, the empty one is 0.                                              *)
KeyedByInvoice(t, u) ==
  /\ \A i, j \in DOMAIN t.invoices : t.invoices[i].id = t.invoices[j].id => i = j
  /\ \A i \in DOMAIN t.invoices, j \in DOMAIN u.invoices :
       t.invoices[i].text = u.invoices[j].text => t.invoices[i].id = u.invoices[j].id

ASSUME TokenTxAssumption ==
  /\ Operators \in Seq(Nat) /\ Created \subseteq Nat
  /\ Transactions \subseteq TransactionType
  /\ \A t, u \in Transactions : KeyedByInvoice(t, u)

VARIABLES stage,    \* "idle", "built", "started", "finalized", "done", "failed"
          request,  \* the request being served
          tx,       \* the TokenTransaction
          sent,     \* the partial transaction sent to the operator
          final,    \* the operator's answer
          signed,   \* what the signing flow was asked: [message, metadata, operator]
          hashed    \* what SparkHash returned: [hash, tx, partial]

vars == <<stage, request, tx, sent, final, signed, hashed>>

Err == [ok |-> FALSE]
Ok(v) == [ok |-> TRUE, val |-> v]
None == << >>
Some(v) == <<v>>

DefaultValidity == 300
WithdrawBond == 10000
WithdrawLocktime == 1000
SparkCreator == 99      \* SPARK_CREATION_ENTITY_PUBLIC_KEY
MaxSupplyDefault == 21

Map(s, Op(_)) == [i \in DOMAIN s |-> Op(s[i])]

(* The elements of a sequence in the order of their keys: sort_by(), sort(). *)
Orders(s) == {p \in [DOMAIN s -> DOMAIN s] :
                /\ \A i, j \in DOMAIN s : p[i] = p[j] => i = j
                /\ \A i, j \in DOMAIN s : i <= j => s[p[i]] <= s[p[j]]}
SortedBy(s, keys) == LET p == CHOOSE p \in Orders(keys) : TRUE IN [i \in DOMAIN s |-> s[p[i]]]
Sorted(s) == SortedBy(s, s)

-----------------------------------------------------------------------------
(* Hashing *)

Sha(x) == <<"sha256", x>>

U32(n) == <<"u32", n>>
U64(n) == <<"u64", n>>
KeyBytes(k) == <<"key", k>>

(* The proto hasher: a value is hashed under the identifier of its kind, a *)
(* message as its (number, value) pairs in the order of the numbers (so a  *)
(* set of pairs), and an absent or default field is left out.              *)
HashInt(n) == Sha(<<"i", n>>)
HashBytes(b) == Sha(<<"r", b>>)
HashString(s) == Sha(<<"u", s>>)
HashMessage(fields) == Sha(<<"d", fields>>)
HashTimestamp(ts) == Sha(<<"l", <<HashInt(ts.seconds), HashInt(ts.nanos)>>>>)

IntField(n, v) == IF v = 0 THEN {} ELSE {<<n, HashInt(v)>>}
BytesField(n, b) == {<<n, HashBytes(b)>>}
StringField(n, s) == IF s = "" THEN {} ELSE {<<n, HashString(s)>>}
TextField(n, t) == IF t = 0 THEN {} ELSE {<<n, HashString(t)>>}
BoolField(n, b) == IF b THEN {<<n, Sha(<<"b", 1>>)>>} ELSE {}
MessageField(n, fields) == IF fields = {} THEN {} ELSE {<<n, HashMessage(fields)>>}
ListField(n, hashes) == IF hashes = << >> THEN {} ELSE {<<n, Sha(<<"l", hashes>>)>>}
OptField(o, F(_)) == IF o = None THEN {} ELSE F(o[1])
TimestampField(n, o) == OptField(o, LAMBDA ts : IF ts.seconds = 0 /\ ts.nanos = 0 THEN {}
                                                ELSE {<<n, HashTimestamp(ts)>>})

InputFields(in) ==
  CASE in.kind = "Mint" -> BytesField(1, KeyBytes(in.issuer))
                           \cup OptField(in.token, LAMBDA t : BytesField(2, t))
    [] in.kind = "Transfer" ->
         ListField(1, Map(in.spends, LAMBDA l : HashMessage(BytesField(1, l.hash) \cup IntField(2, l.index))))
    [] in.kind = "Create" ->
         BytesField(1, KeyBytes(in.issuer)) \cup StringField(2, in.name) \cup StringField(3, in.ticker)
         \cup IntField(4, in.decimals) \cup BytesField(5, <<"u128", in.supply>>)
         \cup BoolField(6, in.freezable) \cup OptField(in.creator, LAMBDA k : BytesField(7, KeyBytes(k)))

InvoiceList(n, texts) == ListField(n, Map(texts, LAMBDA t : HashMessage(TextField(1, t))))
OperatorList(n, keys) == ListField(n, Map(keys, LAMBDA k : HashBytes(KeyBytes(k))))

-----------------------------------------------------------------------------
(* lrc20: marshal and unmarshal *)

Timestamp(ms) == [seconds |-> ms \div 1000, nanos |-> (ms % 1000) * 1000000]

\* Bug: the part below a second is lost.
MillisWithoutNanos(ts) == ts.seconds * 1000
Millis(ts) == ts.seconds * 1000 + ts.nanos \div 1000000

MarshalLeaf(leaf, withRevocation) ==
  [id |-> leaf.id, owner |-> leaf.owner,
   revocation |-> IF withRevocation THEN Some(leaf.revocation) ELSE None,
   bond |-> leaf.bond, lock |-> leaf.lock, token |-> Some(leaf.token), amount |-> leaf.amount]

MarshalableInput(in) == in.kind = "Mint" => in.token # None

(* The texts of the attachments, sorted; V2 sends none. *)
MarshalInvoices(t) ==
  IF t.version = 1 THEN << >>
  ELSE Sorted(Map(t.invoices, LAMBDA a : a.text))

Marshal(t, withRevocation) ==
  IF t.network = None \/ t.version = 0 \/ ~MarshalableInput(t.input) THEN Err
  ELSE Ok([version |-> t.version, input |-> Some(t.input),
           outputs |-> Map(t.leaves, LAMBDA l : MarshalLeaf(l, withRevocation)),
           operators |-> Sorted(t.operators),
           expiry |-> IF t.expiry > 0 THEN Some([seconds |-> t.expiry, nanos |-> 0]) ELSE None,
           network |-> t.network[1], created |-> Some(Timestamp(t.created)),
           invoices |-> MarshalInvoices(t), validity |-> Some(DefaultValidity)])

UnmarshalLeaf(o) ==
  [id |-> o.id, owner |-> o.owner, revocation |-> o.revocation[1], bond |-> o.bond, lock |-> o.lock,
   token |-> o.token[1], amount |-> o.amount]

(* The id of an attachment is read from the invoice itself; the bridge's   *)
(* own transactions have none.                                             *)
Unmarshal(p) ==
  IF \/ p.input = None \/ p.version \notin 0 .. 3
     \/ \E i \in DOMAIN p.outputs : p.outputs[i].revocation = None \/ p.outputs[i].token = None
  THEN Err
  ELSE Ok([version |-> p.version, input |-> p.input[1], leaves |-> Map(p.outputs, UnmarshalLeaf),
           operators |-> p.operators, network |-> Some(p.network),
           expiry |-> IF p.expiry = None THEN 0 ELSE p.expiry[1].seconds,
           created |-> IF p.created = None THEN 0 ELSE Millis(p.created[1]),
           invoices |-> Map(p.invoices, LAMBDA x : [id |-> x, text |-> x])])

-----------------------------------------------------------------------------
(* spark_service: the partial and final hashes of the protocol message *)

MetadataFields(p) ==
  OperatorList(2, p.operators) \cup IntField(3, p.network) \cup TimestampField(4, p.created)
  \cup IntField(5, IF p.validity = None THEN DefaultValidity ELSE p.validity[1])
  \cup InvoiceList(6, p.invoices)

InputNumber(kind) == CASE kind = "Mint" -> 3 [] kind = "Transfer" -> 4 [] kind = "Create" -> 5

PartialOutput(o) ==
  BytesField(1, KeyBytes(o.owner)) \cup OptField(o.bond, LAMBDA v : IntField(2, v))
  \cup OptField(o.lock, LAMBDA v : IntField(3, v)) \cup OptField(o.token, LAMBDA t : BytesField(4, t))
  \cup BytesField(5, <<"u128", o.amount>>)

FinalOutput(o) == MessageField(1, PartialOutput(o))
                  \cup OptField(o.revocation, LAMBDA k : BytesField(2, KeyBytes(k)))

HashTransactionWith(p, outputs) ==
  HashMessage(IntField(1, p.version) \cup MessageField(2, MetadataFields(p))
              \cup MessageField(InputNumber(p.input[1].kind), InputFields(p.input[1]))
              \cup ListField(6, outputs))

HashPartial(p) == HashTransactionWith(p, Map(p.outputs, LAMBDA o : HashMessage(PartialOutput(o))))
HashFinal(p) == HashTransactionWith(p, Map(p.outputs, LAMBDA o : HashMessage(FinalOutput(o))))

(* hash_operator_specific_signable_payload *)
OperatorPayload(h, op) == Sha(<<Sha(h), Sha(KeyBytes(op))>>)

-----------------------------------------------------------------------------
(* lrc20: SparkHash *)

HashSpend(l) == Sha(<<l.hash, U32(l.index)>>)

HashLeaf(leaf, partial) ==
  LET owner == KeyBytes(leaf.owner)
      revocation == KeyBytes(leaf.revocation)
      zeros == <<"zeros33", 0>>
      amount == <<"u128", leaf.amount>>
  IN  Sha(IF partial THEN <<owner, zeros, leaf.token, amount>>
          ELSE IF leaf.id \in {None, Some("")}
          THEN <<owner, revocation, U64(leaf.bond[1]), U64(leaf.lock[1]), zeros, leaf.token, amount>>
          ELSE <<<<"str", leaf.id[1]>>, owner, revocation, U64(leaf.bond[1]), U64(leaf.lock[1]),
                 zeros, leaf.token, amount>>)

InputType(in) == CASE in.kind = "Create" -> 1 [] in.kind = "Mint" -> 2 [] in.kind = "Transfer" -> 3

\* Bug: a create transaction is hashed by its issuer instead of refused.
HashableWithCreate(t, partial) ==
  partial \/ \A i \in DOMAIN t.leaves : t.leaves[i].bond # None /\ t.leaves[i].lock # None

(* V1 to V3 refuse a create input, and a final hash needs the bond and the *)
(* locktime of every leaf.                                                 *)
Hashable(t, partial) ==
  /\ t.input.kind # "Create"
  /\ partial \/ \A i \in DOMAIN t.leaves : t.leaves[i].bond # None /\ t.leaves[i].lock # None

(* A list is hashed after its length. *)
Counted(hashes) == <<Sha(U32(Len(hashes)))>> \o hashes

InputHashes(in) ==
  IF in.kind = "Transfer" THEN Counted(Map(in.spends, HashSpend))
  ELSE <<Sha(KeyBytes(in.issuer))>> \o (IF in.kind = "Mint" THEN Map(in.token, Sha) ELSE << >>)

TypeHashes(t) ==
  IF t.version = 0 THEN <<Sha(U32(InputType(t.input)))>>
  ELSE <<Sha(U32(t.version)), Sha(U32(InputType(t.input)))>>

LeafHashes(t, partial) == Map(t.leaves, LAMBDA l : HashLeaf(l, partial))

KeyHashes(t) == Map(Sorted(t.operators), LAMBDA k : Sha(KeyBytes(k)))

NetworkHashes(t) == Map(t.network, LAMBDA n : Sha(U32(n)))

TimeHashes(t, partial) ==
  IF t.version = 0 THEN << >>
  ELSE IF partial THEN <<Sha(U64(t.created))>>
  ELSE <<Sha(U64(t.created)), Sha(U64(t.expiry))>>

Attached(t) == SortedBy(t.invoices, Map(t.invoices, LAMBDA a : a.id))

InvoiceHashes(t) ==
  IF t.version # 2 THEN << >>
  ELSE Counted(Map(Attached(t), LAMBDA a : Sha(<<"str", a.text>>)))

(* V1, V2 and V3: a stream of hashes; V1 has no version and no times, the  *)
(* expiry is left out of the partial hash, V3 adds the attachments.        *)
HashStream(t, partial) ==
  Sha(TypeHashes(t) \o (InputHashes(t.input) \o (Counted(LeafHashes(t, partial)) \o
      (Counted(KeyHashes(t)) \o (NetworkHashes(t) \o (TimeHashes(t, partial) \o InvoiceHashes(t)))))))

(* V4 hashes the protocol message.  For a partial hash the operator's      *)
(* fields are removed: the creator of a create input, or the id,           *)
(* revocation, bond and locktime of the outputs.                           *)
StripOperatorFields(p) ==
  LET in == p.input[1]
  IN  IF in.kind = "Create"
      THEN [p EXCEPT !.expiry = None, !.input = Some([in EXCEPT !.creator = None])]
      ELSE [p EXCEPT !.expiry = None,
                     !.outputs = Map(@, LAMBDA o : [o EXCEPT !.id = None, !.revocation = None,
                                                             !.bond = None, !.lock = None])]

OutputFields(o) ==
  OptField(o.id, LAMBDA x : StringField(1, x)) \cup BytesField(2, KeyBytes(o.owner))
  \cup OptField(o.revocation, LAMBDA k : BytesField(3, KeyBytes(k)))
  \cup OptField(o.bond, LAMBDA v : IntField(4, v)) \cup OptField(o.lock, LAMBDA v : IntField(5, v))
  \cup BytesField(7, <<"u128", o.amount>>) \cup OptField(o.token, LAMBDA t : BytesField(8, t))

HashV4(p) ==
  LET in == p.input[1]
      number == CASE in.kind = "Mint" -> 2 [] in.kind = "Transfer" -> 3 [] in.kind = "Create" -> 8
  IN  HashMessage(IntField(1, p.version) \cup MessageField(number, InputFields(in))
                  \cup ListField(4, Map(p.outputs, LAMBDA o : HashMessage(OutputFields(o))))
                  \cup OperatorList(5, p.operators) \cup TimestampField(6, p.expiry)
                  \cup IntField(7, p.network) \cup TimestampField(9, p.created)
                  \cup InvoiceList(10, p.invoices)
                  \cup OptField(p.validity, LAMBDA v : IntField(11, v)))

HashTokenTransaction(t, partial) ==
  LET p == Marshal(t, ~partial)
  IN  IF t.version = 3
      THEN IF ~p.ok THEN Err
           ELSE Ok(HashV4(IF partial THEN StripOperatorFields(p.val) ELSE p.val))
      ELSE IF Hashable(t, partial) THEN Ok(HashStream(t, partial)) ELSE Err

-----------------------------------------------------------------------------
(* The wrapped token of a rune *)

(* TokenMetadata::compute_token_identifier *)
TokenIdentifierOf(m) ==
  Sha(<<Sha(<<"u8", 1>>), Sha(KeyBytes(m.issuer)), Sha(<<"str", m.name>>), Sha(<<"str", m.ticker>>),
        Sha(<<"u8", m.decimals>>), Sha(<<"u128", m.supply>>), Sha(<<"u8", IF m.freezable THEN 1 ELSE 0>>),
        Sha(<<"magic", m.network>>),
        IF m.creator = None THEN Sha(<<"u8", 1>>) ELSE Sha(<<"layer2", m.creator[1]>>)>>)

OrElse(o, default) == IF o = None THEN default ELSE o[1]

SanitizeName(c) == OrElse(c.name, c.rune)
SanitizeTicker(c) == c.rune

\* Bug: the token is identified as one created on L1.
WrunesMetadataL1(c, network) ==
  [issuer |-> Issuer, name |-> SanitizeName(c), ticker |-> SanitizeTicker(c),
   decimals |-> OrElse(c.divisibility, 0), supply |-> OrElse(c.supply, MaxSupplyDefault),
   freezable |-> FALSE, creator |-> None, network |-> network]

(* create_wrunes_metadata *)
WrunesMetadata(c, network) ==
  [issuer |-> Issuer, name |-> SanitizeName(c), ticker |-> SanitizeTicker(c),
   decimals |-> OrElse(c.divisibility, 0), supply |-> OrElse(c.supply, MaxSupplyDefault),
   freezable |-> FALSE, creator |-> Some(SparkCreator), network |-> network]

TokenOf(r) == TokenIdentifierOf(WrunesMetadata(r.config, r.network))

(* convert_network_to_spark_network, then spark_network_to_proto_network *)
ProtoNetwork(network) == CASE network = "Bitcoin" -> 1
                           [] network \in {"Testnet", "Testnet4", "Regtest"} -> 2
                           [] network = "Signet" -> 4

-----------------------------------------------------------------------------
(* send_spark_transaction, one call *)

Init == /\ stage = "idle" /\ request = None /\ tx = None /\ sent = None /\ final = None
        /\ signed = {} /\ hashed = {}

NewLeaf(owner, token, amount) ==
  [id |-> None, owner |-> owner, revocation |-> owner, token |-> token, amount |-> amount,
   bond |-> Some(WithdrawBond), lock |-> Some(WithdrawLocktime)]

RequestInput(r) ==
  LET m == WrunesMetadata(r.config, r.network)
  IN  CASE r.kind = "Mint" -> [kind |-> "Mint", issuer |-> Issuer, token |-> Some(TokenOf(r))]
        [] r.kind = "Transfer" -> [kind |-> "Transfer", spends |-> r.spends]
        [] r.kind = "Create" ->
             [kind |-> "Create", issuer |-> Issuer, name |-> m.name, ticker |-> m.ticker,
              decimals |-> m.decimals, supply |-> m.supply, freezable |-> FALSE, creator |-> None]

RequestLeaves(r) ==
  CASE r.kind = "Create" -> << >>
    [] r.kind = "Mint" -> <<NewLeaf(r.receiver[1], TokenOf(r), r.amount)>>
    [] r.kind = "Transfer" ->
         <<NewLeaf(r.receiver[1], TokenOf(r), r.amount)>>
         \o (IF r.change > 0 THEN <<NewLeaf(r.sender[1], TokenOf(r), r.change)>> ELSE << >>)

(* An address that does not decode is refused; the sender's is only looked *)
(* at when there is change.                                                *)
AddressesDecode(r) ==
  /\ r.kind # "Create" => r.receiver # None
  /\ (r.kind = "Transfer" /\ r.change > 0) => r.sender # None

NewTransaction(r, now) ==
  [version |-> 3, input |-> RequestInput(r), leaves |-> RequestLeaves(r), operators |-> Operators,
   expiry |-> 0, network |-> Some(ProtoNetwork(r.network)), created |-> now, invoices |-> << >>]

CreatePartial(r, now) ==
  /\ stage = "idle" /\ hashed = {}
  /\ request' = r
  /\ IF AddressesDecode(r)
     THEN stage' = "built" /\ tx' = NewTransaction(r, now)
     ELSE stage' = "failed" /\ UNCHANGED tx
  /\ UNCHANGED <<sent, final, signed, hashed>>

(* Marshal, hash and sign the partial transaction; the metadata given to   *)
(* the signers is marshalled once more (create_signing_metadata).          *)
SignPartial ==
  LET p == Marshal(tx, FALSE)
  IN  /\ stage = "built"
      /\ p.ok
      /\ stage' = "started"
      /\ sent' = p.val
      /\ signed' = {[message |-> HashPartial(p.val), metadata |-> p.val, operator |-> None]}
      /\ UNCHANGED <<request, tx, final, hashed>>

(* The operator's start_transaction: it adds the output ids and revocation *)
(* commitments, the expiry and the creator; or answers without them.       *)
FillOutput(o, complete) ==
  [o EXCEPT !.id = Some("uuid"), !.revocation = IF complete THEN Some(77) ELSE None]

FillInput(in) ==
  IF in.kind = "Create" THEN [in EXCEPT !.creator = Some(SparkCreator)] ELSE in

Answer(p, complete, expiry) ==
  [p EXCEPT !.outputs = Map(p.outputs, LAMBDA o : FillOutput(o, complete)),
            !.expiry = Some(expiry), !.input = Some(FillInput(p.input[1]))]

Finalize(complete, expiry) ==
  /\ stage = "started"
  /\ stage' = "finalized"
  /\ \/ final' = None
     \/ final' = Some(Answer(sent, complete, expiry))
  /\ UNCHANGED <<request, tx, sent, signed, hashed>>

(* Parse the answer, then sign one payload per operator. *)
SignFinal ==
  LET u == Unmarshal(final[1])
      m == Marshal(u.val, TRUE)
      h == HashFinal(final[1])
  IN  /\ stage = "finalized"
      /\ IF final = None \/ (final # None /\ ~u.ok)
         THEN stage' = "failed" /\ UNCHANGED <<tx, signed>>
         ELSE /\ m.ok
              /\ stage' = "done"
              /\ tx' = u.val
              /\ signed' = signed \cup {[message |-> OperatorPayload(h, Operators[i]), metadata |-> m.val,
                                         operator |-> Some(Operators[i])] : i \in DOMAIN Operators}
      /\ UNCHANGED <<request, sent, final, hashed>>

(* A caller of SparkHash::hash_token_transaction. *)
HashTransaction(t, partial) ==
  LET h == HashTokenTransaction(t, partial)
  IN  /\ stage = "idle" /\ Cardinality(hashed) < 2
      /\ h.ok
      /\ hashed' = hashed \cup {[hash |-> h.val, tx |-> t, partial |-> partial]}
      /\ UNCHANGED <<stage, request, tx, sent, final, signed>>

Next ==
  \/ \E r \in Requests, now \in Created : CreatePartial(r, now)
  \/ SignPartial
  \/ \E complete \in BOOLEAN, expiry \in Expiries : Finalize(complete, expiry)
  \/ SignFinal
  \/ \E t \in Transactions, partial \in BOOLEAN : HashTransaction(t, partial)

Spec == Init /\ [][Next]_vars

-----------------------------------------------------------------------------
(* Every message handed to the signing flow is the hash of the transaction *)
(* handed to the signers as its metadata, although the first is computed   *)
(* from the operator's bytes and the second parsed and marshalled again.   *)
SignedAsDescribed ==
  \A s \in signed :
    s.message = IF s.operator = None THEN HashPartial(s.metadata)
                ELSE OperatorPayload(HashFinal(s.metadata), s.operator[1])

(* What the operator makes of a create transaction: the token of its       *)
(* fields, on the network the message names.                               *)
OperatorToken(p) ==
  LET in == p.input[1]
      net == CASE p.network = 1 -> "Bitcoin" [] p.network = 2 -> "Regtest"
               [] p.network = 3 -> "Testnet" [] p.network = 4 -> "Signet"
  IN  TokenIdentifierOf([issuer |-> in.issuer, name |-> in.name, ticker |-> in.ticker,
                         decimals |-> in.decimals, supply |-> in.supply, freezable |-> in.freezable,
                         creator |-> in.creator, network |-> net])

(* Testnet and Testnet4 are sent to the operator as Regtest.               *)
SparkNetworks == {"Bitcoin", "Regtest", "Signet"}

(* On a network the protocol has a number for, the token the operator      *)
(* creates is the one the bridge computed, caches and later mints: the two *)
(* never meet before the mint.                                             *)
IdentifierAgrees ==
  (stage = "done" /\ request.kind = "Create" /\ request.network \in SparkNetworks)
    => OperatorToken(final[1]) = TokenOf(request)

(* What a hash has to bind: everything of the transaction that its version *)
(* and the kind of hash do not leave to the operator.  An absent and an    *)
(* empty id are the same, and in V4 an absent and a zero number.           *)
OperatorsTurn(t, partial) == partial /\ ~(t.version = 3 /\ t.input.kind = "Create")

BoundNumber(t, o) == IF t.version = 3 /\ o = Some(0) THEN None ELSE o

BoundId(o) == IF o = Some("") THEN None ELSE o

BoundLeaf(t, partial, l) ==
  IF OperatorsTurn(t, partial) THEN <<l.owner, l.token, l.amount>>
  ELSE <<l.owner, l.token, l.amount, BoundId(l.id), IF partial THEN 0 ELSE l.revocation,
         BoundNumber(t, l.bond), BoundNumber(t, l.lock)>>

BoundInput(in, partial) ==
  IF partial /\ in.kind = "Create" THEN [in EXCEPT !.creator = None] ELSE in

Bound(t, partial) ==
  [version |-> t.version, input |-> BoundInput(t.input, partial),
   leaves |-> Map(t.leaves, LAMBDA l : BoundLeaf(t, partial, l)),
   operators |-> Sorted(t.operators), network |-> t.network,
   created |-> IF t.version = 0 THEN 0 ELSE t.created,
   expiry |-> IF t.version = 0 \/ partial THEN 0 ELSE t.expiry,
   invoices |-> IF t.version < 2 THEN {} ELSE {t.invoices[i].text : i \in DOMAIN t.invoices}]

(* Two transactions have the same hash only if they agree on everything    *)
(* the hash binds, across all versions and between partial and final; and  *)
(* the order of operators and attachments never matters.                   *)
HashBinds ==
  \A a, b \in hashed :
    /\ a.hash = b.hash => Bound(a.tx, a.partial) = Bound(b.tx, b.partial)
    /\ (a.partial = b.partial /\ Bound(a.tx, a.partial) = Bound(b.tx, b.partial)) => a.hash = b.hash
-----------------------------------------------------------------------------
(* The inductive invariant: what each stage knows of the transaction.      *)

Built == \E now \in Created : tx = NewTransaction(request, now)

Sent == Marshal(tx, FALSE).ok /\ sent = Marshal(tx, FALSE).val

Answered == final = None \/ \E complete \in BOOLEAN, expiry \in Expiries :
                              final = Some(Answer(sent, complete, expiry))

SignInv ==
  /\ stage \in {"built", "started", "finalized"} => Built
  /\ stage \in {"started", "finalized"} => Sent
  /\ stage = "finalized" => Answered
  /\ SignedAsDescribed
  /\ IdentifierAgrees

\* What was hashed, and what the hash is of.
HashedSound ==
  \A x \in hashed : /\ x.tx \in Transactions /\ x.partial \in BOOLEAN
                    /\ HashTokenTransaction(x.tx, x.partial) = Ok(x.hash)

IInv == SignInv /\ HashedSound
=============================================================================
