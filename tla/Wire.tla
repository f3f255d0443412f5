-------------------------------- MODULE Wire --------------------------------
(***************************************************************************)
(* The byte formats the bridge reads and writes itself: the varint and     *)
(* length-prefixed fields of spark-invoice, the invoice inside a Spark     *)
(* address, the address (crates/spark-address), the serialized token       *)
(* metadata (crates/lrc20) and the human readable token identifier         *)
(* (crates/token-identifier).                                              *)
(*                                                                         *)
(* A value is encoded, its bytes travel (as they are, cut short, or with   *)
(* a field a newer sender added) and are decoded.  Bytes are numbers       *)
(* 0..255.  A 64-bit number is the sequence of its ten base-128 digits and *)
(* a 128-bit number the sequence of its sixteen bytes, so both keep their  *)
(* width.  Bech32m (external) keeps the prefix and the bytes of a string;  *)
(* an Option is a sequence of at most one element.                         *)
(***************************************************************************)
EXTENDS Naturals, Sequences, SequencesExt, FiniteSetsExt

CONSTANTS Addresses,   \* SparkAddressData values that are encoded
          Metadata,    \* TokenMetadata values that are encoded
          Identifiers, \* token identifiers (32 bytes)
          Networks,    \* bitcoin networks of the bridge's configuration
          NewFields    \* encoded fields an older decoder does not know

VARIABLES stage,    \* "idle", "sent" or "read"
          value,    \* what was encoded: [kind, data, network]
          wire,     \* the bytes and the prefix on their way
          change,   \* "none", "cut", "added" or "prefix": what happened to them
          outcome   \* what the decoder returned

vars == <<stage, value, wire, change, outcome>>

Err == [ok |-> FALSE]
Ok(v) == [ok |-> TRUE, val |-> v]
None == << >>
Some(v) == <<v>>

KeyLen == 33
IdLen == 32

-----------------------------------------------------------------------------
(* Numbers *)

Digits(n, w) == [i \in 1 .. w |-> IF i > 5 THEN 0 ELSE (n \div 128 ^ (i - 1)) % 128]

TooLong == 128 ^ 3

(* Lengths and tags: anything beyond three digits is longer than any input. *)
Number(d) == IF \E i \in DOMAIN d : i > 3 /\ d[i] # 0
             THEN TooLong ELSE d[1] + 128 * d[2] + 16384 * d[3]

WriteVarint(d) ==
  LET last == Max({1} \cup {i \in DOMAIN d : d[i] # 0})
  IN  [i \in 1 .. last |-> IF i < last THEN d[i] + 128 ELSE d[i]]

(* A varint of at most w bytes at pos; the last digit keeps the bits that  *)
(* fit the 32 or 64-bit result.                                            *)
ReadVarint(buf, pos, w) ==
  LET ends == {k \in 1 .. w : pos + k - 1 <= Len(buf) /\ buf[pos + k - 1] < 128}
      n == Min(ends)
      digit(i) == IF i > n THEN 0 ELSE buf[pos + i - 1] % 128
  IN  IF ends = {} THEN Err
      ELSE [ok |-> TRUE, pos |-> pos + n,
            val |-> [i \in 1 .. w |-> digit(i) % (CASE i = 5 /\ w = 5 -> 16
                                                    [] i = 10 -> 2
                                                    [] OTHER -> 128)]]

LenPrefixed(bytes) == WriteVarint(Digits(Len(bytes), 5)) \o bytes

Ensure(buf, pos, need) == pos + need - 1 <= Len(buf)

\* Bug: the length is not checked against what is left.
ReadLenUnchecked(buf, pos) ==
  LET l == ReadVarint(buf, pos, 5)
  IN  IF l.ok THEN [ok |-> TRUE, pos |-> l.pos,
                    val |-> Min({Number(l.val), Len(buf) + 1 - l.pos})] ELSE Err

ReadLen(buf, pos) ==
  LET checked(l) == IF l.ok /\ Ensure(buf, l.pos, Number(l.val))
                    THEN [ok |-> TRUE, pos |-> l.pos, val |-> Number(l.val)] ELSE Err
  IN  checked(ReadVarint(buf, pos, 5))

\* Bug: every zero byte is dropped, not only the leading ones.
WriteU128Stripped(b) == LenPrefixed(SelectSeq(b, LAMBDA x : x # 0))

(* u128: big-endian without its leading zero bytes, a single 0 for zero. *)
WriteU128(b) ==
  LET nonzero == {i \in DOMAIN b : b[i] # 0}
  IN  LenPrefixed(IF nonzero = {} THEN <<0>> ELSE SubSeq(b, Min(nonzero), Len(b)))

ReadU128(bytes) == [i \in 1 .. 16 - Len(bytes) |-> 0] \o bytes

-----------------------------------------------------------------------------
(* Fields: a tag (field number and wire type), then the payload. *)

\* Bug: fixed-width fields are not skipped.
ReadPayloadNoFixed(wt, buf, pos, w) ==
  LET l == ReadLen(buf, pos)
  IN  CASE wt = 0 -> ReadVarint(buf, pos, w)
        [] wt = 2 -> IF l.ok THEN [ok |-> TRUE, pos |-> l.pos + l.val,
                                   val |-> SubSeq(buf, l.pos, l.pos + l.val - 1)]
                     ELSE Err
        [] OTHER  -> [ok |-> TRUE, pos |-> pos, val |-> << >>]

(* The payload at pos of a field of wire type wt; skip_field advances over *)
(* it the same way.                                                        *)
ReadPayload(wt, buf, pos, w) ==
  LET fixed(n) == IF Ensure(buf, pos, n)
                  THEN [ok |-> TRUE, pos |-> pos + n, val |-> SubSeq(buf, pos, pos + n - 1)]
                  ELSE Err
      sized(l) == IF l.ok THEN [ok |-> TRUE, pos |-> l.pos + l.val,
                                val |-> SubSeq(buf, l.pos, l.pos + l.val - 1)]
                  ELSE Err
  IN  CASE wt = 0 -> ReadVarint(buf, pos, w)
        [] wt = 1 -> fixed(8)
        [] wt = 2 -> sized(ReadLen(buf, pos))
        [] wt = 5 -> fixed(4)
        [] OTHER  -> Err

(* The decoders' loop: fields until the input ends or a tag is 0; narrow   *)
(* are the tags whose varint is read as 32-bit.                            *)
RECURSIVE ReadFields(_, _, _, _)
ReadFields(buf, pos, narrow, acc) ==
  LET more(tag, p) ==
        IF p.ok THEN ReadFields(buf, p.pos, narrow,
                                Append(acc, [field |-> tag \div 8, wt |-> tag % 8, val |-> p.val]))
        ELSE Err
      tagged(tag, at) ==
        IF tag = 0 THEN [ok |-> TRUE, fields |-> acc, used |-> at - 1]
        ELSE more(tag, ReadPayload(tag % 8, buf, at, IF tag \in narrow THEN 5 ELSE 10))
      field(t) == IF t.ok THEN tagged(Number(t.val), t.pos) ELSE Err
  IN  IF pos > Len(buf) THEN [ok |-> TRUE, fields |-> acc, used |-> pos - 1]
      ELSE field(ReadVarint(buf, pos, 5))

(* Unknown fields are skipped; a repeated one replaces the earlier value. *)
Field(fs, n) == LET own == SelectSeq(fs, LAMBDA f : f.field = n)
                IN  IF own = << >> THEN None ELSE Some(Last(own).val)

WireType(fs, n, wt) == \A i \in DOMAIN fs : fs[i].field = n => fs[i].wt = wt

All(fs, n, P(_)) == \A i \in DOMAIN fs : fs[i].field = n => P(fs[i].val)

IsKey(b) == Len(b) = KeyLen /\ b[1] \in {2, 3}

-----------------------------------------------------------------------------
(* Invoices *)

EncodeTimestamp(ts) ==
  (IF \A i \in DOMAIN ts.seconds : ts.seconds[i] = 0 THEN << >> ELSE <<8>> \o WriteVarint(ts.seconds))
  \o (IF ts.nanos = 0 THEN << >> ELSE <<16>> \o WriteVarint(Digits(ts.nanos, 5)))

MaxNanos == 999999999

Nanos(d) == Min({MaxNanos, d[1] + 128 * d[2] + 16384 * d[3] + 2097152 * d[4] + 268435456 * Min({d[5], 7})})

DecodeTimestamp(bytes) ==
  LET time(seconds, nanos) == [seconds |-> IF seconds = None THEN Digits(0, 10) ELSE seconds[1],
                               nanos |-> IF nanos = None THEN 0 ELSE Nanos(nanos[1])]
      read(r) == IF ~r.ok \/ ~WireType(r.fields, 1, 0) \/ ~WireType(r.fields, 2, 0) THEN Err
                 ELSE Ok(time(Field(r.fields, 1), Field(r.fields, 2)))
  IN  read(ReadFields(bytes, 1, {16}, << >>))

EncodePayment(p) ==
  IF p.kind = "sats" THEN <<8>> \o WriteVarint(p.amount)
  ELSE <<10>> \o LenPrefixed(p.token) \o <<18>> \o WriteU128(p.amount)

(* The payments compare the whole tag: another wire type is an unknown field. *)
DecodeSats(bytes) ==
  LET sats(amount) == IF amount = None THEN Err ELSE Ok([kind |-> "sats", amount |-> amount[1]])
      read(r) == IF r.ok THEN sats(Field(SelectSeq(r.fields, LAMBDA f : f.wt = 0), 1)) ELSE Err
  IN  read(ReadFields(bytes, 1, {}, << >>))

DecodeTokens(bytes) ==
  LET tokens(token, amount) ==
        IF token = None \/ amount = None THEN Err
        ELSE Ok([kind |-> "tokens", token |-> token[1], amount |-> ReadU128(amount[1])])
      known(fs) == IF /\ All(fs, 1, LAMBDA b : Len(b) = IdLen)
                      /\ All(fs, 2, LAMBDA b : Len(b) <= 16)
                   THEN tokens(Field(fs, 1), Field(fs, 2)) ELSE Err
      read(r) == IF r.ok THEN known(SelectSeq(r.fields, LAMBDA f : f.wt = 2)) ELSE Err
  IN  read(ReadFields(bytes, 1, {}, << >>))

(* One byte string per field, in the order encode_proto writes them. *)
InvoiceFields(v) ==
  LET opt(o, tag, enc(_)) == IF o = None THEN << >> ELSE << <<tag>> \o LenPrefixed(enc(o[1])) >>
      same(b) == b
  IN  << <<8>> \o WriteVarint(Digits(v.version, 5)), <<18>> \o LenPrefixed(v.id) >>
      \o opt(v.memo, 42, same) \o opt(v.sender, 50, same) \o opt(v.expiry, 58, EncodeTimestamp)
      \o << <<IF v.payment.kind = "sats" THEN 34 ELSE 26>> \o LenPrefixed(EncodePayment(v.payment)) >>

DecodePayment(f) == IF f.field = 3 THEN DecodeTokens(f.val) ELSE DecodeSats(f.val)

(* Every payment and expiry is decoded; the last of each is the invoice's. *)
DecodeInvoice(bytes) ==
  LET each(fs, D(_)) == [i \in DOMAIN fs |-> D(fs[i])]
      last(ds) == IF ds = << >> THEN None ELSE Some(Last(ds).val)
      wellFormed(fs) == /\ WireType(fs, 1, 0)
                        /\ \A n \in 2 .. 7 : WireType(fs, n, 2)
                        /\ All(fs, 2, LAMBDA b : Len(b) = 16)
      complete(v) == v.version # None /\ v.id # None /\ v.payment # None
                     /\ (v.sender # None => IsKey(v.sender[1]))
      invoice(v, used) ==
        IF complete(v)
        THEN [ok |-> TRUE, used |-> used,
              val |-> [v EXCEPT !.version = Number(@[1]), !.id = @[1], !.payment = @[1]]]
        ELSE Err
      parts(fs, payments, expiries, used) ==
        IF wellFormed(fs) /\ \A d \in Range(payments \o expiries) : d.ok
        THEN invoice([version |-> Field(fs, 1), id |-> Field(fs, 2), payment |-> last(payments),
                      memo |-> Field(fs, 5), sender |-> Field(fs, 6), expiry |-> last(expiries)], used)
        ELSE Err
      read(r) ==
        IF r.ok
        THEN parts(r.fields,
                   each(SelectSeq(r.fields, LAMBDA f : f.field \in {3, 4}), DecodePayment),
                   each(SelectSeq(r.fields, LAMBDA f : f.field = 7), LAMBDA f : DecodeTimestamp(f.val)),
                   r.used)
        ELSE Err
  IN  read(ReadFields(bytes, 1, {8}, << >>))

-----------------------------------------------------------------------------
(* Addresses *)

Hrp(network) == CASE network = "Mainnet" -> "sp" [] network = "Testnet" -> "spt"
                  [] network = "Signet" -> "sps" [] network = "Regtest" -> "sprt"
                  [] network = "Local" -> "spl"

FromHrp(hrp) == CASE hrp \in {"sp", "spark"} -> Some("Mainnet") [] hrp = "spt" -> Some("Testnet")
                  [] hrp = "sps" -> Some("Signet") [] hrp = "sprt" -> Some("Regtest")
                  [] hrp = "spl" -> Some("Local") [] OTHER -> None

(* fields are the invoice's fields as they travel. *)
AddressBytes(a, fields) ==
  <<10, Len(a.key)>> \o a.key
  \o (IF a.invoice = None THEN << >> ELSE <<18>> \o LenPrefixed(FlattenSeq(fields)))
  \o (IF a.signature = None THEN << >> ELSE <<26>> \o LenPrefixed(a.signature[1]))

InvoiceOf(a) == IF a.invoice = None THEN << >> ELSE InvoiceFields(a.invoice[1])

(* The optional parts are expected in order; what follows them is ignored. *)
DecodeProto(buf) ==
  LET has(pos, tag) == pos <= Len(buf) /\ buf[pos] = tag
      payload(l) == SubSeq(buf, l.pos, l.pos + l.val - 1)
      address(key, invoice, signature) ==
        Ok([key |-> key, invoice |-> invoice, signature |-> signature])
      signed(key, invoice, l) == IF l.ok THEN address(key, invoice, Some(payload(l))) ELSE Err
      signature(key, invoice, pos) ==
        IF has(pos, 26) THEN signed(key, invoice, ReadLen(buf, pos + 1)) ELSE address(key, invoice, None)
      invoiced(key, inv, at) == IF inv.ok THEN signature(key, Some(inv.val), at + inv.used) ELSE Err
      sized(key, l) == IF l.ok THEN invoiced(key, DecodeInvoice(payload(l)), l.pos) ELSE Err
      keyed(key, pos) ==
        IF has(pos, 18) THEN sized(key, ReadLen(buf, pos + 1)) ELSE signature(key, None, pos)
  IN  IF Len(buf) >= 2 /\ buf[1] = 10 /\ Ensure(buf, 3, buf[2])
      THEN keyed(SubSeq(buf, 3, 2 + buf[2]), 3 + buf[2]) ELSE Err

DecodeAddress(w) ==
  LET address(net, p) ==
        IF net = None \/ ~p.ok \/ (p.ok /\ Len(p.val.key) # KeyLen) THEN Err
        ELSE Ok([key |-> p.val.key, network |-> net[1], invoice |-> p.val.invoice,
                 signature |-> p.val.signature])
  IN  address(FromHrp(w.hrp), DecodeProto(w.bytes))

-----------------------------------------------------------------------------
(* Token metadata and token identifiers *)

MinSize == 61       \* MIN_TOKEN_METADATA_SIZE
NameSizes == 3 .. 20
SymbolSizes == 3 .. 6

Validate(m) == Len(m.name) \in NameSizes /\ Len(m.symbol) \in SymbolSizes

Magic(network) == CASE network = "Bitcoin"  -> <<249, 190, 180, 217>>
                    [] network = "Testnet"  -> <<11, 17, 9, 7>>
                    [] network = "Testnet4" -> <<28, 22, 63, 40>>
                    [] network = "Signet"   -> <<10, 3, 207, 64>>
                    [] network = "Regtest"  -> <<250, 191, 181, 218>>

(* max_supply is sixteen little-endian bytes here. *)
MetadataBytes(m) ==
  m.issuer \o <<Len(m.name) % 256>> \o m.name \o <<Len(m.symbol) % 256>> \o m.symbol
  \o <<m.decimal>> \o Reverse(m.supply) \o <<IF m.freezable THEN 1 ELSE 0>>
  \o (IF m.creator = None THEN <<0>> ELSE <<1>> \o m.creator[1])
  \o Magic(m.network)

DecodeMetadata(data) ==
  LET nameAt == KeyLen + 2
      nameLen == data[nameAt - 1]
      symAt == nameAt + nameLen + 1
      symLen == data[symAt - 1]
      decAt == symAt + symLen
      flagAt == decAt + 18
      hasCreator == data[flagAt] # 0
      magicAt == flagAt + 1 + (IF hasCreator THEN KeyLen ELSE 0)
      creator == SubSeq(data, flagAt + 1, magicAt - 1)
      nets == {n \in Networks : Magic(n) = SubSeq(data, magicAt, magicAt + 3)}
  IN  IF \/ Len(data) < MinSize
         \/ ~IsKey(SubSeq(data, 1, KeyLen))
         \/ nameLen \notin NameSizes \/ ~Ensure(data, nameAt, nameLen + 1)
         \/ symLen \notin SymbolSizes \/ ~Ensure(data, symAt, symLen)
         \/ ~Ensure(data, decAt, 19)
         \/ (hasCreator /\ (~Ensure(data, flagAt + 1, KeyLen) \/ ~IsKey(creator)))
         \/ ~Ensure(data, magicAt, 4) \/ nets = {}
      THEN Err
      ELSE Ok([issuer |-> SubSeq(data, 1, KeyLen),
               name |-> SubSeq(data, nameAt, symAt - 2),
               symbol |-> SubSeq(data, symAt, decAt - 1),
               decimal |-> data[decAt],
               supply |-> Reverse(SubSeq(data, decAt + 1, decAt + 16)),
               freezable |-> data[decAt + 17] # 0,
               creator |-> IF hasCreator THEN Some(creator) ELSE None,
               network |-> CHOOSE n \in nets : TRUE])

TokenPrefix(network) == CASE network = "Bitcoin" -> "btkn"
                          [] network \in {"Testnet", "Testnet4"} -> "btknt"
                          [] network = "Signet" -> "btkns"
                          [] network = "Regtest" -> "btknrt"

(* decode_bech32m on the prefix and bytes of a string, for a reader that   *)
(* is configured for a network.                                            *)
DecodeIdentifier(w, network) ==
  IF w.hrp # TokenPrefix(network) \/ Len(w.bytes) # IdLen THEN Err ELSE Ok(w.bytes)

-----------------------------------------------------------------------------
Init == /\ stage = "idle" /\ change = "none" /\ outcome = Err
        /\ value = None /\ wire = None

Send(kind, data, network, hrp, bytes) ==
  /\ stage = "idle"
  /\ stage' = "sent"
  /\ value' = [kind |-> kind, data |-> data, network |-> network]
  /\ wire' = [hrp |-> hrp, bytes |-> bytes]
  /\ UNCHANGED <<change, outcome>>

(* encode_spark_address; a key of another length is refused. *)
EncodeAddress(a) ==
  /\ Len(a.key) = KeyLen
  /\ Send("address", a, None, Hrp(a.network), AddressBytes(a, InvoiceOf(a)))

EncodeMetadata(m) == Send("metadata", m, m.network, "", MetadataBytes(m))

EncodeIdentifier(id, network) == Send("identifier", id, network, TokenPrefix(network), id)

(* An encoder that stopped early, or a reader that got only part of it. *)
CutShort(n) ==
  /\ stage = "sent" /\ change = "none"
  /\ n < Len(wire.bytes)
  /\ wire' = [wire EXCEPT !.bytes = SubSeq(@, 1, n)]
  /\ change' = "cut"
  /\ UNCHANGED <<stage, value, outcome>>

(* A newer sender's invoice has one more field, after its i-th. *)
AddField(f, i) ==
  /\ stage = "sent" /\ change = "none"
  /\ value.kind = "address" /\ value.data.invoice # None
  /\ i <= Len(InvoiceOf(value.data))
  /\ wire' = [wire EXCEPT !.bytes = AddressBytes(value.data, InsertAt(InvoiceOf(value.data), i + 1, f))]
  /\ change' = "added"
  /\ UNCHANGED <<stage, value, outcome>>

(* The string was meant for another network. *)
OtherNetwork(network) ==
  /\ stage = "sent" /\ change = "none" /\ value.kind = "identifier"
  /\ value.network # network
  /\ value' = [value EXCEPT !.network = network]
  /\ change' = "prefix"
  /\ UNCHANGED <<stage, wire, outcome>>

Decode ==
  /\ stage = "sent"
  /\ stage' = "read"
  /\ outcome' = CASE value.kind = "address" -> DecodeAddress(wire)
                  [] value.kind = "metadata" -> DecodeMetadata(wire.bytes)
                  [] value.kind = "identifier" -> DecodeIdentifier(wire, value.network)
  /\ UNCHANGED <<value, wire, change>>

Next ==
  \/ \E a \in Addresses : EncodeAddress(a)
  \/ \E m \in Metadata : EncodeMetadata(m)
  \/ \E id \in Identifiers, n \in Networks : EncodeIdentifier(id, n)
  \/ \E n \in 0 .. (IF stage = "sent" THEN Len(wire.bytes) ELSE 0) : CutShort(n)
  \/ \E f \in NewFields, i \in 0 .. 6 : AddField(f, i)
  \/ \E n \in Networks : OtherNetwork(n)
  \/ Decode

Spec == Init /\ [][Next]_vars

-----------------------------------------------------------------------------
(* What was encoded is what is decoded, at every width and at the edges of *)
(* the varints, the optional fields and the name limits; metadata whose    *)
(* name or symbol does not validate is refused, never altered.             *)
RoundTrip ==
  (stage = "read" /\ change = "none")
    => outcome = IF value.kind = "metadata" /\ ~Validate(value.data) THEN Err ELSE Ok(value.data)

(* Bytes that were cut short are refused, or they are the address without  *)
(* its last optional parts: no amount, key or token is ever read from part *)
(* of its bytes.                                                           *)
CutShortIsRefused ==
  (stage = "read" /\ change = "cut" /\ outcome.ok)
    => /\ value.kind = "address"
       /\ outcome.val \in {[value.data EXCEPT !.signature = None],
                           [value.data EXCEPT !.signature = None, !.invoice = None]}

(* "unknown fields - skip for forward-compat": a field of a newer sender   *)
(* anywhere in the invoice changes nothing of what is read; and a token    *)
(* identifier written for another network is refused unless both networks  *)
(* share the prefix.                                                       *)
ForwardCompatible ==
  stage = "read"
    => /\ change = "added" => outcome = Ok(value.data)
       /\ change = "prefix" => (outcome.ok <=> wire.hrp = TokenPrefix(value.network))
=============================================================================
