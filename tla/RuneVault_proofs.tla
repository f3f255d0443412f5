-------------------------- MODULE RuneVault_proofs --------------------------
(***************************************************************************)
(* RuneVault: IInv is an inductive invariant, so exits share a row only    *)
(* after a notification put it back, and exits over confirmed rows deliver *)
(* what they should, for any number of deposits, exits and verifiers.      *)
(***************************************************************************)
EXTENDS RuneVault, TLAPS

USE VaultAssumption

\* The outpoints of deposits and of an exit's outputs are different outpoints.
LEMMA Points ==
  /\ \A d \in Deposits : In(d) \in Outpoints /\ Owner(In(d)) = d
  /\ \A x \in Exits : <<x, 1>> \in Outpoints /\ <<x, 2>> \in Outpoints
  /\ \A x \in Exits : Owner(<<x, 1>>) = None
  /\ \A d \in Deposits, x \in Exits : In(d) # <<x, 1>> /\ In(d) # <<x, 2>>
  /\ \A d, e \in Deposits : In(d) = In(e) => d = e
  /\ \A x, y \in Exits : <<x, 1>> # <<y, 2>>
  /\ \A x, y \in Exits : <<x, 1>> = <<y, 1>> => x = y
  BY DEF Outpoints, Txids, In, Owner

\* Everything holds initially: no row, no output, no flow.
LEMMA InitOK == Init => IInv
<1> SUFFICES ASSUME Init PROVE IInv
  OBVIOUS
<1>1. TypeOK
  BY DEF Init, TypeOK, RowType, FlowType, Selectable
<1>2. LocksHold /\ NotesHold /\ RowsHold /\ InputsHold /\ TakenOnce
  BY Points DEF Init, LocksHold, NotesHold, RowsHold, InputsHold, InputsOf, TakenOnce
<1>3. SumsHold /\ SureExitDelivers
  BY Points DEF Init, SumsHold, SumOf, SureExitDelivers
<1> QED
  BY <1>1, <1>2, <1>3 DEF IInv

\* Sums over rows whose amounts a step keeps.
LEMMA TotalSame ==
  ASSUME NEW S, NEW T, T = S, \A o \in S : row'[o].amt = row[o].amt
  PROVE  SumFunction([o \in T |-> row'[o].amt]) = Total(S)
<1>1. [o \in T |-> row'[o].amt] = [o \in S |-> row[o].amt]
  OBVIOUS
<1> QED
  BY <1>1 DEF Total

(***************************************************************************)
(* What most steps have in common.                                         *)
(***************************************************************************)

\* What is mined stays mined with what it brought; handled notifications stay
\* handled.
FactsKept ==
  /\ \A d \in Deposits : chain[In(d)] # "none" =>
       chain'[In(d)] # "none" /\ runes'[In(d)] = runes[In(d)]
  /\ \A d \in Deposits, v \in Verifiers : note[d][v] = "done" => note'[d][v] = "done"

\* A flow's selection does not change, and the flow does not go back.
SelectionKept(x) ==
  /\ flow'[x].inputs = flow[x].inputs /\ flow'[x].total = flow[x].total
  /\ flow'[x].valid = flow[x].valid /\ flow'[x].sure = flow[x].sure
  /\ flow'[x].pc \in {"idle", "scan", "short"} => flow[x].pc \in {"idle", "scan", "short"}
  /\ flow'[x].pc \in {"sign", "broadcast", "change"}
       => flow[x].pc \in {"sign", "broadcast", "change"}
  /\ flow[x].pc = "done" => flow'[x].pc = "done"
SelectionsKept == \A x \in Exits : SelectionKept(x)

\* A row keeps its address and amount, and leaves Spent only when put back.
RowKept(o) ==
  row[o].st # "none" =>
    /\ row'[o].st # "none"
    /\ row'[o].addr = row[o].addr /\ row'[o].amt = row[o].amt
    /\ row[o].st = "Spent" => row'[o].st = "Spent" \/ PutBack(o)'

\* A notification's confirmation is for good.
LEMMA PutBackStays ==
  ASSUME FactsKept, NotesHold, NEW o, PutBack(o)
  PROVE  PutBack(o)'
<1>1. PICK d \in Deposits : o = In(d) /\ Accepted(d) /\ \E v \in Verifiers : note[d][v] = "done"
  BY DEF PutBack
<1>2. chain[In(d)] # "none"
  BY <1>1 DEF NotesHold
<1>3. Accepted(d)' /\ \E v \in Verifiers : note'[d][v] = "done"
  BY <1>1, <1>2 DEF FactsKept, Accepted
<1> QED
  BY <1>1, <1>3 DEF PutBack

\* Rows stay what they are, given that the Changed ones are.
LEMMA RowsKept ==
  ASSUME RowsHold, FactsKept,
         \A x \in Exits : flow[x].pc = "done" => flow'[x].pc = "done",
         NEW Changed \in SUBSET Outpoints,
         \A o \in Outpoints \ Changed :
           /\ row'[o].addr = row[o].addr /\ row'[o].amt = row[o].amt
           /\ row'[o].st # "none" => row[o].st # "none"
           /\ row'[o].st = "Confirmed" => row[o].st = "Confirmed",
         \A o \in Changed : RowOf(o)'
  PROVE  RowsHold'
<1> SUFFICES ASSUME NEW o \in Outpoints \ Changed, row'[o].st # "none"
             PROVE  RowOf(o)'
  BY DEF RowsHold
<1>1. RowOf(o)
  BY DEF RowsHold
<1>2. ASSUME NEW d \in Deposits, o = In(d), row[o].addr = d, row[o].amt = Claimed[d],
             row[o].st = "Confirmed" => Accepted(d) /\ chain[o] # "none"
                                        /\ \E v \in Verifiers : note[d][v] = "done"
      PROVE  RowOf(o)'
  <2>1. row'[o].st = "Confirmed" => Accepted(d)' /\ chain'[o] # "none"
                                    /\ \E v \in Verifiers : note'[d][v] = "done"
    BY <1>2 DEF Accepted, FactsKept
  <2> QED
    BY <1>2, <2>1 DEF RowOf
<1>3. ASSUME NEW x \in Exits, o = <<x, 1>>, row[o].addr = x, flow[x].pc = "done"
      PROVE  RowOf(o)'
  BY <1>3 DEF RowOf
<1> QED
  BY <1>1, <1>2, <1>3 DEF RowOf

\* Rows a flow took stay taken.
LEMMA InputKept ==
  ASSUME TypeOK, NotesHold, FactsKept, \A o \in Outpoints : RowKept(o),
         NEW x \in Exits, InputsOf(x), SelectionKept(x)
  PROVE  InputsOf(x)'
<1>1. flow'[x].pc \in {"idle", "scan", "short"} => flow'[x].inputs = {}
  BY DEF SelectionKept, InputsOf
<1>2. ASSUME NEW o \in flow'[x].inputs
      PROVE  row'[o].st # "none" /\ (row'[o].st = "Spent" \/ PutBack(o)')
  <2>1. o \in flow[x].inputs /\ o \in Outpoints
    BY DEF SelectionKept, TypeOK, FlowType
  <2>2. row[o].st # "none" /\ (row[o].st = "Spent" \/ PutBack(o))
    BY <2>1 DEF InputsOf
  <2>3. PutBack(o) => PutBack(o)'
    BY PutBackStays
  <2> QED
    BY <2>1, <2>2, <2>3 DEF RowKept
<1> QED
  BY <1>1, <1>2 DEF InputsOf

\* So rows taken by any flow do, and no two flows come to share one.
LEMMA InputsKept ==
  ASSUME TypeOK, InputsHold, TakenOnce, NotesHold, FactsKept, SelectionsKept,
         \A o \in Outpoints : RowKept(o)
  PROVE  InputsHold' /\ TakenOnce'
<1>1. InputsHold'
  <2> SUFFICES ASSUME NEW x \in Exits PROVE InputsOf(x)'
    BY DEF InputsHold
  <2> QED
    BY InputKept DEF InputsHold, SelectionsKept
<1>2. TakenOnce'
  <2> SUFFICES ASSUME NEW x \in Exits, NEW y \in Exits, x # y,
                      NEW o \in flow'[x].inputs \cap flow'[y].inputs
               PROVE  PutBack(o)'
    BY DEF TakenOnce
  <2>1. PutBack(o)
    BY DEF SelectionsKept, SelectionKept, TakenOnce
  <2> QED
    BY <2>1, PutBackStays
<1> QED
  BY <1>1, <1>2

\* What a flow knows of its inputs stays true.
LEMMA SumKept ==
  ASSUME TypeOK, FactsKept, \A o \in Outpoints : RowKept(o),
         NEW x \in Exits, InputsOf(x), SumOf(x), SelectionKept(x),
         chain'[<<x, 1>>] # "none" =>
           flow'[x].pc \in {"change", "done", "failed"} /\ flow'[x].valid
  PROVE  SumOf(x)'
<1>1. \A o \in flow[x].inputs : row'[o].amt = row[o].amt /\ row'[o].addr = row[o].addr
  BY DEF RowKept, InputsOf, TypeOK, FlowType
<1>2. SumFunction([o \in flow'[x].inputs |-> row'[o].amt]) = Total(flow[x].inputs)
  BY <1>1, TotalSame DEF SelectionKept
<1>3. flow'[x].inputs = flow[x].inputs /\ flow'[x].total = flow[x].total
      /\ flow'[x].valid = flow[x].valid
  BY DEF SelectionKept
<1>4. flow'[x].inputs # {} =>
        /\ flow'[x].total = SumFunction([o \in flow'[x].inputs |-> row'[o].amt])
        /\ flow'[x].total >= Target[x]
  <2>1. flow[x].inputs # {} => flow[x].total = Total(flow[x].inputs) /\ flow[x].total >= Target[x]
    BY Zenon DEF SumOf
  <2> QED
    BY <1>2, <1>3, <2>1
<1>5. flow'[x].pc \in {"sign", "broadcast", "change"} => flow'[x].inputs # {}
  BY DEF SumOf, SelectionKept
<1>6. flow'[x].valid => \A o \in flow'[x].inputs : row'[o].addr = Owner(o)
  <2>1. flow[x].valid => \A o \in flow[x].inputs : row[o].addr = Owner(o)
    BY Zenon DEF SumOf
  <2> QED
    BY <1>1, <1>3, <2>1
<1>7. ASSUME flow'[x].sure, flow'[x].valid, NEW o \in flow'[x].inputs
      PROVE  \E d \in Deposits : o = In(d) /\ Accepted(d)' /\ chain'[o] # "none"
  <2>1. PICK d \in Deposits : o = In(d) /\ Accepted(d) /\ chain[o] # "none"
    BY <1>7 DEF SumOf, SelectionKept
  <2> QED
    BY <2>1 DEF FactsKept, Accepted
<1> QED
  BY <1>4, <1>5, <1>6, <1>7 DEF SumOf, Total, Owner

\* What all flows know of their inputs stays true.
LEMMA SumsKept ==
  ASSUME TypeOK, InputsHold, SumsHold, FactsKept, SelectionsKept,
         \A o \in Outpoints : RowKept(o),
         \A x \in Exits : chain'[<<x, 1>>] # "none" =>
           flow'[x].pc \in {"change", "done", "failed"} /\ flow'[x].valid
  PROVE  SumsHold'
<1> SUFFICES ASSUME NEW x \in Exits PROVE SumOf(x)'
  BY DEF SumsHold
<1> QED
  BY SumKept DEF SumsHold, InputsHold, SelectionsKept

\* What an exit delivered stays delivered.
LEMMA DeliveryKept ==
  ASSUME SureExitDelivers, SelectionsKept,
         \A x \in Exits :
           chain'[<<x, 1>>] # "none" =>
             /\ chain[<<x, 1>>] # "none"
             /\ runes'[<<x, 1>>] = runes[<<x, 1>>] /\ runes'[<<x, 2>>] = runes[<<x, 2>>]
  PROVE  SureExitDelivers'
  BY DEF SureExitDelivers, SelectionsKept, SelectionKept, Change

(***************************************************************************)
(* Each action preserves the invariant.                                    *)
(***************************************************************************)

\* A deposit is mined: only an outpoint nobody has looked at changes.
LEMMA MineDepositOK ==
  ASSUME IInv, NEW d \in Deposits, NEW n \in Sent, MineDeposit(d, n)
  PROVE  IInv'
<1> USE Points DEF IInv
<1>1. TypeOK'
  BY DEF MineDeposit, TypeOK
<1>2. FactsKept /\ SelectionsKept
  BY DEF MineDeposit, FactsKept, SelectionsKept, SelectionKept, TypeOK
<1>3. \A o \in Outpoints : RowKept(o)
  BY DEF MineDeposit, RowKept
<1>4. LocksHold' /\ NotesHold'
  BY DEF MineDeposit, LocksHold, NotesHold, Accepted, TypeOK
<1>5. RowsHold'
  <2>1. {} \in SUBSET Outpoints
    OBVIOUS
  <2> QED
    BY <1>2, <2>1, RowsKept DEF MineDeposit
<1>6. InputsHold' /\ TakenOnce'
  BY <1>2, <1>3, InputsKept
<1>7. \A x \in Exits :
        /\ chain'[<<x, 1>>] = chain[<<x, 1>>]
        /\ runes'[<<x, 1>>] = runes[<<x, 1>>] /\ runes'[<<x, 2>>] = runes[<<x, 2>>]
  BY DEF MineDeposit, TypeOK
<1>8. \A x \in Exits : chain'[<<x, 1>>] # "none" =>
        flow'[x].pc \in {"change", "done", "failed"} /\ flow'[x].valid
  BY <1>7 DEF MineDeposit, SumsHold, SumOf
<1>9. SumsHold' /\ SureExitDelivers'
  BY <1>2, <1>3, <1>7, <1>8, SumsKept, DeliveryKept
<1> QED
  BY <1>1, <1>4, <1>5, <1>6, <1>9

\* A deposit's row is inserted where there was none.
LEMMA InsertDepositOK ==
  ASSUME IInv, NEW d \in Deposits, InsertDeposit(d)
  PROVE  IInv'
<1> USE Points DEF IInv
<1>1. TypeOK'
  BY DEF InsertDeposit, TypeOK, RowType, Selectable, Txids
<1>2. FactsKept /\ SelectionsKept
  BY DEF InsertDeposit, FactsKept, SelectionsKept, SelectionKept
<1>3. \A o \in Outpoints : RowKept(o)
  BY DEF InsertDeposit, RowKept, TypeOK
<1>4. LocksHold' /\ NotesHold'
  BY DEF InsertDeposit, LocksHold, NotesHold, Accepted, TypeOK, Selectable
<1>5. RowsHold'
  <2>1. {In(d)} \in SUBSET Outpoints
    OBVIOUS
  <2>2. RowOf(In(d))'
    BY DEF InsertDeposit, RowOf, TypeOK
  <2>3. \A o \in Outpoints \ {In(d)} : row'[o] = row[o]
    BY DEF InsertDeposit, TypeOK
  <2>4. \A o \in {In(d)} : RowOf(o)'
    BY <2>2
  <2>5. flow' = flow
    BY DEF InsertDeposit
  <2> QED
    BY <1>2, <2>1, <2>3, <2>4, <2>5, RowsKept
<1>6. InputsHold' /\ TakenOnce'
  BY <1>2, <1>3, InputsKept
<1>7. \A x \in Exits : chain'[<<x, 1>>] # "none" =>
        flow'[x].pc \in {"change", "done", "failed"} /\ flow'[x].valid
  BY DEF InsertDeposit, SumsHold, SumOf
<1>8. SumsHold' /\ SureExitDelivers'
  BY <1>2, <1>3, <1>7, SumsKept, DeliveryKept DEF InsertDeposit
<1> QED
  BY <1>1, <1>4, <1>5, <1>6, <1>8

\* A notification fills in the sats amount of a row nobody holds.
LEMMA NotifyDepositOK ==
  ASSUME IInv, NEW d \in Deposits, NEW v \in Verifiers, NotifyDeposit(d, v)
  PROVE  IInv'
<1> USE Points DEF IInv
<1>0. /\ \A o \in Outpoints : /\ row'[o].st = row[o].st
                               /\ row'[o].amt = row[o].amt /\ row'[o].addr = row[o].addr
      /\ \A e \in Deposits, w \in Verifiers :
           note'[e][w] = IF e = d /\ w = v THEN "noted" ELSE note[e][w]
  BY DEF NotifyDeposit, TypeOK, RowType
<1>1. TypeOK'
  <2>0. row[In(d)] \in RowType
    BY DEF TypeOK
  <2>1. [row[In(d)] EXCEPT !.sats = TRUE] \in RowType
    BY <2>0 DEF RowType
  <2>2. row' \in [Outpoints -> RowType]
    BY <2>1 DEF NotifyDeposit, TypeOK
  <2> QED
    BY <2>2 DEF NotifyDeposit, TypeOK
<1>2. FactsKept /\ SelectionsKept
  BY <1>0 DEF NotifyDeposit, FactsKept, SelectionsKept, SelectionKept
<1>3. \A o \in Outpoints : RowKept(o)
  BY <1>0 DEF RowKept
<1>4. LocksHold' /\ NotesHold'
  BY <1>0 DEF NotifyDeposit, LocksHold, NotesHold, Accepted, TypeOK, FlowType
<1>5. RowsHold'
  <2>1. {} \in SUBSET Outpoints
    OBVIOUS
  <2> QED
    BY <1>0, <1>2, <2>1, RowsKept DEF NotifyDeposit
<1>6. InputsHold' /\ TakenOnce'
  BY <1>2, <1>3, InputsKept
<1>7. \A x \in Exits : chain'[<<x, 1>>] # "none" =>
        flow'[x].pc \in {"change", "done", "failed"} /\ flow'[x].valid
  BY DEF NotifyDeposit, SumsHold, SumOf
<1>8. SumsHold' /\ SureExitDelivers'
  BY <1>2, <1>3, <1>7, SumsKept, DeliveryKept DEF NotifyDeposit
<1> QED
  BY <1>1, <1>4, <1>5, <1>6, <1>8

\* A task decides whether the deposit is confirmed.
LEMMA CheckDepositOK ==
  ASSUME IInv, NEW d \in Deposits, NEW v \in Verifiers, CheckDeposit(d, v)
  PROVE  IInv'
<1> USE Points DEF IInv
<1>1. TypeOK'
  BY DEF CheckDeposit, TypeOK
<1>2. FactsKept /\ SelectionsKept
  BY DEF CheckDeposit, FactsKept, SelectionsKept, SelectionKept, TypeOK
<1>3. \A o \in Outpoints : RowKept(o)
  BY DEF CheckDeposit, RowKept
<1>4. LocksHold' /\ NotesHold'
  BY DEF CheckDeposit, LocksHold, NotesHold, Accepted, TypeOK
<1>5. RowsHold'
  <2>1. {} \in SUBSET Outpoints
    OBVIOUS
  <2> QED
    BY <1>2, <2>1, RowsKept DEF CheckDeposit
<1>6. InputsHold' /\ TakenOnce'
  BY <1>2, <1>3, InputsKept
<1>7. \A x \in Exits : chain'[<<x, 1>>] # "none" =>
        flow'[x].pc \in {"change", "done", "failed"} /\ flow'[x].valid
  BY DEF CheckDeposit, SumsHold, SumOf
<1>8. SumsHold' /\ SureExitDelivers'
  BY <1>2, <1>3, <1>7, SumsKept, DeliveryKept DEF CheckDeposit
<1> QED
  BY <1>1, <1>4, <1>5, <1>6, <1>8

\* A task confirms the deposit's row, perhaps putting back a spent one.
LEMMA ConfirmDepositOK ==
  ASSUME IInv, NEW d \in Deposits, NEW v \in Verifiers, ConfirmDeposit(d, v)
  PROVE  IInv'
<1> USE Points DEF IInv
<1>0. /\ \A o \in Outpoints :
           /\ row'[o].st = IF o = In(d) THEN "Confirmed" ELSE row[o].st
           /\ row'[o].amt = row[o].amt /\ row'[o].addr = row[o].addr
      /\ \A e \in Deposits, w \in Verifiers :
           note'[e][w] = IF e = d /\ w = v THEN "done" ELSE note[e][w]
      /\ Accepted(d) /\ chain[In(d)] # "none" /\ row[In(d)].st # "none"
  BY DEF ConfirmDeposit, TypeOK, RowType, NotesHold
<1>1. TypeOK'
  <2>0. row[In(d)] \in RowType
    BY DEF TypeOK
  <2>1. [row[In(d)] EXCEPT !.st = "Confirmed"] \in RowType
    BY <2>0 DEF RowType, Selectable
  <2>2. row' \in [Outpoints -> RowType]
    BY <2>1 DEF ConfirmDeposit, TypeOK
  <2> QED
    BY <2>2 DEF ConfirmDeposit, TypeOK
<1>2. FactsKept /\ SelectionsKept
  BY <1>0 DEF ConfirmDeposit, FactsKept, SelectionsKept, SelectionKept
<1>3. \A o \in Outpoints : RowKept(o)
  <2>1. PutBack(In(d))'
    BY <1>0 DEF ConfirmDeposit, PutBack, Accepted
  <2> QED
    BY <1>0, <2>1 DEF RowKept
<1>4. LocksHold' /\ NotesHold'
  BY <1>0 DEF ConfirmDeposit, LocksHold, NotesHold, Accepted, Selectable, TypeOK, FlowType
<1>5. RowsHold'
  <2>1. {In(d)} \in SUBSET Outpoints
    OBVIOUS
  <2>2. RowOf(In(d))
    BY <1>0 DEF RowsHold
  <2>3. row[In(d)].addr = d /\ row[In(d)].amt = Claimed[d]
    BY <2>2 DEF RowOf
  <2>4. Accepted(d)' /\ chain'[In(d)] # "none" /\ note'[d][v] = "done"
    BY <1>0 DEF ConfirmDeposit, Accepted
  <2>5. RowOf(In(d))'
    BY <1>0, <2>3, <2>4 DEF RowOf
  <2>6. \A o \in {In(d)} : RowOf(o)'
    BY <2>5
  <2>7. flow' = flow
    BY DEF ConfirmDeposit
  <2>8. \A o \in Outpoints \ {In(d)} :
           /\ row'[o].st = row[o].st
           /\ row'[o].amt = row[o].amt /\ row'[o].addr = row[o].addr
    BY <1>0
  <2> QED
    BY <1>2, <2>1, <2>6, <2>7, <2>8, RowsKept
<1>6. InputsHold' /\ TakenOnce'
  BY <1>2, <1>3, InputsKept
<1>7. \A x \in Exits : chain'[<<x, 1>>] # "none" =>
        flow'[x].pc \in {"change", "done", "failed"} /\ flow'[x].valid
  BY DEF ConfirmDeposit, SumsHold, SumOf
<1>8. SumsHold' /\ SureExitDelivers'
  BY <1>2, <1>3, <1>7, SumsKept, DeliveryKept DEF ConfirmDeposit
<1> QED
  BY <1>1, <1>4, <1>5, <1>6, <1>8

\* Steps of a flow that touch neither the table nor the chain.
LEMMA FlowMoves ==
  ASSUME IInv, UNCHANGED <<row, note, chain, runes>>, TypeOK', LocksHold', SelectionsKept,
         \A x \in Exits : flow[x].pc \in {"change", "done", "failed"} =>
           flow'[x].pc \in {"change", "done", "failed"}
  PROVE  IInv'
<1> USE DEF IInv
<1>1. FactsKept /\ NotesHold'
  BY DEF FactsKept, NotesHold, Accepted
<1>2. \A o \in Outpoints : RowKept(o)
  BY DEF RowKept
<1>3. RowsHold'
  <2>1. {} \in SUBSET Outpoints
    OBVIOUS
  <2>2. \A x \in Exits : flow[x].pc = "done" => flow'[x].pc = "done"
    BY DEF SelectionsKept, SelectionKept
  <2> QED
    BY <1>1, <2>1, <2>2, RowsKept
<1>4. InputsHold' /\ TakenOnce'
  BY <1>1, <1>2, InputsKept
<1>5. \A x \in Exits : chain'[<<x, 1>>] # "none" =>
        flow'[x].pc \in {"change", "done", "failed"} /\ flow'[x].valid
  BY Zenon DEF SumsHold, SumOf, SelectionsKept, SelectionKept
<1>6. SumsHold' /\ SureExitDelivers'
  BY <1>1, <1>2, <1>5, SumsKept, DeliveryKept
<1> QED
  BY <1>1, <1>3, <1>4, <1>6

\* The selection takes its snapshot.
LEMMA BeginSelectOK ==
  ASSUME IInv, NEW x \in Exits, BeginSelect(x)
  PROVE  IInv'
<1> USE DEF IInv
<1>0. flow[x] \in FlowType
  BY DEF TypeOK
<1>1. TypeOK'
  <2>1. flow'[x] \in FlowType
    BY <1>0 DEF BeginSelect, FlowType, TypeOK
  <2> QED
    BY <2>1 DEF BeginSelect, TypeOK
<1>2. SelectionsKept
  BY <1>0 DEF BeginSelect, SelectionsKept, SelectionKept, TypeOK, FlowType
<1>3. LocksHold'
  BY <1>0 DEF BeginSelect, LocksHold, TypeOK, FlowType
<1> QED
  BY <1>1, <1>2, <1>3, FlowMoves DEF BeginSelect, TypeOK

\* A row is locked if it is free and still selectable, or skipped.
LEMMA VisitRowOK ==
  ASSUME IInv, NEW x \in Exits, VisitRow(x)
  PROVE  IInv'
<1> USE DEF IInv
<1>0. flow[x] \in FlowType /\ flow[x].scan \subseteq Outpoints /\ flow[x].locks \subseteq Outpoints
  BY DEF TypeOK, FlowType
<1>1. PICK o \in flow[x].scan :
        flow' = [flow EXCEPT ![x].scan = @ \ {o},
                   ![x].locks = IF Unlocked(o) /\ row[o].st \in Selectable
                                  THEN @ \cup {o} ELSE @]
  BY DEF VisitRow
<1> DEFINE new == IF Unlocked(o) /\ row[o].st \in Selectable
                    THEN flow[x].locks \cup {o} ELSE flow[x].locks
<1>2. /\ \A y \in Exits \ {x} : flow'[y] = flow[y]
      /\ flow'[x] = [flow[x] EXCEPT !.scan = flow[x].scan \ {o}, !.locks = new]
  BY <1>0, <1>1 DEF TypeOK
<1>3. new \subseteq Outpoints
  BY <1>0
<1>4. /\ flow'[x].locks = new /\ flow'[x].pc = flow[x].pc
      /\ flow'[x].inputs = flow[x].inputs /\ flow'[x].total = flow[x].total
      /\ flow'[x].valid = flow[x].valid /\ flow'[x].sure = flow[x].sure
      /\ flow'[x] \in FlowType
  <2> HIDE DEF new
  <2> QED
    BY <1>0, <1>2, <1>3 DEF FlowType
<1>5. TypeOK'
  BY <1>1, <1>4 DEF VisitRow, TypeOK
<1>6. SelectionsKept
  <2> HIDE DEF new
  <2> QED
    BY <1>2, <1>4 DEF SelectionsKept, SelectionKept
<1>7. LocksHold'
  <2>1. \A y \in Exits : flow'[y].pc # "scan" => flow'[y].locks = {}
    BY <1>2, <1>4 DEF LocksHold, VisitRow
  <2>2. \A y \in Exits : \A p \in flow'[y].locks : row'[p].st \in Selectable
    <3>1. \A y \in Exits : \A p \in flow[y].locks : row[p].st \in Selectable
      BY DEF LocksHold
    <3>2. \A p \in new : row[p].st \in Selectable
      BY <3>1
    <3>3. row' = row
      BY DEF VisitRow
    <3> HIDE DEF new
    <3> QED
      BY <1>2, <1>4, <3>1, <3>2, <3>3
  <2>3. \A y \in Exits \ {x} : new \cap flow[y].locks = {}
    BY DEF LocksHold, Unlocked
  <2>4. \A y, z \in Exits : y # z => flow'[y].locks \cap flow'[z].locks = {}
    <3>1. \A y, z \in Exits : y # z => flow[y].locks \cap flow[z].locks = {}
      BY DEF LocksHold
    <3>2. flow'[x].locks = new /\ \A y \in Exits \ {x} : flow'[y].locks = flow[y].locks
      BY <1>2, <1>4
    <3> HIDE DEF new
    <3> QED
      BY <2>3, <3>1, <3>2
  <2> QED
    BY <2>1, <2>2, <2>4 DEF LocksHold
<1>8. \A y \in Exits : flow[y].pc \in {"change", "done", "failed"} =>
        flow'[y].pc \in {"change", "done", "failed"}
  BY <1>2, <1>4
<1> QED
  BY <1>5, <1>6, <1>7, <1>8, FlowMoves DEF VisitRow

\* Too little was found: the transaction is rolled back.
LEMMA RollbackSelectionOK ==
  ASSUME IInv, NEW x \in Exits, RollbackSelection(x)
  PROVE  IInv'
<1> USE DEF IInv
<1>0. flow[x] \in FlowType
  BY DEF TypeOK
<1>1. TypeOK'
  <2>1. flow'[x] \in FlowType
    BY <1>0 DEF RollbackSelection, FlowType, TypeOK
  <2> QED
    BY <2>1 DEF RollbackSelection, TypeOK
<1>2. SelectionsKept
  BY <1>0 DEF RollbackSelection, SelectionsKept, SelectionKept, TypeOK, FlowType
<1>3. LocksHold'
  BY <1>0 DEF RollbackSelection, LocksHold, TypeOK, FlowType
<1> QED
  BY <1>1, <1>2, <1>3, FlowMoves DEF RollbackSelection, TypeOK

\* The transaction is built and signed.
LEMMA SignInputsOK ==
  ASSUME IInv, NEW x \in Exits, SignInputs(x)
  PROVE  IInv'
<1> USE DEF IInv, Goto
<1>0. flow[x] \in FlowType
  BY DEF TypeOK
<1>1. TypeOK'
  <2>1. flow'[x] \in FlowType
    BY <1>0 DEF SignInputs, FlowType, TypeOK
  <2> QED
    BY <2>1 DEF SignInputs, TypeOK
<1>2. SelectionsKept
  BY <1>0 DEF SignInputs, SelectionsKept, SelectionKept, TypeOK, FlowType
<1>3. LocksHold'
  BY <1>0 DEF SignInputs, LocksHold, TypeOK, FlowType
<1> QED
  BY <1>1, <1>2, <1>3, FlowMoves DEF SignInputs, TypeOK

\* A flow ends with an error.
LEMMA FlowErrOK ==
  ASSUME IInv, NEW x \in Exits, FlowErr(x)
  PROVE  IInv'
<1> USE DEF IInv, Fault
<1>0. flow[x] \in FlowType
  BY DEF TypeOK
<1>1. TypeOK'
  <2>1. flow'[x] \in FlowType
    BY <1>0 DEF FlowErr, FlowType, TypeOK
  <2>2. faults' \in 0..MaxFaults
    BY DEF FlowErr, TypeOK
  <2> QED
    BY <2>1, <2>2 DEF FlowErr, TypeOK
<1>2. SelectionsKept
  BY <1>0 DEF FlowErr, SelectionsKept, SelectionKept, TypeOK, FlowType
<1>3. LocksHold'
  BY <1>0 DEF FlowErr, LocksHold, TypeOK, FlowType
<1> QED
  BY <1>1, <1>2, <1>3, FlowMoves DEF FlowErr, TypeOK

\* The selection commits: its rows were locked, hence free, and are now spent.
LEMMA CommitSelectionOK ==
  ASSUME IInv, NEW x \in Exits, CommitSelection(x)
  PROVE  IInv'
<1> USE Points DEF IInv
<1>1. PICK S \in SUBSET flow[x].locks :
       /\ Greedy(S, flow[x].locks, Target[x])
       /\ Total(S) \in 0..MaxU64
       /\ row' = [o \in Outpoints |-> IF o \in S THEN [row[o] EXCEPT !.st = "Spent"] ELSE row[o]]
       /\ flow' = [flow EXCEPT ![x] =
            [pc |-> "sign", scan |-> {}, locks |-> {}, inputs |-> S, total |-> Total(S),
             valid |-> \A o \in S : row[o].sats /\ row[o].addr = Owner(o),
             sure |-> \A o \in S : row[o].st = "Confirmed"]]
  BY DEF CommitSelection
<1> DEFINE valid == \A o \in S : row[o].sats /\ row[o].addr = Owner(o)
           sure == \A o \in S : row[o].st = "Confirmed"
<1>2. /\ flow[x].pc = "scan" /\ note' = note /\ chain' = chain /\ runes' = runes
      /\ faults' = faults
  BY DEF CommitSelection
<1>3. S \subseteq Outpoints /\ S # {} /\ Total(S) >= Target[x] /\ Total(S) \in Nat
  BY <1>1 DEF TypeOK, FlowType, Greedy
<1>4. /\ \A y \in Exits \ {x} : flow'[y] = flow[y]
      /\ flow'[x] = [pc |-> "sign", scan |-> {}, locks |-> {}, inputs |-> S,
                     total |-> Total(S), valid |-> valid, sure |-> sure]
  BY <1>1 DEF TypeOK
<1>5. /\ flow'[x].pc = "sign" /\ flow'[x].locks = {} /\ flow'[x].inputs = S
      /\ flow'[x].total = Total(S)
      /\ flow'[x].valid = valid /\ flow'[x].sure = sure /\ flow'[x] \in FlowType
  <2>1. valid \in BOOLEAN /\ sure \in BOOLEAN
    BY Zenon
  <2> HIDE DEF valid, sure
  <2> QED
    BY <1>3, <1>4, <2>1 DEF FlowType
<1>6. \A o \in Outpoints : /\ row'[o].st = IF o \in S THEN "Spent" ELSE row[o].st
                           /\ row'[o].amt = row[o].amt /\ row'[o].addr = row[o].addr
  BY <1>1 DEF TypeOK, RowType
<1>7. \A o \in S : row[o].st \in Selectable
  BY <1>1 DEF LocksHold
<1>8. FactsKept /\ \A y \in Exits \ {x} : SelectionKept(y)
  BY <1>2, <1>4 DEF FactsKept, SelectionKept
<1>9. \A o \in Outpoints : RowKept(o)
  BY <1>6 DEF RowKept
<1>10. TypeOK'
  <2>1. \A o \in Outpoints : [row[o] EXCEPT !.st = "Spent"] \in RowType
    <3> SUFFICES ASSUME NEW o \in Outpoints PROVE [row[o] EXCEPT !.st = "Spent"] \in RowType
      OBVIOUS
    <3>1. row[o] \in RowType
      BY DEF TypeOK
    <3> QED
      BY <3>1 DEF RowType
  <2>2. row' \in [Outpoints -> RowType]
    BY <1>1, <2>1 DEF TypeOK
  <2>3. flow' \in [Exits -> FlowType]
    BY <1>1, <1>5 DEF TypeOK
  <2> QED
    BY <1>2, <2>2, <2>3 DEF TypeOK
<1>11. LocksHold'
  <2>1. /\ \A y \in Exits : flow'[y].pc # "scan" => flow'[y].locks = {}
        /\ \A y, z \in Exits : y # z => flow'[y].locks \cap flow'[z].locks = {}
    <3> HIDE DEF valid, sure
    <3> QED
      BY <1>4, <1>5 DEF LocksHold
  <2>2. ASSUME NEW y \in Exits, NEW o \in flow'[y].locks
        PROVE  row'[o].st \in Selectable
    <3>1. y # x /\ o \in flow[y].locks
      BY <1>4, <1>5
    <3>2. o \in Outpoints /\ o \notin S /\ row[o].st \in Selectable
      BY <1>1, <3>1 DEF LocksHold, TypeOK, FlowType
    <3> QED
      BY <1>6, <3>2
  <2> QED
    BY <2>1, <2>2 DEF LocksHold
<1>12. NotesHold'
  BY <1>2, <1>6 DEF NotesHold, Accepted
<1>13. RowsHold'
  <2>1. {} \in SUBSET Outpoints
    OBVIOUS
  <2>2. \A y \in Exits : flow[y].pc = "done" => flow'[y].pc = "done"
    BY <1>2, <1>4
  <2>3. \A o \in Outpoints \ {} :
           /\ row'[o].addr = row[o].addr /\ row'[o].amt = row[o].amt
           /\ row'[o].st # "none" => row[o].st # "none"
           /\ row'[o].st = "Confirmed" => row[o].st = "Confirmed"
    BY <1>6, <1>7 DEF Selectable
  <2>4. FactsKept
    BY <1>8
  <2> HIDE DEF valid, sure
  <2> QED
    BY <2>1, <2>2, <2>3, <2>4, RowsKept
<1>14. InputsHold'
  <2>1. InputsOf(x)'
    BY <1>3, <1>5, <1>6 DEF InputsOf
  <2>2. ASSUME NEW y \in Exits \ {x} PROVE InputsOf(y)'
    BY <1>8, <1>9, InputKept DEF InputsHold
  <2> QED
    BY <2>1, <2>2 DEF InputsHold
<1>15. TakenOnce'
  <2>1. ASSUME NEW y \in Exits \ {x}, NEW o \in S \cap flow[y].inputs
        PROVE  PutBack(o)'
    <3>1. row[o].st = "Spent" \/ PutBack(o)
      BY <2>1 DEF InputsHold, InputsOf
    <3>2. PutBack(o)
      BY <1>7, <2>1, <3>1 DEF Selectable
    <3> QED
      BY <1>8, <3>2, PutBackStays
  <2>2. ASSUME NEW y \in Exits \ {x}, NEW z \in Exits \ {x}, y # z,
               NEW o \in flow[y].inputs \cap flow[z].inputs
        PROVE  PutBack(o)'
    <3>1. PutBack(o)
      BY <2>2 DEF TakenOnce
    <3> QED
      BY <1>8, <3>1, PutBackStays
  <2>3. flow'[x].inputs = S /\ \A y \in Exits \ {x} : flow'[y].inputs = flow[y].inputs
    BY <1>4, <1>5
  <2> SUFFICES ASSUME NEW y \in Exits, NEW z \in Exits, y # z,
                      NEW o \in flow'[y].inputs \cap flow'[z].inputs
               PROVE  PutBack(o)'
    BY DEF TakenOnce
  <2>4. CASE y = x
    BY <2>1, <2>3, <2>4
  <2>5. CASE z = x
    BY <2>1, <2>3, <2>5
  <2>6. CASE y # x /\ z # x
    BY <2>2, <2>3, <2>6
  <2> QED
    BY <2>4, <2>5, <2>6
<1>16. SumsHold'
  <2>1. SumFunction([o \in flow'[x].inputs |-> row'[o].amt]) = Total(S)
    BY <1>3, <1>5, <1>6, TotalSame
  <2>2. flow'[x].total = SumFunction([o \in flow'[x].inputs |-> row'[o].amt])
        /\ flow'[x].total >= Target[x]
    BY <1>3, <1>5, <2>1
  <2>3. flow'[x].valid => \A o \in flow'[x].inputs : row'[o].addr = Owner(o)
    BY <1>3, <1>5, <1>6
  <2>4. ASSUME flow'[x].sure, flow'[x].valid, NEW o \in flow'[x].inputs
        PROVE  \E d \in Deposits : o = In(d) /\ Accepted(d)' /\ chain'[o] # "none"
    <3>1. o \in Outpoints /\ row[o].st = "Confirmed" /\ row[o].addr = Owner(o)
      BY <1>3, <1>5, <2>4
    <3>2. RowOf(o)
      BY <3>1 DEF RowsHold
    <3>3. ~ \E z \in Exits : o = <<z, 1>> /\ row[o].addr = z
      BY <3>1 DEF Txids
    <3>4. \E d \in Deposits : o = In(d) /\ Accepted(d) /\ chain[o] # "none"
      BY <3>1, <3>2, <3>3 DEF RowOf
    <3> QED
      BY <1>2, <3>4 DEF Accepted
  <2>5. chain'[<<x, 1>>] = "none"
    BY <1>2 DEF SumsHold, SumOf
  <2>6. SumOf(x)'
    BY <1>3, <1>5, <2>2, <2>3, <2>4, <2>5 DEF SumOf, Total, Owner
  <2>7. ASSUME NEW y \in Exits \ {x} PROVE SumOf(y)'
    <3>1. chain'[<<y, 1>>] # "none" =>
            flow'[y].pc \in {"change", "done", "failed"} /\ flow'[y].valid
      BY <1>2, <1>4 DEF SumsHold, SumOf
    <3> QED
      BY <1>8, <1>9, <3>1, SumKept DEF InputsHold, SumsHold
  <2> QED
    BY <2>6, <2>7 DEF SumsHold
<1>17. SureExitDelivers'
  <2>1. chain'[<<x, 1>>] = "none"
    BY <1>2 DEF SumsHold, SumOf
  <2> QED
    BY <1>2, <1>4, <2>1 DEF SureExitDelivers, Change
<1> QED
  BY <1>10, <1>11, <1>12, <1>13, <1>14, <1>15, <1>16, <1>17

\* The change is recorded where there was no row.
LEMMA InsertChangeOK ==
  ASSUME IInv, NEW x \in Exits, InsertChange(x)
  PROVE  IInv'
<1> USE Points DEF IInv, Goto
<1>1. row[<<x, 1>>].st = "none"
  <2>1. ~RowOf(<<x, 1>>)
    BY DEF RowOf, InsertChange
  <2> QED
    BY <2>1 DEF RowsHold
<1>2. Change(x) \in Nat
  <2>1. flow[x].total >= Target[x]
    BY DEF SumsHold, SumOf, InsertChange
  <2> QED
    BY <2>1 DEF Change, TypeOK, FlowType
<1>3. /\ \A o \in Outpoints \ {<<x, 1>>} : row'[o] = row[o]
      /\ row'[<<x, 1>>] = [st |-> "Confirmed", amt |-> Change(x), addr |-> x, sats |-> TRUE]
      /\ note' = note /\ chain' = chain /\ runes' = runes
  BY DEF InsertChange, TypeOK
<1>4. /\ \A y \in Exits \ {x} : flow'[y] = flow[y]
      /\ flow'[x] = [flow[x] EXCEPT !.pc = "done"] /\ flow[x].pc = "change"
  BY DEF InsertChange, TypeOK
<1>5. /\ flow'[x].pc = "done" /\ flow'[x].locks = flow[x].locks
      /\ flow'[x].inputs = flow[x].inputs /\ flow'[x].total = flow[x].total
      /\ flow'[x].valid = flow[x].valid /\ flow'[x].sure = flow[x].sure
      /\ flow'[x] \in FlowType
  <2>1. flow[x] \in FlowType
    BY DEF TypeOK
  <2> QED
    BY <1>4, <2>1 DEF FlowType
<1>6. TypeOK'
  <2>1. row'[<<x, 1>>] \in RowType
    BY <1>2, <1>3 DEF RowType, Txids, Selectable
  <2> QED
    BY <1>5, <2>1 DEF InsertChange, TypeOK
<1>7. FactsKept /\ SelectionsKept
  BY <1>3, <1>4, <1>5 DEF FactsKept, SelectionsKept, SelectionKept
<1>8. \A o \in Outpoints : RowKept(o)
  BY <1>1, <1>3 DEF RowKept
<1>9. LocksHold'
  <2>1. \A y \in Exits : flow'[y].locks = flow[y].locks
    BY <1>4, <1>5
  <2>2. \A y \in Exits : flow'[y].pc # "scan" => flow[y].locks = {}
    BY <1>4, <1>5 DEF LocksHold
  <2>3. ASSUME NEW y \in Exits, NEW o \in flow[y].locks
        PROVE  row'[o].st \in Selectable
    <3>1. o \in Outpoints /\ row[o].st \in Selectable
      BY <2>3 DEF LocksHold, TypeOK, FlowType
    <3> QED
      BY <1>3, <3>1 DEF Selectable
  <2> QED
    BY <2>1, <2>2, <2>3 DEF LocksHold
<1>10. NotesHold'
  BY <1>3 DEF NotesHold, Accepted
<1>11. RowsHold'
  <2>1. {<<x, 1>>} \in SUBSET Outpoints
    OBVIOUS
  <2>2. \A o \in {<<x, 1>>} : RowOf(o)'
    BY <1>3, <1>5 DEF RowOf
  <2>3. \A y \in Exits : flow[y].pc = "done" => flow'[y].pc = "done"
    BY <1>4, <1>5
  <2> QED
    BY <1>3, <1>7, <2>1, <2>2, <2>3, RowsKept
<1>12. InputsHold' /\ TakenOnce'
  BY <1>7, <1>8, InputsKept
<1>13. \A y \in Exits : chain'[<<y, 1>>] # "none" =>
         flow'[y].pc \in {"change", "done", "failed"} /\ flow'[y].valid
  BY <1>3, <1>4, <1>5 DEF SumsHold, SumOf
<1>14. SumsHold' /\ SureExitDelivers'
  BY <1>3, <1>7, <1>8, <1>13, SumsKept, DeliveryKept
<1> QED
  BY <1>6, <1>9, <1>10, <1>11, <1>12, <1>14

\* The transaction is mined: inputs that are confirmed deposits hold what their
\* rows say, so the outputs receive what was asked for.
LEMMA MinedOK ==
  ASSUME IInv, NEW x \in Exits, flow[x].pc = "broadcast", Mineable(x), Mine(x),
         NEW p \in {"change", "done", "failed"}, Goto(x, p),
         faults' \in 0..MaxFaults, UNCHANGED <<row, note>>
  PROVE  IInv'
<1> USE Points DEF IInv
<1> DEFINE to == Allocation(x)
<1>1. /\ to.first \in Nat /\ to.second \in Nat
      /\ runes' = [runes EXCEPT ![<<x, 1>>] = to.first, ![<<x, 2>>] = to.second]
  BY DEF Mine
<1>2. chain' = [o \in Outpoints |->
                 CASE o \in flow[x].inputs -> "spent"
                   [] o = <<x, 1>> -> "unspent"
                   [] o = <<x, 2>> /\ Change(x) > 0 -> "unspent"
                   [] OTHER -> chain[o]]
  BY DEF Mine
<1>3. \A o \in Outpoints :
        /\ chain'[o] \in {"spent", "unspent", chain[o]}
        /\ o # <<x, 1>> /\ o # <<x, 2>> =>
             chain'[o] = (IF o \in flow[x].inputs THEN "spent" ELSE chain[o])
  BY <1>2
<1>4. /\ runes'[<<x, 1>>] = to.first /\ runes'[<<x, 2>>] = to.second
      /\ \A o \in Outpoints : o # <<x, 1>> /\ o # <<x, 2>> => runes'[o] = runes[o]
      /\ runes' \in [Outpoints -> Nat]
  <2> HIDE DEF to
  <2>1. <<x, 1>> # <<x, 2>>
    OBVIOUS
  <2> QED
    BY <1>1, <2>1 DEF TypeOK
<1>5. /\ \A y \in Exits \ {x} : flow'[y] = flow[y]
      /\ flow'[x] = [flow[x] EXCEPT !.pc = p]
  BY DEF Goto, TypeOK
<1>6. /\ flow'[x].pc = p /\ flow'[x].locks = flow[x].locks
      /\ flow'[x].inputs = flow[x].inputs /\ flow'[x].total = flow[x].total
      /\ flow'[x].valid = flow[x].valid /\ flow'[x].sure = flow[x].sure
      /\ flow'[x] \in FlowType
  <2>1. flow[x] \in FlowType
    BY DEF TypeOK
  <2> QED
    BY <1>5, <2>1 DEF FlowType
<1>7. TypeOK'
  <2>1. chain' \in [Outpoints -> {"none", "unspent", "spent"}]
    BY <1>2 DEF TypeOK
  <2>2. flow' \in [Exits -> FlowType]
    BY <1>6 DEF Goto, TypeOK
  <2> QED
    BY <1>4, <2>1, <2>2 DEF TypeOK
<1>8. FactsKept
  BY <1>3, <1>4 DEF FactsKept
<1>9. SelectionsKept
  BY <1>5, <1>6 DEF SelectionsKept, SelectionKept
<1>10. \A o \in Outpoints : RowKept(o)
  BY DEF RowKept
<1>11. LocksHold'
  <2>1. \A y \in Exits : /\ flow'[y].locks = flow[y].locks
                         /\ flow'[y].pc # "scan" => flow[y].pc # "scan"
    BY <1>5, <1>6
  <2> QED
    BY <2>1 DEF LocksHold
<1>12. NotesHold'
  BY <1>8 DEF NotesHold, FactsKept, Accepted
<1>13. RowsHold'
  <2>1. {} \in SUBSET Outpoints
    OBVIOUS
  <2>2. \A y \in Exits : flow[y].pc = "done" => flow'[y].pc = "done"
    BY <1>5
  <2> QED
    BY <1>8, <2>1, <2>2, RowsKept
<1>14. InputsHold' /\ TakenOnce'
  BY <1>8, <1>9, <1>10, InputsKept
<1>15. \A y \in Exits \ {x} : /\ chain'[<<y, 1>>] # "none" => chain[<<y, 1>>] # "none"
                              /\ runes'[<<y, 1>>] = runes[<<y, 1>>]
                              /\ runes'[<<y, 2>>] = runes[<<y, 2>>]
  <2>1. \A y \in Exits \ {x} : /\ <<y, 1>> # <<x, 1>> /\ <<y, 1>> # <<x, 2>>
                               /\ <<y, 2>> # <<x, 1>> /\ <<y, 2>> # <<x, 2>>
    OBVIOUS
  <2>2. \A o \in flow[x].inputs : chain[o] = "unspent"
    BY DEF Mineable
  <2> QED
    BY <1>3, <1>4, <2>1, <2>2
<1>16. SumsHold'
  <2>1. \A y \in Exits : chain'[<<y, 1>>] # "none" =>
          flow'[y].pc \in {"change", "done", "failed"} /\ flow'[y].valid
    <3>1. flow'[x].pc \in {"change", "done", "failed"} /\ flow'[x].valid
      BY <1>6 DEF Mineable
    <3>2. \A y \in Exits \ {x} : chain'[<<y, 1>>] # "none" =>
            flow'[y].pc \in {"change", "done", "failed"} /\ flow'[y].valid
      BY <1>5, <1>15 DEF SumsHold, SumOf
    <3> QED
      BY <3>1, <3>2
  <2> QED
    BY <1>8, <1>9, <1>10, <2>1, SumsKept
<1>17. ASSUME flow[x].sure PROVE to.first = Target[x] /\ to.second = Change(x)
  <2>1. ASSUME NEW o \in flow[x].inputs PROVE runes[o] = row[o].amt
    <3>1. PICK d \in Deposits : o = In(d) /\ Accepted(d)
      BY <1>17 DEF SumsHold, SumOf, Mineable
    <3>2. row[o].st # "none"
      BY DEF InputsHold, InputsOf
    <3>3. RowOf(In(d))
      BY <3>1, <3>2 DEF RowsHold
    <3>4. row[In(d)].amt = Claimed[d]
      BY <3>3 DEF RowOf
    <3> QED
      BY <3>1, <3>4 DEF Accepted
  <2>2. [o \in flow[x].inputs |-> runes[o]] = [o \in flow[x].inputs |-> row[o].amt]
    BY <2>1
  <2>3. flow[x].total = Total(flow[x].inputs) /\ flow[x].total >= Target[x]
    BY Zenon DEF SumsHold, SumOf
  <2>4. SumFunction([o \in flow[x].inputs |-> runes[o]]) = flow[x].total
    BY <2>2, <2>3 DEF Total
  <2>5. flow[x].total \in Nat /\ Target[x] \in Nat
    BY DEF TypeOK, FlowType
  <2> DEFINE pool == SumFunction([o \in flow[x].inputs |-> runes[o]])
  <2>6. to = LET second == Least(Change(x), pool - Least(Target[x], pool))
             IN [first |-> pool - second, second |-> second]
    BY DEF Allocation
  <2> HIDE DEF pool, to
  <2>7. pool = flow[x].total
    BY <2>4 DEF pool
  <2> QED
    BY <2>3, <2>5, <2>6, <2>7 DEF Least, Change
<1>18. SureExitDelivers'
  <2> HIDE DEF to
  <2>1. \A y \in Exits : Change(y)' = Change(y) /\ flow'[y].sure = flow[y].sure
    BY <1>5, <1>6 DEF Change
  <2>2. flow[x].sure => runes'[<<x, 1>>] = Target[x] /\ runes'[<<x, 2>>] = Change(x)
    BY <1>4, <1>17
  <2> SUFFICES ASSUME NEW y \in Exits, chain'[<<y, 1>>] # "none", flow'[y].sure
               PROVE  runes'[<<y, 1>>] = Target[y] /\ runes'[<<y, 2>>] = Change(y)'
    BY DEF SureExitDelivers
  <2>3. CASE y = x
    BY <2>1, <2>2, <2>3
  <2>4. CASE y # x
    BY <1>15, <2>1, <2>4 DEF SureExitDelivers
  <2> QED
    BY <2>3, <2>4
<1> QED
  BY <1>7, <1>11, <1>12, <1>13, <1>14, <1>16, <1>18

\* The transaction is mined or refused.
LEMMA BroadcastOK ==
  ASSUME IInv, NEW x \in Exits, Broadcast(x)
  PROVE  IInv'
<1> USE DEF IInv
<1>1. CASE Mineable(x) /\ Mine(x)
  <2>1. flow[x].pc = "broadcast" /\ UNCHANGED <<row, note>>
    BY DEF Broadcast
  <2>2. \E p \in {"change", "done", "failed"} : Goto(x, p)
    BY <1>1 DEF Broadcast
  <2>3. faults' \in 0..MaxFaults
    BY <1>1 DEF Broadcast, Fault, TypeOK
  <2> QED
    BY <1>1, <2>1, <2>2, <2>3, MinedOK
<1>2. CASE ~Mineable(x) /\ Goto(x, "failed") /\ UNCHANGED <<chain, runes, faults>>
  <2>0. flow[x] \in FlowType
    BY DEF TypeOK
  <2>1. TypeOK'
    <3>1. flow'[x] \in FlowType
      BY <1>2, <2>0 DEF FlowType, TypeOK, Goto
    <3> QED
      BY <1>2, <3>1 DEF Broadcast, TypeOK, Goto
  <2>2. SelectionsKept
    BY <1>2, <2>0 DEF Broadcast, Goto, SelectionsKept, SelectionKept, TypeOK, FlowType
  <2>3. LocksHold'
    BY <1>2, <2>0 DEF Broadcast, Goto, LocksHold, TypeOK, FlowType
  <2> QED
    BY <1>2, <2>1, <2>2, <2>3, FlowMoves DEF Broadcast, Goto, TypeOK
<1> QED
  BY <1>1, <1>2 DEF Broadcast

\* IInv is preserved by every step.
LEMMA StepOK == IInv /\ [Next]_vars => IInv'
<1> SUFFICES ASSUME IInv, [Next]_vars PROVE IInv'
  OBVIOUS
<1>1. ASSUME NEW d \in Deposits, NEW n \in Sent, MineDeposit(d, n) PROVE IInv'
  BY <1>1, MineDepositOK
<1>2. ASSUME NEW d \in Deposits, InsertDeposit(d) PROVE IInv'
  BY <1>2, InsertDepositOK
<1>3. ASSUME NEW d \in Deposits, NEW v \in Verifiers,
             NotifyDeposit(d, v) \/ CheckDeposit(d, v) \/ ConfirmDeposit(d, v)
      PROVE  IInv'
  BY <1>3, NotifyDepositOK, CheckDepositOK, ConfirmDepositOK
<1>4. ASSUME NEW x \in Exits, BeginSelect(x) \/ FlowErr(x) PROVE IInv'
  BY <1>4, BeginSelectOK, FlowErrOK
<1>5. ASSUME NEW x \in Exits, ExitFlow(x) PROVE IInv'
  BY <1>5, VisitRowOK, CommitSelectionOK, RollbackSelectionOK, SignInputsOK, BroadcastOK,
     InsertChangeOK DEF ExitFlow
<1>6. ASSUME UNCHANGED vars PROVE IInv'
  <2>1. TypeOK' /\ LocksHold' /\ SelectionsKept
    BY <1>6 DEF IInv, vars, TypeOK, LocksHold, SelectionsKept, SelectionKept
  <2> QED
    BY <1>6, <2>1, FlowMoves DEF vars
<1> QED
  BY <1>1, <1>2, <1>3, <1>4, <1>5, <1>6 DEF Next

\* The strengthened invariant holds in every reachable state of the vault.
THEOREM InductiveInvariance == Spec => []IInv
<1>1. Init => IInv
  BY InitOK
<1>2. IInv /\ [Next]_vars => IInv'
  BY StepOK
<1> QED
  BY <1>1, <1>2, PTL DEF Spec

\* Table, notifications, chain and flows keep their types; in particular the
\* change that insert_utxo records is never negative.
THEOREM TypeCorrect == Spec => []TypeOK
<1>1. IInv => TypeOK
  BY DEF IInv
<1> QED
  BY <1>1, InductiveInvariance, PTL

\* select_utxos_for_amount gives no row to two exits, except a deposit that
\* update_status may have put back, for any number of concurrent exits.
THEOREM ExclusiveRows == Spec => []TakenOnce
<1>1. IInv => TakenOnce
  BY DEF IInv
<1> QED
  BY <1>1, InductiveInvariance, PTL

\* An exit over confirmed rows delivers exactly its amount, and exactly the
\* rest as change, for any amounts and any set of inputs.
THEOREM SureExitsDeliver == Spec => []SureExitDelivers
<1>1. IInv => SureExitDelivers
  BY DEF IInv
<1> QED
  BY <1>1, InductiveInvariance, PTL
=============================================================================
