-------------------------- MODULE BtcWatch_proofs --------------------------
(***************************************************************************)
(* IInv is an inductive invariant of BtcWatch for every set of deposits    *)
(* and fees, every confirmation depth, chain length and number of faults.  *)
(***************************************************************************)
EXTENDS BtcWatch, TLAPS

\* Nothing is watched, told or in hand at the start.
LEMMA InitIInv == Init => IInv
<1> SUFFICES ASSUME Init PROVE IInv
  OBVIOUS
<1> USE ConstantsAssumption DEF Init, Idle
<1>1. TypeOK
  BY DEF TypeOK, Outs, PassType, RowType
<1>2. PassSound /\ FeeFirst /\ FeeOwned /\ ToldSound /\ NoVerdictLost
  BY DEF PassSound, FeeFirst, FeeOwned, ToldSound, NoVerdictLost, Verdicts, Outs
<1>3. QED
  BY <1>1, <1>2 DEF IInv

-----------------------------------------------------------------------------
(* Facts about the state that several steps use.                           *)

\* A fee that is watched is the fee of a deposit paid on Bitcoin, whose
\* handler has ended; no other deposit names it.
LEMMA FeeHandlerDone ==
  ASSUME IInv, NEW d \in Deposits, FeeOf[d] \in Fees, wr[FeeOf[d]] # "absent"
  PROVE  handler[d] = "done" /\ row[d].mode = "btc"
BY ConstantsAssumption DEF IInv, FeeOwned

\* The row that the callback about a watched fee finds.
LEMMA PayerFound ==
  ASSUME IInv, NEW f \in Fees, wr[f] # "absent"
  PROVE  /\ PayerOf(f) \in Deposits /\ FeeOf[PayerOf(f)] = f
         /\ handler[PayerOf(f)] = "done" /\ row[PayerOf(f)].mode = "btc"
         /\ \A d \in Deposits : FeeOf[d] = f => d = PayerOf(f)
<1>1. \E d \in Deposits : FeeOf[d] = f
  BY DEF IInv, FeeOwned
<1>2. PayerOf(f) \in Deposits /\ FeeOf[PayerOf(f)] = f
  BY <1>1 DEF PayerOf
<1>3. QED
  BY <1>2, FeeHandlerDone, ConstantsAssumption

\* The states of the loop between two requests.
LEMMA PassRecords ==
  ASSUME IInv
  PROVE  /\ EndPass => pass' = [pc |-> "sleep", todo |-> {}, cur |-> None, tip |-> 0,
                                verdict |-> "Pending", sats |-> FALSE]
         /\ Continue => pass' = [pc |-> "next", todo |-> pass.todo, cur |-> None, tip |-> 0,
                                 verdict |-> "Pending", sats |-> FALSE]
         /\ EndPass \/ Continue => pass' \in PassType
<1>1. pass.todo \in SUBSET Outs /\ 0 \in 0..MaxTip
  BY ConstantsAssumption DEF IInv, TypeOK, PassType
<1>2. EndPass => pass' = [pc |-> "sleep", todo |-> {}, cur |-> None, tip |-> 0,
                          verdict |-> "Pending", sats |-> FALSE]
  BY DEF EndPass, Idle
<1>3. Continue => pass' = [pc |-> "next", todo |-> pass.todo, cur |-> None, tip |-> 0,
                           verdict |-> "Pending", sats |-> FALSE]
  BY DEF Continue, Idle
<1>4. [pc |-> "sleep", todo |-> {}, cur |-> None, tip |-> 0,
       verdict |-> "Pending", sats |-> FALSE] \in PassType
  BY <1>1 DEF PassType
<1>5. [pc |-> "next", todo |-> pass.todo, cur |-> None, tip |-> 0,
       verdict |-> "Pending", sats |-> FALSE] \in PassType
  BY <1>1 DEF PassType
<1>6. QED
  BY <1>2, <1>3, <1>4, <1>5

-----------------------------------------------------------------------------
(* The chain and the clock.                                                *)

\* The invariant is kept by Broadcast.
LEMMA BroadcastIInv ==
  ASSUME IInv, NEW o \in Outs, Broadcast(o)
  PROVE  IInv'
<1> USE ConstantsAssumption DEF IInv, Broadcast, config, chain, Outs, Verdicts
<1>1. TypeOK'
  BY DEF TypeOK, PassType, RowType
<1>2. PassSound'
  BY DEF TypeOK, PassType, RowType, PassSound, VerdictSound, Deep, Truth
<1>3. FeeFirst'
  BY DEF TypeOK, RowType, FeeFirst, Deep
<1>4. FeeOwned'
  BY DEF TypeOK, PassType, RowType, FeeOwned
<1>5. ToldSound'
  BY DEF TypeOK, PassType, RowType, ToldSound, Deep, Truth
<1>6. NoVerdictLost'
  BY DEF TypeOK, PassType, RowType, NoVerdictLost
<1>7. QED
  BY <1>1, <1>2, <1>3, <1>4, <1>5, <1>6

\* The invariant is kept by MineBlock.
LEMMA MineBlockIInv ==
  ASSUME IInv, NEW mined \in SUBSET Outs, MineBlock(mined)
  PROVE  IInv'
<1> USE ConstantsAssumption DEF IInv, MineBlock, config, chain, Outs, Verdicts
<1>1. TypeOK'
  BY DEF TypeOK, PassType, RowType
<1>2. PassSound'
  BY DEF TypeOK, PassType, RowType, PassSound, VerdictSound, Deep, Truth
<1>3. FeeFirst'
  BY DEF TypeOK, RowType, FeeFirst, Deep
<1>4. FeeOwned'
  BY DEF TypeOK, PassType, RowType, FeeOwned
<1>5. ToldSound'
  BY DEF TypeOK, PassType, RowType, ToldSound, Deep, Truth
<1>6. NoVerdictLost'
  BY DEF TypeOK, PassType, RowType, NoVerdictLost
<1>7. QED
  BY <1>1, <1>2, <1>3, <1>4, <1>5, <1>6

\* The invariant is kept by Reorg.
LEMMA ReorgIInv ==
  ASSUME IInv, NEW k \in 1..Delta, Reorg(k)
  PROVE  IInv'
<1> USE ConstantsAssumption DEF IInv, Reorg, config, chain, Outs, Verdicts
<1>1. TypeOK'
  BY DEF TypeOK, PassType, RowType
<1>2. PassSound'
  BY DEF TypeOK, PassType, RowType, PassSound, VerdictSound, Deep, Truth
<1>3. FeeFirst'
  BY DEF TypeOK, RowType, FeeFirst, Deep
<1>4. FeeOwned'
  BY DEF TypeOK, PassType, RowType, FeeOwned
<1>5. ToldSound'
  BY DEF TypeOK, PassType, RowType, ToldSound, Deep, Truth
<1>6. NoVerdictLost'
  BY DEF TypeOK, PassType, RowType, NoVerdictLost
<1>7. QED
  BY <1>1, <1>2, <1>3, <1>4, <1>5, <1>6

\* The invariant is kept by Expire.
LEMMA ExpireIInv ==
  ASSUME IInv, NEW o \in Outs, Expire(o)
  PROVE  IInv'
<1> USE ConstantsAssumption DEF IInv, Expire, config, chain, Outs, Verdicts
<1>1. TypeOK'
  BY DEF TypeOK, PassType, RowType
<1>2. PassSound'
  BY DEF TypeOK, PassType, RowType, PassSound, VerdictSound, Deep, Truth
<1>3. FeeFirst'
  BY DEF TypeOK, RowType, FeeFirst, Deep
<1>4. FeeOwned'
  BY DEF TypeOK, PassType, RowType, FeeOwned
<1>5. ToldSound'
  BY DEF TypeOK, PassType, RowType, ToldSound, Deep, Truth
<1>6. NoVerdictLost'
  BY DEF TypeOK, PassType, RowType, NoVerdictLost
<1>7. QED
  BY <1>1, <1>2, <1>3, <1>4, <1>5, <1>6

-----------------------------------------------------------------------------
(* watch_runes_deposit at the verifier.                                    *)

\* The invariant is kept by InsertDepositAddrInfo.
LEMMA InsertDepositAddrInfoIInv ==
  ASSUME IInv, NEW d \in Deposits, NEW m \in {"none", "btc", "spark"}, InsertDepositAddrInfo(d, m)
  PROVE  IInv'
<1> USE ConstantsAssumption DEF IInv, InsertDepositAddrInfo, config, chain, Outs, Verdicts
<1>1. TypeOK'
  BY DEF TypeOK, PassType, RowType
<1>2. PassSound'
  BY FeeHandlerDone DEF TypeOK, PassType, RowType, PassSound, VerdictSound, Deep, Truth, FeeFirst
<1>3. FeeFirst'
  BY DEF TypeOK, RowType, FeeFirst, Deep
<1>4. FeeOwned'
  BY DEF TypeOK, PassType, RowType, FeeOwned
<1>5. ToldSound'
  BY DEF TypeOK, RowType, ToldSound, Deep, Truth, FeeFirst
<1>6. NoVerdictLost'
  <2> SUFFICES ASSUME faults = 0, NEW e \in Deposits PROVE NoVerdictLost!2!(e)'
    BY DEF NoVerdictLost
  <2>1. e # d => row'[e] = row[e]
    BY DEF TypeOK
  <2>2. CASE e = d
    <3>1. handler[d] = "idle" /\ wr[d] = "absent"
      BY DEF FeeFirst
    <3>2. row'[d].mode = "btc" => FeeOf[d] \in Fees /\ wr[FeeOf[d]] = "absent"
      <4>1. row'[d].mode = m /\ FeeOf[d] \in Fees \cup {None}
        BY DEF TypeOK, RowType
      <4>2. QED
        BY <3>1, <4>1, FeeHandlerDone
    <3>3. QED
      BY <2>2, <3>1, <3>2
  <2>3. CASE e # d
    BY <2>1, <2>3 DEF NoVerdictLost
  <2>4. QED
    BY <2>2, <2>3
<1>7. QED
  BY <1>1, <1>2, <1>3, <1>4, <1>5, <1>6

\* The invariant is kept by WatchBtcFee.
LEMMA WatchBtcFeeIInv ==
  ASSUME IInv, NEW d \in Deposits, WatchBtcFee(d)
  PROVE  IInv'
<1> USE ConstantsAssumption DEF IInv, WatchBtcFee, AddRequest, config, chain, Outs, Verdicts
<1>0. FeeOf[d] \in Fees /\ wr[FeeOf[d]] = "absent"
  BY FeeHandlerDone DEF TypeOK, FeeFirst
<1>1. TypeOK'
  BY DEF TypeOK, PassType, RowType
<1>2. PassSound'
  BY <1>0 DEF TypeOK, PassType, RowType, PassSound, VerdictSound, Deep, Truth
<1>3. FeeFirst'
  BY <1>0 DEF TypeOK, RowType, FeeFirst, Deep
<1>4. FeeOwned'
  BY DEF TypeOK, PassType, RowType, FeeOwned
<1>5. ToldSound'
  BY DEF TypeOK, PassType, RowType, ToldSound, Deep, Truth
<1>6. NoVerdictLost'
  BY DEF TypeOK, PassType, RowType, NoVerdictLost
<1>7. QED
  BY <1>1, <1>2, <1>3, <1>4, <1>5, <1>6

\* The invariant is kept by VerifySparkFee.
LEMMA VerifySparkFeeIInv ==
  ASSUME IInv, NEW d \in Deposits, NEW s \in Verdicts, VerifySparkFee(d, s)
  PROVE  IInv'
<1> USE ConstantsAssumption DEF IInv, VerifySparkFee, config, chain, Outs, Verdicts
<1>1. TypeOK'
  BY DEF TypeOK, PassType, RowType
<1>2. PassSound'
  BY FeeHandlerDone DEF TypeOK, PassType, RowType, PassSound, VerdictSound, Deep, Truth, FeeFirst
<1>3. FeeFirst'
  BY DEF TypeOK, RowType, FeeFirst, Deep
<1>4. FeeOwned'
  BY DEF TypeOK, PassType, RowType, FeeOwned
<1>5. ToldSound'
  BY DEF TypeOK, PassType, RowType, ToldSound, Deep, Truth
<1>6. NoVerdictLost'
  BY DEF TypeOK, PassType, RowType, NoVerdictLost
<1>7. QED
  BY <1>1, <1>2, <1>3, <1>4, <1>5, <1>6

\* The invariant is kept by WatchDeposit.
LEMMA WatchDepositIInv ==
  ASSUME IInv, NEW d \in Deposits, WatchDeposit(d)
  PROVE  IInv'
<1> USE ConstantsAssumption DEF IInv, WatchDeposit, AddRequest, config, chain, Outs, Verdicts
<1>1. TypeOK'
  BY DEF TypeOK, PassType, RowType
<1>2. PassSound'
  BY FeeHandlerDone DEF TypeOK, PassType, RowType, PassSound, VerdictSound, Deep, Truth, FeeFirst
<1>3. FeeFirst'
  BY DEF TypeOK, RowType, FeeFirst, Deep
<1>4. FeeOwned'
  BY DEF TypeOK, PassType, RowType, FeeOwned
<1>5. ToldSound'
  BY DEF TypeOK, PassType, RowType, ToldSound, Deep, Truth
<1>6. NoVerdictLost'
  BY DEF TypeOK, PassType, RowType, NoVerdictLost
<1>7. QED
  BY <1>1, <1>2, <1>3, <1>4, <1>5, <1>6

\* The invariant is kept by HandlerErr.
LEMMA HandlerErrIInv ==
  ASSUME IInv, NEW d \in Deposits, HandlerErr(d)
  PROVE  IInv'
<1> USE ConstantsAssumption DEF IInv, HandlerErr, Fault, config, chain, Outs, Verdicts
<1>1. TypeOK'
  BY DEF TypeOK, PassType, RowType
<1>2. PassSound'
  BY DEF TypeOK, PassType, RowType, PassSound, VerdictSound, Deep, Truth
<1>3. FeeFirst'
  BY DEF TypeOK, RowType, FeeFirst, Deep
<1>4. FeeOwned'
  BY DEF TypeOK, PassType, RowType, FeeOwned
<1>5. ToldSound'
  BY DEF TypeOK, PassType, RowType, ToldSound, Deep, Truth
<1>6. NoVerdictLost'
  BY DEF TypeOK, PassType, RowType, NoVerdictLost
<1>7. QED
  BY <1>1, <1>2, <1>3, <1>4, <1>5, <1>6

-----------------------------------------------------------------------------
(* The indexer's loop.                                                     *)

\* The invariant is kept by StartPass.
LEMMA StartPassIInv ==
  ASSUME IInv, StartPass
  PROVE  IInv'
<1> USE DEF IInv
<1>u. UNCHANGED <<client, feeOn, ok, tip, seen, height, wr, late, row, handler, told, faults>>
  BY DEF StartPass, config, chain
<1>0. PICK pending \in SUBSET Outs :
        /\ \A o \in pending : wr[o] = "Pending"
        /\ pass' = [pc |-> "next", todo |-> pending, cur |-> None, tip |-> 0,
                    verdict |-> "Pending", sats |-> FALSE]
  <2>1. {o \in Outs : wr[o] = "Pending"} \in SUBSET Outs
    OBVIOUS
  <2>2. QED
    BY <2>1 DEF StartPass, Idle
<1>s. pass.cur = None /\ tip \in 0..MaxTip
  BY DEF PassSound, TypeOK, StartPass
<1>1. TypeOK'
  <2>1. 0 \in 0..MaxTip
    BY ConstantsAssumption
  <2>2. pass' \in PassType
    BY <1>0, <2>1 DEF PassType
  <2>3. QED
    BY <1>u, <2>2 DEF TypeOK
<1>2. PassSound'
  <2>1. 0 <= tip
    BY <1>s
  <2>2. QED
    BY <1>u, <1>0, <2>1 DEF PassSound
<1>3. FeeFirst' /\ FeeOwned' /\ ToldSound'
  BY <1>u DEF FeeFirst, FeeOwned, ToldSound, Deep, Truth
<1>4. NoVerdictLost'
  BY <1>u, <1>0, <1>s, ConstantsAssumption DEF NoVerdictLost
<1>5. QED
  BY <1>1, <1>2, <1>3, <1>4

\* The invariant is kept by NextRequest.
LEMMA NextRequestIInv ==
  ASSUME IInv, NextRequest
  PROVE  IInv'
<1> USE DEF IInv
<1>u. UNCHANGED <<client, feeOn, ok, tip, seen, height, wr, late, row, handler, told, faults>>
  BY DEF NextRequest, config, chain
<1>0. \/ EndPass
      \/ \E o \in pass.todo :
           pass' = [pass EXCEPT !.pc = "lookup", !.todo = @ \ {o}, !.cur = o, !.tip = tip]
  BY DEF NextRequest
<1>t. pass \in PassType /\ tip \in 0..MaxTip
  BY DEF TypeOK
<1>s. pass.cur = None
  BY DEF PassSound, NextRequest
<1>1. ASSUME NEW o \in pass.todo,
             pass' = [pass EXCEPT !.pc = "lookup", !.todo = @ \ {o}, !.cur = o, !.tip = tip]
      PROVE  IInv'
  <2>1. /\ pass'.pc = "lookup" /\ pass'.cur = o /\ pass'.tip = tip
        /\ pass'.todo = pass.todo \ {o}
    BY <1>t, <1>1 DEF PassType
  <2>2. pass' \in PassType
    BY <1>t, <1>1 DEF PassType
  <2>3. TypeOK'
    BY <1>u, <2>2 DEF TypeOK
  <2>4. PassSound'
    <3>1. tip <= tip /\ o \in Outs
      BY <1>t DEF PassType
    <3>2. QED
      BY <1>u, <2>1, <3>1 DEF PassSound
  <2>5. NoVerdictLost'
    BY <1>u, <1>s, <2>1, ConstantsAssumption DEF NoVerdictLost, FeeFirst
  <2>6. QED
    BY <1>u, <2>3, <2>4, <2>5 DEF FeeFirst, FeeOwned, ToldSound, Deep, Truth
<1>2. CASE EndPass
  <2>1. pass'.pc = "sleep" /\ pass'.cur = None /\ pass'.tip = 0 /\ pass'.todo = {} /\ pass' \in PassType
    BY <1>2, PassRecords
  <2>2. TypeOK'
    BY <1>u, <2>1 DEF TypeOK
  <2>3. PassSound'
    <3>1. 0 <= tip
      BY <1>t
    <3>2. QED
      BY <1>u, <2>1, <3>1 DEF PassSound
  <2>4. NoVerdictLost'
    BY <1>u, <1>s, <2>1, ConstantsAssumption DEF NoVerdictLost
  <2>5. QED
    BY <1>u, <2>2, <2>3, <2>4 DEF FeeFirst, FeeOwned, ToldSound, Deep, Truth
<1>3. QED
  BY <1>0, <1>1, <1>2

\* The invariant is kept by LookupErr.
LEMMA LookupErrIInv ==
  ASSUME IInv, LookupErr
  PROVE  IInv'
<1> USE ConstantsAssumption DEF IInv, LookupErr, config, chain, Outs, Verdicts
<1>1. TypeOK'
  BY PassRecords DEF TypeOK
<1>2. PassSound'
  BY PassRecords DEF TypeOK, PassSound
<1>3. FeeFirst'
  BY DEF TypeOK, RowType, FeeFirst, Deep
<1>4. FeeOwned'
  BY DEF TypeOK, PassType, RowType, FeeOwned
<1>5. ToldSound'
  BY DEF TypeOK, PassType, RowType, ToldSound, Deep, Truth
<1>6. NoVerdictLost'
  BY PassRecords DEF TypeOK, PassType, RowType, NoVerdictLost, PassSound
<1>7. QED
  BY <1>1, <1>2, <1>3, <1>4, <1>5, <1>6

\* The invariant is kept by LookupNone.
LEMMA LookupNoneIInv ==
  ASSUME IInv, LookupNone
  PROVE  IInv'
<1> USE ConstantsAssumption DEF IInv, LookupNone, Fault, config, chain, Outs, Verdicts
<1>0. \/ Continue
      \/ /\ late[pass.cur]
         /\ pass' = [pass EXCEPT !.pc = "update", !.verdict = "Failed", !.sats = FALSE]
  OBVIOUS
<1>t. pass \in PassType
  BY DEF TypeOK
<1>p. [pass EXCEPT !.pc = "update", !.verdict = "Failed", !.sats = FALSE] \in PassType
  BY <1>t DEF PassType
<1>1. TypeOK'
  BY <1>0, <1>p, PassRecords DEF TypeOK
<1>2. PassSound'
  <2>1. CASE Continue
    BY <2>1, PassRecords DEF TypeOK, PassSound
  <2>2. CASE late[pass.cur] /\ pass' = [pass EXCEPT !.pc = "update", !.verdict = "Failed", !.sats = FALSE]
    BY <1>t, <2>2 DEF PassType, PassSound, VerdictSound
  <2>3. QED
    BY <1>0, <2>1, <2>2
<1>3. FeeFirst'
  BY DEF TypeOK, RowType, FeeFirst, Deep
<1>4. FeeOwned'
  BY DEF TypeOK, PassType, RowType, FeeOwned
<1>5. ToldSound'
  BY DEF TypeOK, PassType, RowType, ToldSound, Deep, Truth
<1>6. NoVerdictLost'
  BY PassRecords DEF TypeOK, PassType, RowType, NoVerdictLost, PassSound
<1>7. QED
  BY <1>1, <1>2, <1>3, <1>4, <1>5, <1>6

\* The invariant is kept by LookupSome.
LEMMA LookupSomeIInv ==
  ASSUME IInv, LookupSome
  PROVE  IInv'
<1> USE ConstantsAssumption DEF IInv, LookupSome, config, chain, Outs, Verdicts
<1>0. \/ Continue
      \/ /\ Confirmations(pass.cur)
         /\ pass' = [pass EXCEPT !.pc = "update", !.sats = TRUE, !.verdict = Truth(pass.cur)]
  BY DEF Truth
<1>t. pass \in PassType /\ Truth(pass.cur) \in Verdicts
  BY DEF TypeOK, Truth
<1>p. [pass EXCEPT !.pc = "update", !.sats = TRUE, !.verdict = Truth(pass.cur)] \in PassType
  BY <1>t DEF PassType
<1>1. TypeOK'
  BY <1>0, <1>p, PassRecords DEF TypeOK
<1>2. PassSound'
  <2>1. CASE Continue
    BY <2>1, PassRecords DEF TypeOK, PassSound
  <2>2. CASE /\ Confirmations(pass.cur)
             /\ pass' = [pass EXCEPT !.pc = "update", !.sats = TRUE, !.verdict = Truth(pass.cur)]
    <3>1. /\ pass'.pc = "update" /\ pass'.sats = TRUE /\ pass'.cur = pass.cur
          /\ pass'.verdict = Truth(pass.cur) /\ pass'.todo = pass.todo /\ pass'.tip = pass.tip
      BY <1>t, <2>2 DEF PassType
    <3>2. seen[pass.cur] = "mined" /\ tip >= height[pass.cur] + Delta
      <4>1. pass.tip \in 0..MaxTip /\ tip \in 0..MaxTip /\ height[pass.cur] \in 0..MaxTip
        BY <1>t DEF PassType, TypeOK, PassSound
      <4>2. QED
        BY <2>2, <4>1 DEF Confirmations, PassSound
    <3>3. VerdictSound'
      BY <3>1, <3>2 DEF VerdictSound, Deep, Truth
    <3>4. QED
      BY <1>t, <3>1, <3>3 DEF PassSound
  <2>3. QED
    BY <1>0, <2>1, <2>2
<1>3. FeeFirst'
  BY DEF TypeOK, RowType, FeeFirst, Deep
<1>4. FeeOwned'
  BY DEF TypeOK, PassType, RowType, FeeOwned
<1>5. ToldSound'
  BY DEF TypeOK, PassType, RowType, ToldSound, Deep, Truth
<1>6. NoVerdictLost'
  BY PassRecords DEF TypeOK, PassType, RowType, NoVerdictLost, PassSound
<1>7. QED
  BY <1>1, <1>2, <1>3, <1>4, <1>5, <1>6

\* The invariant is kept by UpdateWatchRequestStatus.
LEMMA UpdateWatchRequestStatusIInv ==
  ASSUME IInv, UpdateWatchRequestStatus
  PROVE  IInv'
<1> USE ConstantsAssumption DEF IInv, UpdateWatchRequestStatus, config, chain, Outs, Verdicts
<1>1. TypeOK'
  BY DEF TypeOK, PassType, RowType
<1>2. PassSound'
  BY DEF TypeOK, PassType, RowType, PassSound, VerdictSound, Deep, Truth
<1>3. FeeFirst'
  BY DEF TypeOK, PassType, FeeFirst, Deep, PassSound
<1>4. FeeOwned'
  BY DEF TypeOK, PassType, FeeOwned, PassSound
<1>5. ToldSound'
  BY DEF TypeOK, PassType, RowType, ToldSound, Deep, Truth
<1>6. NoVerdictLost'
  BY DEF TypeOK, PassType, RowType, NoVerdictLost
<1>7. QED
  BY <1>1, <1>2, <1>3, <1>4, <1>5, <1>6

\* The invariant is kept by PassErr.
LEMMA PassErrIInv ==
  ASSUME IInv, PassErr
  PROVE  IInv'
<1> USE ConstantsAssumption DEF IInv, PassErr, Fault, config, chain, Outs, Verdicts
<1>1. TypeOK'
  BY PassRecords DEF TypeOK
<1>2. PassSound'
  BY PassRecords DEF TypeOK, PassSound
<1>3. FeeFirst'
  BY DEF TypeOK, RowType, FeeFirst, Deep
<1>4. FeeOwned'
  BY DEF TypeOK, PassType, RowType, FeeOwned
<1>5. ToldSound'
  BY DEF TypeOK, PassType, RowType, ToldSound, Deep, Truth
<1>6. NoVerdictLost'
  BY DEF TypeOK, PassType, RowType, NoVerdictLost
<1>7. QED
  BY <1>1, <1>2, <1>3, <1>4, <1>5, <1>6

-----------------------------------------------------------------------------
(* The callback.                                                           *)

\* The invariant is kept by CallbackRefused.
LEMMA CallbackRefusedIInv ==
  ASSUME IInv, CallbackRefused
  PROVE  IInv'
<1> USE ConstantsAssumption DEF IInv, CallbackRefused, config, chain, Outs, Verdicts
<1>1. TypeOK'
  BY PassRecords DEF TypeOK
<1>2. PassSound'
  BY PassRecords DEF TypeOK, PassSound
<1>3. FeeFirst'
  BY DEF TypeOK, RowType, FeeFirst, Deep
<1>4. FeeOwned'
  BY DEF TypeOK, PassType, RowType, FeeOwned
<1>5. ToldSound'
  BY DEF TypeOK, PassType, RowType, ToldSound, Deep, Truth
<1>6. NoVerdictLost'
  BY PassRecords DEF TypeOK, PassType, RowType, NoVerdictLost, PassSound, VerdictSound
<1>7. QED
  BY <1>1, <1>2, <1>3, <1>4, <1>5, <1>6

\* The invariant is kept by FeeCallback.
LEMMA FeeCallbackIInv ==
  ASSUME IInv, FeeCallback
  PROVE  IInv'
<1> USE DEF IInv, Verdicts
<1> DEFINE d == PayerOf(pass.cur)
<1>u. UNCHANGED <<client, feeOn, ok, tip, seen, height, wr, late, handler, told, faults>>
  BY DEF FeeCallback, config, chain
<1>0. pass \in PassType /\ pass.pc = "send" /\ pass.sats /\ pass.cur \in Fees
  BY DEF FeeCallback, TypeOK
<1>v. /\ pass.verdict = wr[pass.cur] /\ pass.verdict = Truth(pass.cur)
      /\ pass.verdict \in Verdicts /\ Deep(pass.cur)
  BY <1>0 DEF PassSound, VerdictSound
<1>d. /\ d \in Deposits /\ FeeOf[d] = pass.cur /\ handler[d] = "done" /\ row[d].mode = "btc"
      /\ \A e \in Deposits : FeeOf[e] = pass.cur => e = d
  BY <1>0, <1>v, PayerFound
<1> HIDE DEF d
<1>c. \/ EndPass /\ pass.verdict # "Confirmed"
      \/ pass' = [pass EXCEPT !.pc = "watch"] /\ pass.verdict = "Confirmed"
  BY DEF FeeCallback
<1>r. /\ row' \in [Deposits -> RowType]
      /\ \A e \in Deposits : /\ row'[e].conf = row[e].conf /\ row'[e].mode = row[e].mode
                             /\ row'[e].fee = IF e = d THEN pass.verdict ELSE row[e].fee
  <2>1. row' = [row EXCEPT ![d].fee = pass.verdict] /\ row \in [Deposits -> RowType]
    BY DEF FeeCallback, d, TypeOK
  <2>2. [row[d] EXCEPT !.fee = pass.verdict] \in RowType
    BY <1>d, <1>v, <2>1 DEF RowType
  <2>3. QED
    BY <1>d, <2>1, <2>2 DEF RowType
<1>p. \/ /\ pass.verdict # "Confirmed" /\ pass'.pc = "sleep" /\ pass'.cur = None
         /\ pass'.tip = 0 /\ pass'.todo = {}
      \/ /\ pass.verdict = "Confirmed" /\ pass'.pc = "watch" /\ pass'.cur = pass.cur
         /\ pass'.tip = pass.tip /\ pass'.todo = pass.todo
         /\ pass'.verdict = pass.verdict /\ pass'.sats = pass.sats
  <2>1. CASE EndPass /\ pass.verdict # "Confirmed"
    BY <2>1, PassRecords
  <2>2. CASE pass' = [pass EXCEPT !.pc = "watch"] /\ pass.verdict = "Confirmed"
    BY <1>0, <2>2 DEF PassType
  <2>3. QED
    BY <1>c, <2>1, <2>2
<1>1. TypeOK'
  <2>1. pass' \in PassType
    BY <1>0, <1>c, PassRecords DEF PassType
  <2>2. QED
    BY <1>u, <1>r, <2>1 DEF TypeOK
<1>2. PassSound'
  <2>1. 0 <= tip
    BY ConstantsAssumption DEF TypeOK
  <2>2. VerdictSound' \/ pass'.pc = "sleep"
    BY <1>u, <1>0, <1>v, <1>p DEF VerdictSound, Deep, Truth
  <2>3. QED
    BY <1>u, <1>0, <1>v, <1>d, <1>r, <1>p, <2>1, <2>2 DEF PassSound
<1>3. FeeFirst'
  BY <1>u, <1>v, <1>d, <1>r DEF FeeFirst, Deep, Truth
<1>4. FeeOwned'
  BY <1>u, <1>r DEF FeeOwned
<1>5. ToldSound'
  BY <1>u, <1>r DEF ToldSound, Deep, Truth
<1>6. NoVerdictLost'
  <2>1. pass.verdict # "Confirmed" => wr[FeeOf[d]] # "Confirmed"
    BY <1>v, <1>d
  <2>2. \A e \in Deposits : pass.cur # e
    BY <1>0, ConstantsAssumption
  <2>3. QED
    BY <1>u, <1>d, <1>r, <1>p, <2>1, <2>2 DEF NoVerdictLost
<1>7. QED
  BY <1>1, <1>2, <1>3, <1>4, <1>5, <1>6

\* The invariant is kept by FeeCallbackWatch.
LEMMA FeeCallbackWatchIInv ==
  ASSUME IInv, FeeCallbackWatch
  PROVE  IInv'
<1> USE ConstantsAssumption DEF IInv, FeeCallbackWatch, AddRequest, config, chain, Outs, Verdicts
<1> DEFINE d == PayerOf(pass.cur)
<1>0. /\ d \in Deposits /\ FeeOf[d] = pass.cur /\ handler[d] = "done" /\ row[d].mode = "btc"
      /\ row[d].fee = "Confirmed" /\ Deep(pass.cur) /\ ok[pass.cur]
      /\ \A e \in Deposits : FeeOf[e] = pass.cur => e = d
  BY PayerFound DEF PassSound, VerdictSound, TypeOK, PassType, Truth
<1> HIDE DEF d
<1>1. TypeOK'
  BY <1>0, PassRecords DEF d, TypeOK, PassType
<1>2. PassSound'
  BY <1>0, PassRecords DEF d, TypeOK, PassType, PassSound
<1>3. FeeFirst'
  BY <1>0 DEF d, TypeOK, FeeFirst, Deep
<1>4. FeeOwned'
  BY <1>0 DEF d, TypeOK, FeeOwned
<1>5. ToldSound'
  BY <1>0 DEF d, TypeOK, ToldSound, Deep, Truth
<1>6. NoVerdictLost'
  BY <1>0, PassRecords DEF TypeOK, PassType, RowType, NoVerdictLost, PassSound, d
<1>7. QED
  BY <1>1, <1>2, <1>3, <1>4, <1>5, <1>6

\* The invariant is kept by DepositCallback.
LEMMA DepositCallbackIInv ==
  ASSUME IInv, DepositCallback
  PROVE  IInv'
<1> USE ConstantsAssumption DEF IInv, DepositCallback, config, chain, Outs, Verdicts
<1>1. TypeOK'
  BY DEF TypeOK, PassType, RowType
<1>2. PassSound'
  BY DEF TypeOK, PassType, RowType, PassSound, VerdictSound, Deep, Truth, FeeFirst
<1>3. FeeFirst'
  BY DEF TypeOK, RowType, FeeFirst, Deep
<1>4. FeeOwned'
  BY DEF TypeOK, PassType, RowType, FeeOwned
<1>5. ToldSound'
  BY DEF TypeOK, PassType, RowType, ToldSound, Deep, Truth, PassSound, VerdictSound
<1>6. NoVerdictLost'
  BY DEF TypeOK, PassType, RowType, NoVerdictLost
<1>7. QED
  BY <1>1, <1>2, <1>3, <1>4, <1>5, <1>6

\* The invariant is kept by NotifyGateway.
LEMMA NotifyGatewayIInv ==
  ASSUME IInv, NotifyGateway
  PROVE  IInv'
<1> USE DEF IInv, Verdicts
<1> DEFINE d == pass.cur
<1>u. UNCHANGED <<client, feeOn, ok, tip, seen, height, wr, late, row, handler, faults>>
  BY DEF NotifyGateway, config, chain
<1>0. /\ d \in Deposits /\ row[d].conf = pass.verdict /\ pass.verdict = wr[d]
      /\ pass.verdict = Truth(d) /\ pass.verdict \in Verdicts /\ Deep(d)
  BY DEF NotifyGateway, PassSound, VerdictSound
<1>t. /\ told \in [Deposits -> {"none"} \cup Verdicts]
      /\ told' = [told EXCEPT ![d] = pass.verdict]
  BY DEF TypeOK, NotifyGateway
<1>p. /\ pass'.pc = "next" /\ pass'.cur = None /\ pass'.tip = 0 /\ pass'.todo = pass.todo
      /\ pass' \in PassType
  BY PassRecords DEF NotifyGateway
<1> HIDE DEF d
<1>1. TypeOK'
  BY <1>u, <1>0, <1>t, <1>p DEF TypeOK
<1>2. PassSound'
  <2>1. 0 <= tip
    BY ConstantsAssumption DEF TypeOK
  <2>2. QED
    BY <1>u, <1>p, <2>1 DEF PassSound
<1>3. FeeFirst' /\ FeeOwned'
  BY <1>u DEF FeeFirst, FeeOwned, Deep
<1>4. ToldSound'
  <2>1. wr[d] # "absent"
    BY <1>0
  <2>2. QED
    BY <1>u, <1>0, <1>t, <2>1 DEF ToldSound, Deep, Truth
<1>5. NoVerdictLost'
  <2>1. \A e \in Deposits : FeeOf[e] # d
    BY <1>0, ConstantsAssumption
  <2>2. \A e \in Deposits : e # d => told'[e] = told[e]
    BY <1>0, <1>t
  <2>3. told'[d] = wr[d]
    BY <1>0, <1>t
  <2>4. QED
    BY <1>u, <2>1, <2>2, <2>3 DEF NoVerdictLost, d
<1>6. QED
  BY <1>1, <1>2, <1>3, <1>4, <1>5

-----------------------------------------------------------------------------
(* The theorems.                                                           *)

\* Every step of the chain, the verifier and the indexer keeps the invariant.
LEMMA NextIInv == IInv /\ [Next]_vars => IInv'
<1> SUFFICES ASSUME IInv, [Next]_vars PROVE IInv'
  OBVIOUS
<1>1. CASE Chain
  BY <1>1, BroadcastIInv, MineBlockIInv, ReorgIInv, ExpireIInv DEF Chain
<1>2. ASSUME NEW d \in Deposits, WatchRunesDeposit(d) \/ HandlerErr(d) PROVE IInv'
  BY <1>2, InsertDepositAddrInfoIInv, WatchBtcFeeIInv, VerifySparkFeeIInv, WatchDepositIInv,
     HandlerErrIInv DEF WatchRunesDeposit
<1>3. CASE Indexer
  BY <1>3, StartPassIInv, NextRequestIInv, LookupErrIInv, LookupNoneIInv, LookupSomeIInv,
     UpdateWatchRequestStatusIInv, CallbackRefusedIInv, FeeCallbackIInv, FeeCallbackWatchIInv,
     DepositCallbackIInv, NotifyGatewayIInv DEF Indexer
<1>4. CASE PassErr
  BY <1>4, PassErrIInv
<1>5. CASE UNCHANGED vars
  BY <1>5 DEF vars, config, chain, IInv, TypeOK, PassSound, VerdictSound, FeeFirst, FeeOwned,
              ToldSound, NoVerdictLost, Deep, Truth
<1>6. QED
  BY <1>1, <1>2, <1>3, <1>4, <1>5 DEF Next

\* IInv holds in every reachable state.
LEMMA InductiveInvariance == Spec => []IInv
BY InitIInv, NextIInv, PTL DEF Spec

\* Type correctness of the verifier, the indexer's loop and the chain.
THEOREM TypeCorrect == Spec => []TypeOK
<1>1. IInv => TypeOK
  BY DEF IInv
<1>2. QED
  BY <1>1, InductiveInvariance, PTL

\* A verdict the verifier passes on to the gateway is right for good: no
\* reorganisation of up to Delta blocks, failed lookup or timeout makes it wrong.
THEOREM ReportsAreSound == Spec => []ReportSound
<1>1. IInv => ReportSound
  BY DEF IInv, ReportSound, ToldSound, FeeFirst, Deep, Truth
<1>2. QED
  BY <1>1, InductiveInvariance, PTL

\* The verifier's row says what the gateway was told, although the UPDATE may
\* hit no row and the notification is sent all the same.
THEOREM RowsMatchReports == Spec => []RowMatchesReport
<1>1. IInv => RowMatchesReport
  BY DEF IInv, RowMatchesReport, ToldSound
<1>2. QED
  BY <1>1, InductiveInvariance, PTL

\* Without an error, no verdict the indexer has stored is lost on its way,
\* except the failure of a late request.
THEOREM NoVerdictIsLost == Spec => []NoVerdictLost
<1>1. IInv => NoVerdictLost
  BY DEF IInv
<1>2. QED
  BY <1>1, InductiveInvariance, PTL
=============================================================================
