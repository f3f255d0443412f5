-------------------------- MODULE FrostDkg_proofs --------------------------
(***************************************************************************)
(* IInv is an inductive invariant of FrostDkg for every set of signers,    *)
(* shares and flows and every number of faults; with it the agreement on   *)
(* finalized keys, the exclusion past round 1 and the absence of regress.  *)
(***************************************************************************)
EXTENDS FrostDkg, TLAPS

\* Nothing has happened to any share.
LEMMA InitIInv == Init => IInv
<1> SUFFICES ASSUME Init PROVE IInv
  OBVIOUS
<1> USE DkgAssumption DEF Init
<1>1. NoVector \in Vector
  BY DEF NoVector, Vector
<1>2. TypeOK
  BY <1>1 DEF TypeOK, AggType, SignerType, FlowType, FlowPC, AnswerType, NoAnswer
<1>3. HandlerHoldsLock /\ FlowHasShare /\ OwnsOk /\ SentOk /\ AnsweredOk
  BY DEF HandlerHoldsLock, FlowHasShare, OwnsOk, SentOk, AnsweredOk, Working, NoAnswer
<1>4. SignerOk /\ AggOk
  BY DEF SignerOk, AggOk
<1>5. QED
  BY <1>2, <1>3, <1>4 DEF IInv

-----------------------------------------------------------------------------
(* Types.                                                                  *)

\* The components of the type invariant.
LEMMA Types ==
  ASSUME IInv
  PROVE  /\ agg \in [Shares -> AggType]
         /\ signer \in [Verifiers -> [Shares -> SignerType]]
         /\ lock \in [Verifiers -> SUBSET Shares]
         /\ flow \in [Flows -> FlowType]
         /\ answer \in [Flows -> [Verifiers -> AnswerType]]
         /\ faults \in 0..MaxFaults
         /\ NoVector \in Vector
         /\ \A f \in Flows : flow[f].pc # "idle" => flow[f].share \in Shares
<1>1. \A f \in Flows : flow[f].pc # "idle" => flow[f].share \in Shares
  BY DEF IInv, TypeOK, FlowHasShare, FlowType
<1>2. QED
  BY <1>1 DEF IInv, TypeOK, NoVector, Vector

\* Replacing one answer.
LEMMA AnswerUpdate ==
  ASSUME answer \in [Flows -> [Verifiers -> AnswerType]],
         NEW f \in Flows, NEW v \in Verifiers, NEW x \in AnswerType,
         answer' = [answer EXCEPT ![f][v] = x]
  PROVE  /\ answer' \in [Flows -> [Verifiers -> AnswerType]]
         /\ answer'[f][v] = x
         /\ \A g \in Flows, w \in Verifiers :
              ~(g = f /\ w = v) => answer'[g][w] = answer[g][w]
OBVIOUS

\* The answers a signer gives without a value.
LEMMA PlainAnswer ==
  ASSUME IInv, NEW f \in Flows, NEW v \in Verifiers, NEW st \in {"locked", "fresh", "err"},
         Answer(f, v, st, None, NoVector)
  PROVE  /\ answer' \in [Flows -> [Verifiers -> AnswerType]]
         /\ answer'[f][v].st = st
         /\ \A g \in Flows, w \in Verifiers :
              ~(g = f /\ w = v) => answer'[g][w] = answer[g][w]
<1> DEFINE x == Answered(st, None, NoVector)
<1>1. NoVector \in Vector /\ answer \in [Flows -> [Verifiers -> AnswerType]]
  BY Types
<1>2. x \in AnswerType /\ x.st = st
  BY <1>1 DEF AnswerType, Answered
<1>3. answer' = [answer EXCEPT ![f][v] = x]
  BY DEF Answer
<1> HIDE DEF x
<1>4. QED
  BY <1>1, <1>2, <1>3, AnswerUpdate

\* The four ways a flow's record changes.
LEMMA FlowRecord ==
  ASSUME NEW y \in FlowType, NEW p \in FlowPC, NEW n \in 0..3, NEW s \in Shares,
         NEW a \in Vector, NEW b \in Vector
  PROVE  /\ [y EXCEPT !.pc = p] \in FlowType
         /\ [y EXCEPT !.pc = p, !.round = n] \in FlowType
         /\ [y EXCEPT !.pc = p, !.r1 = a, !.r2 = b] \in FlowType
         /\ [y EXCEPT !.share = s, !.pc = p, !.round = n] \in FlowType
BY DEF FlowType

\* Replacing one flow record.
LEMMA FlowUpdate ==
  ASSUME flow \in [Flows -> FlowType], NEW f \in Flows, NEW x \in FlowType,
         flow' = [flow EXCEPT ![f] = x]
  PROVE  /\ flow' \in [Flows -> FlowType]
         /\ flow'[f] = x
         /\ \A g \in Flows : g # f => flow'[g] = flow[g]
OBVIOUS

\* Replacing one aggregator row.
LEMMA AggUpdate ==
  ASSUME agg \in [Shares -> AggType], NEW s \in Shares, NEW x \in AggType,
         agg' = [agg EXCEPT ![s] = x]
  PROVE  /\ agg' \in [Shares -> AggType]
         /\ agg'[s] = x
         /\ \A t \in Shares : t # s => agg'[t] = agg[t]
OBVIOUS

\* Replacing one signer's row.
LEMMA SignerUpdate ==
  ASSUME signer \in [Verifiers -> [Shares -> SignerType]],
         NEW v \in Verifiers, NEW s \in Shares, NEW x \in SignerType,
         signer' = [signer EXCEPT ![v][s] = x]
  PROVE  /\ signer' \in [Verifiers -> [Shares -> SignerType]]
         /\ signer'[v][s] = x
         /\ \A w \in Verifiers, t \in Shares :
              ~(w = v /\ t = s) => signer'[w][t] = signer[w][t]
OBVIOUS

\* Two flows of a share cannot both own a signer's row.
LEMMA OwnerUnique ==
  ASSUME IInv, NEW f \in Flows, NEW g \in Flows, flow[f].share = flow[g].share,
         \A v \in Verifiers : Owns(f, v), \A v \in Verifiers : Owns(g, v)
  PROVE  f = g
<1>1. PICK v \in Verifiers : TRUE
  BY DkgAssumption
<1>2. QED
  BY <1>1 DEF Owns

-----------------------------------------------------------------------------
(* Steps of the aggregator.                                                *)

\* The invariant is kept when run_dkg_flow is called.
LEMMA RunDkgFlowIInv ==
  ASSUME IInv, NEW f \in Flows, NEW s \in Shares, RunDkgFlow(f, s)
  PROVE  IInv'
<1> DEFINE p == IF agg[s].st = "Initialized" THEN "read" ELSE "refused"
           x == [flow[f] EXCEPT !.share = s, !.pc = p, !.round = 1]
<1>1. flow[f] \in FlowType /\ flow \in [Flows -> FlowType]
  BY Types
<1>p. p \in {"read", "refused"} /\ p \in FlowPC
  BY DEF FlowPC
<1>4. flow' = [flow EXCEPT ![f] = x] /\ UNCHANGED <<agg, signer, lock, answer, faults>>
  BY DEF RunDkgFlow
<1> HIDE DEF p
<1>2. x \in FlowType
  <2>1. NoVector \in Vector /\ 1 \in 0..3
    BY Types
  <2>2. QED
    BY <1>1, <1>p, <2>1, FlowRecord
<1>3. /\ x.share = s /\ x.pc \in {"read", "refused"} /\ x.round = 1
      /\ flow[f].pc = "idle"
  BY <1>1, <1>p DEF FlowType, RunDkgFlow
<1> HIDE DEF x
<1>5. /\ flow' \in [Flows -> FlowType] /\ flow'[f] = x
      /\ \A g \in Flows : g # f => flow'[g] = flow[g]
  BY <1>1, <1>2, <1>4, FlowUpdate
<1>6. TypeOK'
  BY <1>4, <1>5 DEF IInv, TypeOK
<1>7. \A v \in Verifiers : answer[f][v].st = "none"
  BY <1>3 DEF IInv, FlowHasShare
<1>8. HandlerHoldsLock'
  BY <1>4, <1>5, <1>7 DEF IInv, HandlerHoldsLock, Working
<1>9. FlowHasShare'
  BY <1>3, <1>4, <1>5, DkgAssumption DEF IInv, FlowHasShare
<1>10. OwnsOk'
  BY <1>3, <1>4, <1>5, <1>7 DEF IInv, OwnsOk, Owns
<1>11. SentOk' /\ AnsweredOk' /\ SignerOk'
  BY <1>3, <1>4, <1>5, <1>7 DEF IInv, SentOk, AnsweredOk, SignerOk
<1>12. AggOk'
  <2> SUFFICES ASSUME NEW t \in Shares, agg[t].st # "Initialized"
               PROVE  \E g \in Flows : RunOf(t, g)'
    BY <1>4 DEF AggOk
  <2>1. PICK g \in Flows : RunOf(t, g)
    BY DEF IInv, AggOk
  <2>2. g # f
    BY <2>1, <1>3 DEF IInv, FlowHasShare, RunOf
  <2>3. RunOf(t, g)'
    BY <2>1, <2>2, <1>4, <1>5 DEF RunOf
  <2>4. QED
    BY <2>3
<1>13. QED
  BY <1>6, <1>8, <1>9, <1>10, <1>11, <1>12 DEF IInv
\* The invariant is kept when a flow ends without a key.
LEMMA FlowEndsIInv ==
  ASSUME IInv, NEW f \in Flows, NEW p \in {"failed", "refused"},
         flow[f].pc \in {"read", "calls"}, p = "failed" => flow[f].pc = "calls",
         flow' = [flow EXCEPT ![f].pc = p],
         faults' \in 0..MaxFaults,
         UNCHANGED <<agg, signer, lock, answer>>
  PROVE  IInv'
<1> DEFINE x == [flow[f] EXCEPT !.pc = p]
<1>1. flow[f] \in FlowType /\ flow \in [Flows -> FlowType]
  BY Types
<1>2. x \in FlowType
  <2>1. NoVector \in Vector /\ p \in FlowPC /\ 1 \in 0..3 /\ flow[f].share \in Shares
    BY Types DEF FlowPC
  <2>2. QED
    BY <1>1, <2>1, FlowRecord
<1>3. /\ x.share = flow[f].share /\ x.round = flow[f].round /\ x.pc = p
      /\ x.r1 = flow[f].r1 /\ x.r2 = flow[f].r2
  BY <1>1 DEF FlowType
<1>4. flow' = [flow EXCEPT ![f] = x]
  OBVIOUS
<1> HIDE DEF x
<1>5. /\ flow' \in [Flows -> FlowType] /\ flow'[f] = x
      /\ \A g \in Flows : g # f => flow'[g] = flow[g]
  BY <1>1, <1>2, <1>4, FlowUpdate
<1>6. TypeOK'
  BY <1>5 DEF IInv, TypeOK
<1>7. \A g \in Flows : flow'[g].share = flow[g].share /\ flow'[g].round = flow[g].round
  BY <1>3, <1>5
<1>8. HandlerHoldsLock' /\ FlowHasShare' /\ OwnsOk'
  BY <1>3, <1>5, <1>7 DEF IInv, HandlerHoldsLock, Working, FlowHasShare, OwnsOk, Owns
<1>9. SentOk'
  BY <1>3, <1>5 DEF IInv, SentOk
<1>10. AnsweredOk' /\ SignerOk'
  BY <1>3, <1>5, <1>7 DEF IInv, AnsweredOk, SignerOk
<1>11. AggOk'
  <2> SUFFICES ASSUME NEW t \in Shares, agg[t].st # "Initialized"
               PROVE  \E g \in Flows : RunOf(t, g)'
    BY DEF AggOk
  <2>1. PICK g \in Flows : RunOf(t, g)
    BY DEF IInv, AggOk
  <2>2. RunOf(t, g)'
    BY <2>1, <1>5, <1>7 DEF RunOf
  <2>3. QED
    BY <2>2
<1>12. QED
  BY <1>6, <1>8, <1>9, <1>10, <1>11 DEF IInv

\* The flow past round 1 whose run the row records is unique.
LEMMA RunOfUnique ==
  ASSUME IInv, NEW f \in Flows, flow[f].pc # "idle",
         \A v \in Verifiers : Owns(f, v),
         agg[flow[f].share].st # "Initialized"
  PROVE  RunOf(flow[f].share, f)
<1>1. flow[f].share \in Shares
  BY Types
<1>2. PICK g \in Flows : RunOf(flow[f].share, g)
  BY <1>1 DEF IInv, AggOk
<1>3. \A v \in Verifiers : Owns(g, v)
  BY <1>2 DEF IInv, OwnsOk, RunOf
<1>4. g = f
  BY <1>2, <1>3, OwnerUnique DEF RunOf
<1>5. QED
  BY <1>2, <1>4

\* The invariant is kept by StartRound; what the flow reads is its own run's.
LEMMA StartRoundIInv ==
  ASSUME IInv, NEW f \in Flows, StartRound(f)
  PROVE  IInv'
<1> DEFINE row == agg[flow[f].share]
           x == [flow[f] EXCEPT !.pc = "calls", !.r1 = row.r1, !.r2 = row.r2]
<1>1. /\ flow[f] \in FlowType /\ flow \in [Flows -> FlowType]
      /\ flow[f].share \in Shares /\ row \in AggType
      /\ flow[f].pc = "read" /\ faults \in 0..MaxFaults
  BY Types DEF StartRound
<1>2. CASE row.st # StateBefore[flow[f].round]
  BY <1>1, <1>2, FlowEndsIInv DEF StartRound
<1>3. CASE row.st = StateBefore[flow[f].round]
  <2>1. x \in FlowType
    <3>1. row.r1 \in Vector /\ row.r2 \in Vector
      BY <1>1 DEF AggType
    <3>2. "calls" \in FlowPC /\ 1 \in 0..3
      BY DEF FlowPC
    <3> HIDE DEF row
    <3>3. QED
      BY <1>1, <3>1, <3>2, FlowRecord
  <2>2. /\ x.share = flow[f].share /\ x.round = flow[f].round /\ x.pc = "calls"
        /\ x.r1 = row.r1 /\ x.r2 = row.r2
    BY <1>1 DEF FlowType
  <2>3. /\ flow' = [flow EXCEPT ![f] = x]
        /\ answer' = [answer EXCEPT ![f] = [v \in Verifiers |-> NoAnswer]]
        /\ UNCHANGED <<agg, signer, lock, faults>>
    BY <1>3 DEF StartRound
  <2> HIDE DEF x
  <2>4. /\ flow' \in [Flows -> FlowType] /\ flow'[f] = x
        /\ \A g \in Flows : g # f => flow'[g] = flow[g]
    BY <1>1, <2>1, <2>3, FlowUpdate
  <2>5. \A g \in Flows : flow'[g].share = flow[g].share /\ flow'[g].round = flow[g].round
    BY <2>2, <2>4
  <2>6. /\ answer' \in [Flows -> [Verifiers -> AnswerType]]
        /\ \A v \in Verifiers : answer'[f][v].st = "none"
        /\ \A g \in Flows : g # f => answer'[g] = answer[g]
    <3>1. NoAnswer \in AnswerType /\ NoAnswer.st = "none"
      BY Types DEF NoAnswer, AnswerType
    <3>2. answer \in [Flows -> [Verifiers -> AnswerType]]
      BY Types
    <3>3. [v \in Verifiers |-> NoAnswer] \in [Verifiers -> AnswerType]
      BY <3>1
    <3>4. QED
      BY <3>1, <3>2, <3>3, <2>3
  <2>7. TypeOK'
    BY <2>3, <2>4, <2>6 DEF IInv, TypeOK
  <2>8. HandlerHoldsLock' /\ FlowHasShare' /\ OwnsOk'
    BY <1>1, <2>2, <2>3, <2>4, <2>5, <2>6
       DEF IInv, HandlerHoldsLock, Working, FlowHasShare, OwnsOk, Owns
  <2>9. SentOk'
    <3>1. ASSUME flow[f].round > 1
          PROVE  /\ flow[f].round = 2 => row.r1 = Same(f)
                 /\ flow[f].round = 3 => row.r2 = Same(f)
      <4>1. \A v \in Verifiers : Owns(f, v)
        BY <3>1 DEF IInv, OwnsOk
      <4>2. flow[f].round \in {2, 3}
        BY <1>1, <3>1 DEF FlowType
      <4>3. /\ flow[f].round = 2 => row.st = "DkgRound1"
            /\ flow[f].round = 3 => row.st = "DkgRound2"
        BY <1>3, <4>2 DEF StateBefore
      <4>4. RunOf(flow[f].share, f)
        BY <1>1, <4>1, <4>2, <4>3, RunOfUnique
      <4>5. QED
        BY <4>3, <4>4 DEF RunOf
    <3>2. QED
      BY <3>1, <2>2, <2>4 DEF IInv, SentOk
  <2>10. AnsweredOk' /\ SignerOk'
    BY <2>3, <2>4, <2>6 DEF IInv, AnsweredOk, SignerOk
  <2>11. AggOk'
    <3> SUFFICES ASSUME NEW t \in Shares, agg[t].st # "Initialized"
                 PROVE  \E g \in Flows : RunOf(t, g)'
      BY <2>3 DEF AggOk
    <3>1. PICK g \in Flows : RunOf(t, g)
      BY DEF IInv, AggOk
    <3>2. RunOf(t, g)'
      BY <1>1, <3>1, <2>3, <2>4, <2>5 DEF RunOf
    <3>3. QED
      BY <3>2
  <2>12. QED
    BY <2>7, <2>8, <2>9, <2>10, <2>11 DEF IInv
<1>4. QED
  BY <1>2, <1>3
\* The invariant is kept when a flow whose calls all succeeded stores a row.
LEMMA JoinIInv ==
  ASSUME IInv, NEW f \in Flows, NEW p \in {"read", "done"}, NEW n \in 2..3, NEW y \in AggType,
         flow[f].pc = "calls", AllOk(f), \A v \in Verifiers : Owns(f, v),
         flow' = [flow EXCEPT ![f] = [flow[f] EXCEPT !.pc = p, !.round = n]],
         agg' = [agg EXCEPT ![flow[f].share] = y],
         UNCHANGED <<signer, lock, answer, faults>>,
         y.st = "DkgRound1" => y.r1 = Same(f),
         y.st = "DkgRound2" => y.r2 = Same(f) /\ n = 3,
         y.st = "DkgFinalized" =>
           /\ y.key = Same(f) /\ p = "done"
           /\ \A v \in Verifiers : signer[v][flow[f].share].st = "DkgFinalized"
  PROVE  IInv'
<1> DEFINE x == [flow[f] EXCEPT !.pc = p, !.round = n]
           s == flow[f].share
<1>1. /\ flow[f] \in FlowType /\ flow \in [Flows -> FlowType]
      /\ s \in Shares /\ agg \in [Shares -> AggType]
  BY Types
<1>2. x \in FlowType
  <2>1. NoVector \in Vector /\ p \in FlowPC /\ n \in 0..3
    BY Types DEF FlowPC
  <2>2. QED
    BY <1>1, <2>1, FlowRecord
<1>3. x.share = s /\ x.round = n /\ x.pc = p
  BY <1>1 DEF FlowType
<1>4. flow' = [flow EXCEPT ![f] = x] /\ agg' = [agg EXCEPT ![s] = y]
  OBVIOUS
<1> HIDE DEF x
<1>5. /\ flow' \in [Flows -> FlowType] /\ flow'[f] = x
      /\ \A g \in Flows : g # f => flow'[g] = flow[g]
  BY <1>1, <1>2, <1>4, FlowUpdate
<1>6. /\ agg' \in [Shares -> AggType] /\ agg'[s] = y
      /\ \A t \in Shares : t # s => agg'[t] = agg[t]
  BY <1>1, <1>4, AggUpdate
<1>7. TypeOK'
  BY <1>5, <1>6 DEF IInv, TypeOK
<1>8. \A g \in Flows : flow'[g].share = flow[g].share
  BY <1>3, <1>5
<1> HIDE DEF s
<1>9. HandlerHoldsLock'
  <2>1. \A v \in Verifiers : ~Working(f, v)
    BY DEF AllOk, Working
  <2>2. QED
    BY <2>1, <1>5, <1>8 DEF IInv, HandlerHoldsLock, Working
<1>10. FlowHasShare'
  BY <1>3, <1>5, <1>8 DEF IInv, FlowHasShare
<1>11. OwnsOk'
  BY <1>3, <1>5, <1>8 DEF IInv, OwnsOk, Owns
<1>12. SentOk' /\ AnsweredOk' /\ SignerOk'
  BY <1>3, <1>5 DEF IInv, SentOk, AnsweredOk, SignerOk
<1>13. AggOk'
  <2> SUFFICES ASSUME NEW t \in Shares, agg'[t].st # "Initialized"
               PROVE  \E g \in Flows : RunOf(t, g)'
    BY DEF AggOk
  <2>1. CASE t = s
    <3>1. RunOf(t, f)'
      BY <2>1, <1>3, <1>5, <1>6 DEF RunOf, s
    <3>2. QED
      BY <3>1
  <2>2. CASE t # s
    <3>1. PICK g \in Flows : RunOf(t, g)
      BY <2>2, <1>6 DEF IInv, AggOk
    <3>2. g # f
      BY <3>1, <2>2 DEF RunOf, s
    <3>3. RunOf(t, g)'
      BY <3>1, <3>2, <2>2, <1>5, <1>6 DEF RunOf
    <3>4. QED
      BY <3>3
  <2>3. QED
    BY <2>1, <2>2
<1>14. QED
  BY <1>7, <1>9, <1>10, <1>11, <1>12, <1>13 DEF IInv

\* The invariant is kept by JoinRound1.
LEMMA JoinRound1IInv ==
  ASSUME IInv, NEW f \in Flows, JoinRound1(f)
  PROVE  IInv'
<1> DEFINE y == [st |-> "DkgRound1", r1 |-> Values(f), r2 |-> NoVector, key |-> NoVector]
<1>1. \A v \in Verifiers : Owns(f, v) /\ answer[f][v].val = f
  BY DEF IInv, OwnsOk, JoinRound1, AllOk
<1>2. Values(f) = Same(f) /\ Values(f) \in Vector
  BY <1>1 DEF Values, Same, Vector
<1>3. y \in AggType
  BY <1>2, Types DEF AggType
<1>4. y.st = "DkgRound1" /\ y.r1 = Same(f) /\ 2 \in 2..3
  BY <1>2
<1>5. /\ flow[f].pc = "calls" /\ AllOk(f)
      /\ flow' = [flow EXCEPT ![f] = [flow[f] EXCEPT !.pc = "read", !.round = 2]]
      /\ agg' = [agg EXCEPT ![flow[f].share] = y]
      /\ UNCHANGED <<signer, lock, answer, faults>>
  BY DEF JoinRound1
<1> HIDE DEF y
<1>6. QED
  BY <1>1, <1>3, <1>4, <1>5, JoinIInv

\* The invariant is kept by JoinRound2.
LEMMA JoinRound2IInv ==
  ASSUME IInv, NEW f \in Flows, JoinRound2(f)
  PROVE  IInv'
<1> DEFINE y == [st |-> "DkgRound2", r1 |-> flow[f].r1, r2 |-> Values(f), key |-> NoVector]
<1>1. \A v \in Verifiers : Owns(f, v) /\ answer[f][v].val = f
  BY DEF IInv, OwnsOk, AnsweredOk, JoinRound2, AllOk
<1>2. Values(f) = Same(f) /\ Values(f) \in Vector
  BY <1>1 DEF Values, Same, Vector
<1>3. y \in AggType
  <2>1. flow[f].r1 \in Vector
    BY Types DEF FlowType
  <2>2. QED
    BY <1>2, <2>1, Types DEF AggType
<1>4. y.st = "DkgRound2" /\ y.r2 = Same(f) /\ 3 \in 2..3
  BY <1>2
<1>5. /\ flow[f].pc = "calls" /\ AllOk(f)
      /\ flow' = [flow EXCEPT ![f] = [flow[f] EXCEPT !.pc = "read", !.round = 3]]
      /\ agg' = [agg EXCEPT ![flow[f].share] = y]
      /\ UNCHANGED <<signer, lock, answer, faults>>
  BY DEF JoinRound2
<1> HIDE DEF y
<1>6. QED
  BY <1>1, <1>3, <1>4, <1>5, JoinIInv

\* The invariant is kept by JoinFinalize: the keys are the same.
LEMMA JoinFinalizeIInv ==
  ASSUME IInv, NEW f \in Flows, JoinFinalize(f)
  PROVE  IInv'
<1>1. flow[f].pc = "calls" /\ flow[f].round = 3 /\ AllOk(f)
  BY DEF JoinFinalize
<1>2. \A v \in Verifiers : /\ Owns(f, v) /\ answer[f][v].key = Same(f)
                           /\ signer[v][flow[f].share].st = "DkgFinalized"
  <2> SUFFICES ASSUME NEW v \in Verifiers
               PROVE  /\ Owns(f, v) /\ answer[f][v].key = Same(f)
                      /\ signer[v][flow[f].share].st = "DkgFinalized"
    OBVIOUS
  <2>1. flow[f].round > 1 /\ answer[f][v].st = "ok"
    BY <1>1 DEF AllOk
  <2>2. Owns(f, v)
    BY <2>1 DEF IInv, OwnsOk
  <2>3. QED
    BY <1>1, <2>1, <2>2 DEF IInv, AnsweredOk
<1>3. SameKey(f)
  BY <1>2 DEF SameKey
<1>4. PICK v \in Verifiers :
        agg' = [agg EXCEPT ![flow[f].share] =
                  [st |-> "DkgFinalized", r1 |-> NoVector, r2 |-> NoVector,
                   key |-> answer[f][v].key]]
  BY <1>3 DEF JoinFinalize
<1> DEFINE y == [st |-> "DkgFinalized", r1 |-> NoVector, r2 |-> NoVector, key |-> Same(f)]
<1>5. Same(f) \in Vector /\ NoVector \in Vector
  BY Types DEF Same, Vector
<1>6. y \in AggType /\ y.st = "DkgFinalized" /\ y.key = Same(f) /\ 3 \in 2..3
  BY <1>5 DEF AggType
<1>7. agg' = [agg EXCEPT ![flow[f].share] = y]
  BY <1>2, <1>4
<1>8. flow' = [flow EXCEPT ![f] = [flow[f] EXCEPT !.pc = "done", !.round = 3]]
  <2>1. flow[f] \in FlowType
    BY Types
  <2>2. [flow[f] EXCEPT !.pc = "done", !.round = 3] = [flow[f] EXCEPT !.pc = "done"]
    BY <1>1, <2>1 DEF FlowType
  <2>3. flow' = [flow EXCEPT ![f] = [flow[f] EXCEPT !.pc = "done"]]
    BY <1>3 DEF JoinFinalize
  <2>4. QED
    BY <2>2, <2>3
<1>9. UNCHANGED <<signer, lock, answer, faults>>
  BY DEF JoinFinalize
<1> HIDE DEF y
<1>10. QED
  BY <1>1, <1>2, <1>6, <1>7, <1>8, <1>9, JoinIInv

\* The invariant is kept by JoinErr and FlowErr.
LEMMA FlowErrIInv ==
  ASSUME IInv, NEW f \in Flows, JoinErr(f) \/ FlowErr(f)
  PROVE  IInv'
<1>1. faults' \in 0..MaxFaults
  BY Types, DkgAssumption DEF JoinErr, FlowErr, Fault
<1>2. CASE JoinErr(f)
  BY <1>1, <1>2, FlowEndsIInv DEF JoinErr
<1>3. CASE FlowErr(f)
  <2>1. CASE flow[f].pc = "calls"
    <3>1. flow' = [flow EXCEPT ![f].pc = "failed"]
      BY <1>3, <2>1 DEF FlowErr
    <3>2. QED
      BY <1>1, <1>3, <2>1, <3>1, FlowEndsIInv DEF FlowErr
  <2>2. CASE flow[f].pc = "read"
    <3>1. flow' = [flow EXCEPT ![f].pc = "refused"]
      BY <1>3, <2>2 DEF FlowErr
    <3>2. QED
      BY <1>1, <1>3, <2>2, <3>1, FlowEndsIInv DEF FlowErr
  <2>3. QED
    BY <1>3, <2>1, <2>2 DEF FlowErr
<1>4. QED
  BY <1>2, <1>3

-----------------------------------------------------------------------------
(* Steps of the signers.                                                   *)

\* The invariant is kept when a call ends without touching the signer's row:
\* the error answers, and the lock given back for a share that has data.
LEMMA AnswerErrIInv ==
  ASSUME IInv, NEW f \in Flows, NEW v \in Verifiers,
         flow[f].pc # "idle",
         Answer(f, v, "err", None, NoVector),
         UNCHANGED <<agg, signer, flow>>, faults' \in 0..MaxFaults,
         \/ UNCHANGED lock
         \/ /\ signer[v][flow[f].share].st # "none"
            /\ lock' = [lock EXCEPT ![v] = @ \ {flow[f].share}]
  PROVE  IInv'
<1>1. /\ answer' \in [Flows -> [Verifiers -> AnswerType]]
      /\ answer'[f][v].st = "err"
      /\ \A g \in Flows, w \in Verifiers :
           ~(g = f /\ w = v) => answer'[g][w] = answer[g][w]
  <2>1. "err" \in {"locked", "fresh", "err"}
    OBVIOUS
  <2>2. QED
    BY <2>1, PlainAnswer
<1>2. lock \in [Verifiers -> SUBSET Shares]
  BY Types
<1>3. lock' \in [Verifiers -> SUBSET Shares]
  BY <1>2
<1>4. TypeOK'
  BY <1>1, <1>3 DEF IInv, TypeOK
<1>5. HandlerHoldsLock'
  <2> SUFFICES ASSUME NEW g \in Flows, NEW w \in Verifiers, Working(g, w)'
               PROVE  /\ flow[g].round = 1
                      /\ answer'[g][w].st = "fresh" => signer[w][flow[g].share].st = "none"
                      /\ signer[w][flow[g].share].st = "none" =>
                           /\ flow[g].share \in lock'[w]
                           /\ \A h \in Flows : Working(h, w)' /\ flow[h].share = flow[g].share
                                                 => h = g
    BY DEF HandlerHoldsLock
  <2>1. ~(g = f /\ w = v) /\ Working(g, w)
    BY <1>1 DEF Working
  <2>2. \A h \in Flows : Working(h, w)' => Working(h, w)
    BY <1>1 DEF Working
  <2>3. signer[w][flow[g].share].st = "none" /\ flow[g].share \in lock[w]
          => flow[g].share \in lock'[w]
    BY <1>2
  <2>4. QED
    BY <1>1, <2>1, <2>2, <2>3 DEF IInv, HandlerHoldsLock
<1>6. FlowHasShare' /\ OwnsOk' /\ SentOk' /\ AnsweredOk' /\ SignerOk'
  BY <1>1 DEF IInv, FlowHasShare, OwnsOk, Owns, SentOk, AnsweredOk, SignerOk
<1>7. AggOk'
  BY DEF IInv, AggOk, RunOf
<1>8. QED
  BY <1>4, <1>5, <1>6, <1>7 DEF IInv

\* A call of round 1 under way belongs to a flow with a share.
LEMMA WorkingFlow ==
  ASSUME IInv, NEW f \in Flows, NEW v \in Verifiers, answer[f][v].st # "none"
  PROVE  flow[f].pc # "idle"
BY DEF IInv, FlowHasShare

\* The invariant is kept by the error ends of a call.
LEMMA CallErrIInv ==
  ASSUME IInv, NEW f \in Flows, NEW v \in Verifiers,
         SignerRound1Err(f, v) \/ CallLost(f, v)
  PROVE  IInv'
<1>1. flow[f].pc # "idle"
  <2>1. CASE SignerRound1Err(f, v)
    BY <2>1, WorkingFlow DEF SignerRound1Err
  <2>2. CASE CallLost(f, v)
    BY <2>2 DEF CallLost
  <2>3. QED
    BY <2>1, <2>2
<1>2. faults' \in 0..MaxFaults
  BY Types, DkgAssumption DEF SignerRound1Err, CallLost, Fault
<1>3. Answer(f, v, "err", None, NoVector) /\ UNCHANGED <<agg, signer, lock, flow>>
  BY DEF SignerRound1Err, CallLost
<1>4. QED
  BY <1>1, <1>2, <1>3, AnswerErrIInv

\* The invariant is kept by LockDkgShareId: for a share without data, a free
\* lock means that no handler is under way.
LEMMA LockDkgShareIdIInv ==
  ASSUME IInv, NEW f \in Flows, NEW v \in Verifiers, LockDkgShareId(f, v)
  PROVE  IInv'
<1> DEFINE s == flow[f].share
<1>1. /\ flow[f].pc # "idle" /\ flow[f].round = 1 /\ answer[f][v].st = "none"
      /\ UNCHANGED <<agg, signer, flow, faults>>
  BY DEF LockDkgShareId, Sent
<1>2. s \in Shares /\ lock \in [Verifiers -> SUBSET Shares] /\ faults \in 0..MaxFaults
  BY <1>1, Types
<1>3. CASE s \in lock[v]
  <2>1. Answer(f, v, "err", None, NoVector) /\ UNCHANGED lock
    BY <1>3 DEF LockDkgShareId
  <2>2. QED
    BY <1>1, <1>2, <2>1, AnswerErrIInv
<1>4. CASE s \notin lock[v]
  <2>1. lock' = [lock EXCEPT ![v] = @ \cup {s}] /\ Answer(f, v, "locked", None, NoVector)
    BY <1>4 DEF LockDkgShareId
  <2>2. /\ answer' \in [Flows -> [Verifiers -> AnswerType]]
        /\ answer'[f][v].st = "locked"
        /\ \A g \in Flows, w \in Verifiers :
             ~(g = f /\ w = v) => answer'[g][w] = answer[g][w]
    <3>1. "locked" \in {"locked", "fresh", "err"}
      OBVIOUS
    <3>2. QED
      BY <2>1, <3>1, PlainAnswer
  <2>3. /\ lock' \in [Verifiers -> SUBSET Shares]
        /\ s \in lock'[v]
        /\ \A w \in Verifiers : lock[w] \subseteq lock'[w]
    BY <1>2, <2>1
  <2>4. TypeOK'
    BY <1>1, <2>2, <2>3 DEF IInv, TypeOK
  <2>5. signer[v][s].st = "none" =>
          \A g \in Flows : Working(g, v) => flow[g].share # s
    BY <1>4 DEF IInv, HandlerHoldsLock
  <2>6. HandlerHoldsLock'
    <3> SUFFICES ASSUME NEW g \in Flows, NEW w \in Verifiers, Working(g, w)'
                 PROVE  /\ flow[g].round = 1
                        /\ answer'[g][w].st = "fresh" => signer[w][flow[g].share].st = "none"
                        /\ signer[w][flow[g].share].st = "none" =>
                             /\ flow[g].share \in lock'[w]
                             /\ \A h \in Flows : Working(h, w)' /\ flow[h].share = flow[g].share
                                                   => h = g
      BY <1>1 DEF HandlerHoldsLock
    <3>1. \A h \in Flows, u \in Verifiers :
            Working(h, u)' => (h = f /\ u = v) \/ Working(h, u)
      BY <2>2 DEF Working
    <3>2. CASE g = f /\ w = v
      BY <3>1, <3>2, <1>1, <2>2, <2>3, <2>5
    <3>3. CASE ~(g = f /\ w = v)
      BY <3>1, <3>3, <2>2, <2>3, <2>5 DEF IInv, HandlerHoldsLock
    <3>4. QED
      BY <3>2, <3>3
  <2>7. FlowHasShare' /\ OwnsOk' /\ SentOk' /\ AnsweredOk' /\ SignerOk'
    BY <1>1, <2>2 DEF IInv, FlowHasShare, OwnsOk, Owns, SentOk, AnsweredOk, SignerOk
  <2>8. AggOk'
    BY <1>1 DEF IInv, AggOk, RunOf
  <2>9. QED
    BY <2>4, <2>6, <2>7, <2>8 DEF IInv
<1>5. QED
  BY <1>3, <1>4

\* The invariant is kept by ReadSignerData.
LEMMA ReadSignerDataIInv ==
  ASSUME IInv, NEW f \in Flows, NEW v \in Verifiers, ReadSignerData(f, v)
  PROVE  IInv'
<1> DEFINE s == flow[f].share
<1>1. /\ flow[f].pc # "idle" /\ answer[f][v].st = "locked"
      /\ UNCHANGED <<agg, signer, flow, faults>>
  BY WorkingFlow DEF ReadSignerData
<1>2. faults \in 0..MaxFaults
  BY Types
<1>3. CASE signer[v][s].st # "none"
  <2>1. Answer(f, v, "err", None, NoVector) /\ lock' = [lock EXCEPT ![v] = @ \ {s}]
    BY <1>3 DEF ReadSignerData
  <2>2. QED
    BY <1>1, <1>2, <1>3, <2>1, AnswerErrIInv
<1>4. CASE signer[v][s].st = "none"
  <2>1. Answer(f, v, "fresh", None, NoVector) /\ UNCHANGED lock
    BY <1>4 DEF ReadSignerData
  <2>2. /\ answer' \in [Flows -> [Verifiers -> AnswerType]]
        /\ answer'[f][v].st = "fresh"
        /\ \A g \in Flows, w \in Verifiers :
             ~(g = f /\ w = v) => answer'[g][w] = answer[g][w]
    <3>1. "fresh" \in {"locked", "fresh", "err"}
      OBVIOUS
    <3>2. QED
      BY <2>1, <3>1, PlainAnswer
  <2>3. TypeOK'
    BY <1>1, <2>1, <2>2 DEF IInv, TypeOK
  <2>4. \A g \in Flows, w \in Verifiers : Working(g, w)' <=> Working(g, w)
    BY <1>1, <2>2 DEF Working
  <2>5. HandlerHoldsLock'
    BY <1>1, <1>4, <2>1, <2>2, <2>4 DEF IInv, HandlerHoldsLock
  <2>6. FlowHasShare' /\ OwnsOk' /\ SentOk' /\ AnsweredOk' /\ SignerOk'
    <3>1. FlowHasShare' /\ SentOk' /\ SignerOk'
      BY <1>1, <2>2 DEF IInv, FlowHasShare, SentOk, SignerOk
    <3>2. OwnsOk'
      BY <1>1, <2>2 DEF IInv, OwnsOk, Owns
    <3>3. AnsweredOk'
      BY <1>1, <2>2 DEF IInv, AnsweredOk
    <3>4. QED
      BY <3>1, <3>2, <3>3
  <2>7. AggOk'
    BY <1>1 DEF IInv, AggOk, RunOf
  <2>8. QED
    BY <2>3, <2>5, <2>6, <2>7 DEF IInv
<1>5. QED
  BY <1>3, <1>4
\* A step of flow f's call at signer v that writes the signer's row x and
\* answers a.
RowMovesOn(f, v, x, a) ==
  LET old == signer[v][flow[f].share] IN
  /\ flow[f].pc # "idle"
  /\ signer' = [signer EXCEPT ![v][flow[f].share] = x]
  /\ answer' = [answer EXCEPT ![f][v] = a]
  /\ UNCHANGED lock \/ lock' = [lock EXCEPT ![v] = lock[v] \ {flow[f].share}]
  /\ UNCHANGED <<agg, flow, faults>>
  /\ x.st # "none" /\ a.st \in {"ok", "err"} /\ old.st # "DkgFinalized"
  /\ x.st \in {"DkgRound2", "DkgFinalized"} => x.key = Same(x.own)
  /\ \/ old.st = "none" /\ answer[f][v].st = "fresh" /\ x.own = f
     \/ old.st # "none" /\ x.own = old.own
  /\ a.st = "ok" =>
       /\ flow[f].round = 1 => x.own = f /\ a.val = f
       /\ flow[f].round = 2 => a.val = f
       /\ flow[f].round = 3 => x.st = "DkgFinalized" /\ a.key = Same(f)

\* The invariant is kept when a signer's row of a flow in progress moves on.
LEMMA SignerRowIInv ==
  ASSUME IInv, NEW f \in Flows, NEW v \in Verifiers,
         NEW x \in SignerType, NEW a \in AnswerType, RowMovesOn(f, v, x, a)
  PROVE  IInv'
<1> USE DEF RowMovesOn
<1> DEFINE s == flow[f].share
           old == signer[v][flow[f].share]
<1>1. /\ s \in Shares /\ lock \in [Verifiers -> SUBSET Shares]
      /\ signer \in [Verifiers -> [Shares -> SignerType]]
      /\ answer \in [Flows -> [Verifiers -> AnswerType]]
  BY Types
<1>2. /\ signer' \in [Verifiers -> [Shares -> SignerType]]
      /\ signer'[v][s] = x
      /\ \A w \in Verifiers, t \in Shares :
           ~(w = v /\ t = s) => signer'[w][t] = signer[w][t]
  BY <1>1, SignerUpdate
<1>3. /\ answer' \in [Flows -> [Verifiers -> AnswerType]]
      /\ answer'[f][v] = a
      /\ \A g \in Flows, w \in Verifiers :
           ~(g = f /\ w = v) => answer'[g][w] = answer[g][w]
  BY <1>1, AnswerUpdate
<1>4. /\ lock' \in [Verifiers -> SUBSET Shares]
      /\ \A w \in Verifiers, t \in Shares : ~(w = v /\ t = s) /\ t \in lock[w] => t \in lock'[w]
  BY <1>1
<1>5. TypeOK'
  BY <1>2, <1>3, <1>4 DEF IInv, TypeOK
<1>6. \A g \in Flows : flow[g].pc # "idle" => flow[g].share \in Shares
  BY Types
<1>7. ASSUME NEW g \in Flows, NEW w \in Verifiers, Working(g, w)'
      PROVE  ~(g = f /\ w = v) /\ Working(g, w) /\ flow[g].share \in Shares
  <2>1. ~(g = f /\ w = v)
    BY <1>3, <1>7 DEF Working
  <2>2. Working(g, w)
    BY <1>3, <1>7, <2>1 DEF Working
  <2>3. flow[g].share \in Shares
    BY <1>6, <2>2, WorkingFlow DEF Working
  <2>4. QED
    BY <2>1, <2>2, <2>3
<1>8. HandlerHoldsLock'
  <2> SUFFICES ASSUME NEW g \in Flows, NEW w \in Verifiers, Working(g, w)'
               PROVE  /\ flow[g].round = 1
                      /\ answer'[g][w].st = "fresh" => signer'[w][flow[g].share].st = "none"
                      /\ signer'[w][flow[g].share].st = "none" =>
                           /\ flow[g].share \in lock'[w]
                           /\ \A h \in Flows : Working(h, w)' /\ flow[h].share = flow[g].share
                                                 => h = g
    BY DEF HandlerHoldsLock
  <2>1. ~(g = f /\ w = v) /\ Working(g, w) /\ flow[g].share \in Shares
    BY <1>7
  <2>2. flow[g].round = 1
    BY <2>1 DEF IInv, HandlerHoldsLock
  <2>3. CASE w = v /\ flow[g].share = s
    <3>1. answer'[g][w].st # "fresh"
      <4>1. CASE old.st = "none"
        <5>1. Working(f, v)
          BY <4>1 DEF Working
        <5>2. g = f
          BY <2>1, <2>3, <4>1, <5>1 DEF IInv, HandlerHoldsLock
        <5>3. QED
          BY <2>1, <2>3, <5>2
      <4>2. CASE old.st # "none"
        BY <2>1, <2>3, <4>2, <1>3 DEF IInv, HandlerHoldsLock
      <4>3. QED
        BY <4>1, <4>2
    <3>2. signer'[w][flow[g].share].st # "none"
      BY <1>2, <2>3
    <3>3. QED
      BY <2>2, <3>1, <3>2
  <2>4. CASE ~(w = v /\ flow[g].share = s)
    <3>1. signer'[w][flow[g].share] = signer[w][flow[g].share]
      BY <1>2, <2>1, <2>4
    <3>2. flow[g].share \in lock[w] => flow[g].share \in lock'[w]
      BY <1>4, <2>1, <2>4
    <3>3. answer'[g][w] = answer[g][w]
      BY <1>3, <2>1
    <3>4. \A h \in Flows : Working(h, w)' => Working(h, w)
      BY <1>7
    <3>5. QED
      BY <2>1, <2>2, <3>1, <3>2, <3>3, <3>4 DEF IInv, HandlerHoldsLock
  <2>5. QED
    BY <2>3, <2>4
<1>9. FlowHasShare' /\ SentOk'
  <2>1. SentOk'
    BY DEF IInv, SentOk
  <2>2. FlowHasShare'
    BY <1>3 DEF IInv, FlowHasShare
  <2>3. QED
    BY <2>1, <2>2
<1>10. \A g \in Flows, w \in Verifiers : flow[g].pc # "idle" /\ Owns(g, w) => Owns(g, w)'
  <2> SUFFICES ASSUME NEW g \in Flows, NEW w \in Verifiers, flow[g].pc # "idle", Owns(g, w)
               PROVE  signer'[w][flow[g].share].st # "none" /\ signer'[w][flow[g].share].own = g
    BY DEF Owns
  <2>1. CASE w = v /\ flow[g].share = s
    BY <2>1, <1>2 DEF Owns
  <2>2. CASE ~(w = v /\ flow[g].share = s)
    BY <2>2, <1>2, <1>6 DEF Owns
  <2>3. QED
    BY <2>1, <2>2
<1>11. OwnsOk'
  <2> SUFFICES ASSUME NEW g \in Flows, NEW w \in Verifiers
               PROVE  /\ flow[g].round = 1 /\ answer'[g][w].st = "ok"
                           => Owns(g, w)' /\ answer'[g][w].val = g
                      /\ flow[g].round > 1 => Owns(g, w)'
    BY DEF OwnsOk
  <2>1. flow[g].pc = "idle" => flow[g].round = 0
    BY DEF IInv, FlowHasShare
  <2>2. flow[g].round > 1 => Owns(g, w)'
    BY <2>1, <1>10 DEF IInv, OwnsOk
  <2>3. ASSUME flow[g].round = 1, answer'[g][w].st = "ok"
        PROVE  Owns(g, w)' /\ answer'[g][w].val = g
    <3>1. CASE g = f /\ w = v
      BY <3>1, <2>3, <1>2, <1>3 DEF Owns
    <3>2. CASE ~(g = f /\ w = v)
      BY <3>2, <2>1, <2>3, <1>3, <1>10 DEF IInv, OwnsOk
    <3>3. QED
      BY <3>1, <3>2
  <2>4. QED
    BY <2>2, <2>3
<1>12. \A w \in Verifiers, t \in Shares :
         signer[w][t].st = "DkgFinalized" => signer'[w][t].st = "DkgFinalized"
  BY <1>2
<1>13. AnsweredOk'
  <2> SUFFICES ASSUME NEW g \in Flows, NEW w \in Verifiers,
                      flow[g].pc = "calls", answer'[g][w].st = "ok"
               PROVE  /\ flow[g].round = 2 => answer'[g][w].val = g
                      /\ flow[g].round = 3 => /\ signer'[w][flow[g].share].st = "DkgFinalized"
                                              /\ answer'[g][w].key = Same(g)
    BY DEF AnsweredOk
  <2>1. CASE g = f /\ w = v
    BY <2>1, <1>2, <1>3
  <2>2. CASE ~(g = f /\ w = v)
    BY <2>2, <1>3, <1>6, <1>12 DEF IInv, AnsweredOk
  <2>3. QED
    BY <2>1, <2>2
<1>14. SignerOk'
  <2> SUFFICES ASSUME NEW w \in Verifiers, NEW t \in Shares,
                      signer'[w][t].st \in {"DkgRound2", "DkgFinalized"}
               PROVE  signer'[w][t].key = Same(signer'[w][t].own)
    BY DEF SignerOk, Same
  <2>1. CASE w = v /\ t = s
    BY <2>1, <1>2
  <2>2. CASE ~(w = v /\ t = s)
    BY <2>2, <1>2 DEF IInv, SignerOk
  <2>3. QED
    BY <2>1, <2>2
<1>15. AggOk'
  <2> SUFFICES ASSUME NEW t \in Shares, agg[t].st # "Initialized"
               PROVE  \E g \in Flows : RunOf(t, g)'
    BY DEF AggOk
  <2>1. PICK g \in Flows : RunOf(t, g)
    BY DEF IInv, AggOk
  <2>2. RunOf(t, g)'
    BY <2>1, <1>12 DEF RunOf
  <2>3. QED
    BY <2>2
<1>16. QED
  BY <1>5, <1>8, <1>9, <1>11, <1>13, <1>14, <1>15 DEF IInv

\* The invariant is kept by StoreRound1.
LEMMA StoreRound1IInv ==
  ASSUME IInv, NEW f \in Flows, NEW v \in Verifiers, StoreRound1(f, v)
  PROVE  IInv'
<1> DEFINE x == [st |-> "DkgRound1", own |-> f, key |-> NoVector]
           a == Answered("ok", f, NoVector)
<1>1. answer[f][v].st = "fresh" /\ flow[f].pc # "idle"
  BY WorkingFlow DEF StoreRound1
<1>2. signer[v][flow[f].share].st = "none" /\ flow[f].round = 1
  BY <1>1 DEF IInv, HandlerHoldsLock, Working
<1>3. x \in SignerType /\ a \in AnswerType
  BY Types DEF SignerType, AnswerType, Answered
<1>4. x.st = "DkgRound1" /\ x.own = f /\ a.st = "ok" /\ a.val = f
  BY DEF Answered
<1>5. /\ signer' = [signer EXCEPT ![v][flow[f].share] = x]
      /\ answer' = [answer EXCEPT ![f][v] = a]
      /\ UNCHANGED lock /\ UNCHANGED <<agg, flow, faults>>
  BY DEF StoreRound1, Answer
<1> HIDE DEF x, a
<1>6. RowMovesOn(f, v, x, a)
  BY <1>1, <1>2, <1>4, <1>5 DEF RowMovesOn
<1>7. QED
  BY <1>3, <1>6, SignerRowIInv

\* The invariant is kept by SignerRound2: the packages are the flow's own run's.
LEMMA SignerRound2IInv ==
  ASSUME IInv, NEW f \in Flows, NEW v \in Verifiers, SignerRound2(f, v)
  PROVE  IInv'
<1> DEFINE s == flow[f].share
           k == [flow[f].r1 EXCEPT ![v] = signer[v][flow[f].share].own]
           x == [st |-> "DkgRound2", own |-> f, key |-> Same(f)]
           a == Answered("ok", f, NoVector)
<1>1. /\ flow[f].pc # "idle" /\ flow[f].pc \in {"calls", "failed"} /\ flow[f].round = 2
      /\ UNCHANGED lock /\ UNCHANGED <<agg, flow, faults>> /\ faults \in 0..MaxFaults
  BY Types DEF SignerRound2, Sent
<1>2. CASE signer[v][s].st # "DkgRound1"
  <2>1. Answer(f, v, "err", None, NoVector) /\ UNCHANGED signer
    BY <1>2 DEF SignerRound2
  <2>2. QED
    BY <1>1, <2>1, AnswerErrIInv
<1>3. CASE signer[v][s].st = "DkgRound1"
  <2>1. signer[v][s].own = f
    <3>1. flow[f].round > 1
      BY <1>1
    <3>2. QED
      BY <3>1 DEF IInv, OwnsOk, Owns
  <2>2. flow[f].r1 = Same(f)
    BY <1>1 DEF IInv, SentOk
  <2>3. k = Same(f)
    BY <2>1, <2>2 DEF Same
  <2>4. Same(f) \in Vector /\ NoVector \in Vector
    BY Types DEF Same, Vector
  <2>5. x \in SignerType /\ a \in AnswerType
    BY <2>4 DEF SignerType, AnswerType, Answered
  <2>6. /\ x.st = "DkgRound2" /\ x.own = f /\ x.key = Same(f)
        /\ a.st = "ok" /\ a.val = f
    BY DEF Answered
  <2>7. /\ signer' = [signer EXCEPT ![v][flow[f].share] =
                        [st |-> "DkgRound2", own |-> signer[v][flow[f].share].own, key |-> k]]
        /\ Answer(f, v, "ok", signer[v][flow[f].share].own, NoVector)
    BY <1>3 DEF SignerRound2
  <2>8. /\ signer' = [signer EXCEPT ![v][flow[f].share] = x]
        /\ answer' = [answer EXCEPT ![f][v] = a]
    BY <2>1, <2>3, <2>7 DEF Answer
  <2> HIDE DEF x, a, k
  <2>9. RowMovesOn(f, v, x, a)
    BY <1>1, <1>3, <2>1, <2>6, <2>8 DEF RowMovesOn
  <2>10. QED
    BY <2>5, <2>9, SignerRowIInv
<1>4. QED
  BY <1>2, <1>3

\* The invariant is kept by SignerFinalize.
LEMMA SignerFinalizeIInv ==
  ASSUME IInv, NEW f \in Flows, NEW v \in Verifiers, SignerFinalize(f, v)
  PROVE  IInv'
<1> DEFINE s == flow[f].share
           data == signer[v][flow[f].share]
           x == [st |-> "DkgFinalized", own |-> f, key |-> Same(f)]
<1>1. /\ flow[f].pc # "idle" /\ flow[f].round = 3
      /\ UNCHANGED <<agg, flow, faults>> /\ faults \in 0..MaxFaults
  BY Types DEF SignerFinalize, Sent
<1>2. CASE ~(data.st = "DkgRound2" /\ Part3Ok(v, data.key, flow[f].r2))
  <2>1. Answer(f, v, "err", None, NoVector) /\ UNCHANGED signer /\ UNCHANGED lock
    BY <1>2 DEF SignerFinalize
  <2>2. QED
    BY <1>1, <2>1, AnswerErrIInv
<1>3. CASE data.st = "DkgRound2" /\ Part3Ok(v, data.key, flow[f].r2)
  <2>1. s \in Shares /\ data \in SignerType
    BY <1>1, Types
  <2>2. data.own = f
    <3>1. flow[f].round > 1
      BY <1>1
    <3>2. QED
      BY <3>1 DEF IInv, OwnsOk, Owns
  <2>3. data.key = Same(f)
    BY <1>3, <2>1, <2>2 DEF IInv, SignerOk
  <2>4. Same(f) \in Vector /\ NoVector \in Vector
    BY Types DEF Same, Vector
  <2>5. x \in SignerType /\ x.st = "DkgFinalized" /\ x.own = f /\ x.key = Same(f)
    BY <2>4 DEF SignerType
  <2>6. [data EXCEPT !.st = "DkgFinalized"] = x
    BY <2>1, <2>2, <2>3 DEF SignerType
  <2>7. /\ signer' = [signer EXCEPT ![v][flow[f].share].st = "DkgFinalized"]
        /\ lock' = [lock EXCEPT ![v] = @ \ {flow[f].share}]
        /\ \/ Answer(f, v, "ok", None, data.key)
           \/ Answer(f, v, "err", None, NoVector)
    BY <1>3 DEF SignerFinalize
  <2>8. signer' = [signer EXCEPT ![v][flow[f].share] = x]
    <3>1. signer' = [signer EXCEPT ![v][flow[f].share] = [@ EXCEPT !.st = "DkgFinalized"]]
      BY <2>7
    <3>2. signer \in [Verifiers -> [Shares -> SignerType]]
      BY Types
    <3>3. QED
      BY <3>1, <3>2, <2>1, <2>6
  <2> HIDE DEF x
  <2>m. /\ lock' = [lock EXCEPT ![v] = lock[v] \ {flow[f].share}]
        /\ data.st = "DkgRound2" /\ x.key = Same(x.own)
    BY <1>3, <2>5, <2>7
  <2>9. CASE Answer(f, v, "ok", None, data.key)
    <3> DEFINE a == Answered("ok", None, Same(f))
    <3>1. a \in AnswerType /\ a.st = "ok" /\ a.key = Same(f)
      BY <2>4 DEF AnswerType, Answered
    <3>2. answer' = [answer EXCEPT ![f][v] = a]
      BY <2>3, <2>9 DEF Answer
    <3> HIDE DEF a
    <3>3. RowMovesOn(f, v, x, a)
      BY <1>1, <2>m, <2>2, <2>5, <2>8, <3>1, <3>2 DEF RowMovesOn
    <3>4. QED
      BY <2>5, <3>1, <3>3, SignerRowIInv
  <2>10. CASE Answer(f, v, "err", None, NoVector)
    <3> DEFINE a == Answered("err", None, NoVector)
    <3>1. a \in AnswerType /\ a.st = "err"
      BY <2>4 DEF AnswerType, Answered
    <3>2. answer' = [answer EXCEPT ![f][v] = a]
      BY <2>10 DEF Answer
    <3> HIDE DEF a
    <3>3. RowMovesOn(f, v, x, a)
      BY <1>1, <2>m, <2>2, <2>5, <2>8, <3>1, <3>2 DEF RowMovesOn
    <3>4. QED
      BY <2>5, <3>1, <3>3, SignerRowIInv
  <2>11. QED
    BY <2>7, <2>9, <2>10
<1>4. QED
  BY <1>2, <1>3

\* The invariant is kept when a verifier restarts: with its locks go its
\* round-1 handlers.
LEMMA VerifierRestartIInv ==
  ASSUME IInv, NEW v \in Verifiers, VerifierRestart(v)
  PROVE  IInv'
<1> DEFINE lost == Answered("err", None, NoVector)
<1>1. /\ lock \in [Verifiers -> SUBSET Shares]
      /\ answer \in [Flows -> [Verifiers -> AnswerType]]
      /\ faults' \in 0..MaxFaults
  BY Types, DkgAssumption DEF VerifierRestart, Fault
<1>2. UNCHANGED <<agg, signer, flow>> /\ lock' = [lock EXCEPT ![v] = {}]
  BY DEF VerifierRestart
<1>3. lost \in AnswerType /\ lost.st = "err"
  BY Types DEF AnswerType, Answered
<1>4. answer' = [f \in Flows |->
                  [answer[f] EXCEPT ![v] = IF @.st \in {"locked", "fresh"} THEN lost ELSE @]]
  BY DEF VerifierRestart
<1> HIDE DEF lost
<1>5. /\ answer' \in [Flows -> [Verifiers -> AnswerType]]
      /\ \A g \in Flows, w \in Verifiers : w # v => answer'[g][w] = answer[g][w]
      /\ \A g \in Flows : \/ answer'[g][v] = answer[g][v] /\ ~Working(g, v)
                          \/ answer'[g][v].st = "err" /\ Working(g, v)
  BY <1>1, <1>3, <1>4 DEF Working
<1>6. TypeOK'
  BY <1>1, <1>2, <1>5 DEF IInv, TypeOK
<1>7. \A g \in Flows, w \in Verifiers : Working(g, w)' => w # v /\ Working(g, w)
  BY <1>5 DEF Working
<1>8. HandlerHoldsLock'
  BY <1>1, <1>2, <1>5, <1>7 DEF IInv, HandlerHoldsLock
<1>9. FlowHasShare' /\ SentOk' /\ SignerOk'
  BY <1>2, <1>5 DEF IInv, FlowHasShare, SentOk, SignerOk, Working
<1>10. OwnsOk'
  BY <1>2, <1>5 DEF IInv, OwnsOk, Owns
<1>11. AnsweredOk'
  BY <1>2, <1>5 DEF IInv, AnsweredOk
<1>12. AggOk'
  BY <1>2 DEF IInv, AggOk, RunOf
<1>13. QED
  BY <1>6, <1>8, <1>9, <1>10, <1>11, <1>12 DEF IInv

\* Every step keeps the invariant.
LEMMA NextIInv == IInv /\ [Next]_vars => IInv'
<1> SUFFICES ASSUME IInv, [Next]_vars PROVE IInv'
  OBVIOUS
<1>1. ASSUME NEW f \in Flows, NEW s \in Shares, RunDkgFlow(f, s) PROVE IInv'
  BY <1>1, RunDkgFlowIInv
<1>2. ASSUME NEW f \in Flows, AggregatorStep(f) PROVE IInv'
  BY <1>2, StartRoundIInv, FlowErrIInv, JoinRound1IInv, JoinRound2IInv, JoinFinalizeIInv
     DEF AggregatorStep
<1>3. ASSUME NEW f \in Flows, FlowErr(f) PROVE IInv'
  BY <1>3, FlowErrIInv
<1>4. ASSUME NEW f \in Flows, NEW v \in Verifiers, SignerStep(f, v) PROVE IInv'
  BY <1>4, LockDkgShareIdIInv, ReadSignerDataIInv, StoreRound1IInv, SignerRound2IInv,
     SignerFinalizeIInv
     DEF SignerStep
<1>5. ASSUME NEW f \in Flows, NEW v \in Verifiers,
             SignerRound1Err(f, v) \/ CallLost(f, v)
      PROVE  IInv'
  BY <1>5, CallErrIInv
<1>6. ASSUME NEW v \in Verifiers, VerifierRestart(v) PROVE IInv'
  BY <1>6, VerifierRestartIInv
<1>7. ASSUME UNCHANGED vars PROVE IInv'
  <2>1. UNCHANGED <<agg, signer, lock, flow, answer, faults>>
    BY <1>7 DEF vars
  <2>2. TypeOK' /\ HandlerHoldsLock' /\ FlowHasShare' /\ OwnsOk'
    BY <2>1 DEF IInv, TypeOK, HandlerHoldsLock, Working, FlowHasShare, OwnsOk, Owns
  <2>3. SentOk' /\ AnsweredOk' /\ SignerOk' /\ AggOk'
    BY <2>1 DEF IInv, SentOk, AnsweredOk, SignerOk, AggOk, RunOf
  <2>4. QED
    BY <2>2, <2>3 DEF IInv
<1>8. QED
  BY <1>1, <1>2, <1>3, <1>4, <1>5, <1>6, <1>7 DEF Next

-----------------------------------------------------------------------------
(* Theorems.                                                               *)

\* IInv holds in every reachable state.
THEOREM InductiveInvariance == Spec => []IInv
<1>1. Init => IInv
  BY InitIInv
<1>2. IInv /\ [Next]_vars => IInv'
  BY NextIInv
<1>3. QED
  BY <1>1, <1>2, PTL DEF Spec

\* The rows, locks, flows and calls stay in the states the code gives them.
THEOREM TypeCorrect == Spec => []TypeOK
<1>1. IInv => TypeOK
  BY DEF IInv
<1>2. QED
  BY <1>1, InductiveInvariance, PTL

\* A share the aggregator calls finalized has the same key, of one run of the
\* protocol, at every signer, whatever flows overlap and whatever fails.
THEOREM FinalizedSharesAgree == Spec => []FinalizedAgree
<1>1. IInv => FinalizedAgree
  <2> SUFFICES ASSUME IInv, NEW s \in Shares, agg[s].st = "DkgFinalized"
               PROVE  /\ \A v \in Verifiers : /\ signer[v][s].st = "DkgFinalized"
                                              /\ signer[v][s].key = agg[s].key
                      /\ \E f \in Flows : agg[s].key = [v \in Verifiers |-> f]
    BY DEF FinalizedAgree
  <2>1. PICK f \in Flows : RunOf(s, f)
    BY DEF IInv, AggOk
  <2>2. agg[s].key = Same(f) /\ \A v \in Verifiers : signer[v][s].st = "DkgFinalized"
    BY <2>1 DEF RunOf
  <2>3. \A v \in Verifiers : signer[v][s].own = f
    BY <2>1 DEF IInv, OwnsOk, Owns, RunOf
  <2>4. \A v \in Verifiers : signer[v][s].key = Same(f)
    BY <2>2, <2>3 DEF IInv, SignerOk
  <2>5. QED
    BY <2>2, <2>4 DEF Same
<1>2. QED
  BY <1>1, InductiveInvariance, PTL

\* At most one call of run_dkg_flow per share gets past round 1.
THEOREM OneFlowPerShare == Spec => []OneFlowPastRound1
<1>1. IInv => OneFlowPastRound1
  <2> SUFFICES ASSUME IInv, NEW f \in Flows, NEW g \in Flows,
                      flow[f].round > 1, flow[g].round > 1, flow[f].share = flow[g].share
               PROVE  f = g
    BY DEF OneFlowPastRound1, PastRound1
  <2>1. \A v \in Verifiers : Owns(f, v) /\ Owns(g, v)
    BY DEF IInv, OwnsOk
  <2>2. QED
    BY <2>1, OwnerUnique
<1>2. QED
  BY <1>1, InductiveInvariance, PTL

-----------------------------------------------------------------------------
(* Stored state only moves forward.                                        *)

\* The order of the states.
LEMMA Ranks ==
  /\ Rank("none") = 0 /\ Rank("Initialized") = 0 /\ Rank("DkgRound1") = 1
  /\ Rank("DkgRound2") = 2 /\ Rank("DkgFinalized") = 3
BY DEF Rank

AggMovesOn(s) ==
  \E y \in AggType : /\ agg' = [agg EXCEPT ![s] = y]
                     /\ Rank(y.st) >= Rank(agg[s].st)
                     /\ agg[s].st # "DkgFinalized"
SignerMovesOn(v, s) ==
  \E x \in SignerType : /\ signer' = [signer EXCEPT ![v][s] = x]
                        /\ Rank(x.st) >= Rank(signer[v][s].st)
                        /\ signer[v][s].st # "DkgFinalized"

\* The aggregator's upsert at the end of a round finds the row that the round
\* started from, or an earlier one.
LEMMA JoinMovesOn ==
  ASSUME IInv, NEW f \in Flows, JoinRound1(f) \/ JoinRound2(f) \/ JoinFinalize(f)
  PROVE  AggMovesOn(flow[f].share)
<1> DEFINE s == flow[f].share
<1>1. /\ flow[f].pc = "calls" /\ AllOk(f) /\ NoVector \in Vector /\ flow[f].r1 \in Vector
      /\ s \in Shares /\ agg[s] \in AggType
  <2>1. flow[f].pc = "calls" /\ AllOk(f)
    BY DEF JoinRound1, JoinRound2, JoinFinalize
  <2>2. QED
    BY <2>1, Types DEF FlowType
<1>2. /\ Values(f) \in Vector
      /\ \A v \in Verifiers : answer[f][v].key \in Vector
  BY Types DEF Values, Vector, AnswerType
<1>3. agg[s].st \in {"Initialized", "DkgRound1", "DkgRound2", "DkgFinalized"}
  BY <1>1 DEF AggType
<1>4. \A v \in Verifiers : Owns(f, v)
  BY <1>1 DEF IInv, OwnsOk, AllOk, JoinRound1, JoinRound2, JoinFinalize
<1>5. agg[s].st # "Initialized" => RunOf(s, f)
  BY <1>1, <1>4, RunOfUnique
<1>6. CASE JoinRound1(f)
  <2> DEFINE y == [st |-> "DkgRound1", r1 |-> Values(f), r2 |-> NoVector, key |-> NoVector]
  <2>1. y \in AggType /\ y.st = "DkgRound1"
    BY <1>1, <1>2 DEF AggType
  <2>2. agg[s].st = "Initialized"
    BY <1>5, <1>6 DEF RunOf, JoinRound1
  <2>3. agg' = [agg EXCEPT ![s] = y]
    BY <1>6 DEF JoinRound1
  <2> HIDE DEF y
  <2>4. Rank(y.st) >= Rank(agg[s].st) /\ agg[s].st # "DkgFinalized"
    BY <2>1, <2>2, <2>3, Ranks
  <2>5. QED
    BY <2>1, <2>2, <2>3, <2>4 DEF AggMovesOn
<1>7. CASE JoinRound2(f)
  <2> DEFINE y == [st |-> "DkgRound2", r1 |-> flow[f].r1, r2 |-> Values(f), key |-> NoVector]
  <2>1. y \in AggType /\ y.st = "DkgRound2"
    BY <1>1, <1>2 DEF AggType
  <2>2. agg[s].st \in {"Initialized", "DkgRound1"}
    BY <1>1, <1>3, <1>5, <1>7 DEF RunOf, JoinRound2
  <2>3. agg' = [agg EXCEPT ![s] = y]
    BY <1>7 DEF JoinRound2
  <2> HIDE DEF y
  <2>4. Rank(y.st) >= Rank(agg[s].st) /\ agg[s].st # "DkgFinalized"
    BY <2>1, <2>2, <2>3, Ranks
  <2>5. QED
    BY <2>1, <2>2, <2>3, <2>4 DEF AggMovesOn
<1>8. CASE JoinFinalize(f)
  <2>1. agg[s].st \in {"Initialized", "DkgRound1", "DkgRound2"}
    BY <1>1, <1>3, <1>5 DEF RunOf
  <2>2. CASE SameKey(f)
    <3>1. PICK v \in Verifiers :
            agg' = [agg EXCEPT ![s] = [st |-> "DkgFinalized", r1 |-> NoVector,
                                       r2 |-> NoVector, key |-> answer[f][v].key]]
      BY <1>8, <2>2 DEF JoinFinalize
    <3> DEFINE y == [st |-> "DkgFinalized", r1 |-> NoVector,
                     r2 |-> NoVector, key |-> answer[f][v].key]
    <3>2. y \in AggType /\ y.st = "DkgFinalized"
      BY <1>1, <1>2 DEF AggType
    <3>3. agg' = [agg EXCEPT ![s] = y]
      BY <3>1
    <3> HIDE DEF y
    <3>4. Rank(y.st) >= Rank(agg[s].st) /\ agg[s].st # "DkgFinalized"
      BY <2>1, <3>2, <3>3, Ranks
    <3>5. QED
      BY <2>1, <3>2, <3>3, <3>4 DEF AggMovesOn
  <2>3. CASE ~SameKey(f)
    <3> DEFINE y == agg[s]
    <3>1. agg' = [agg EXCEPT ![s] = y]
      <4>1. agg' = agg /\ agg \in [Shares -> AggType]
        BY <1>8, <2>3, Types DEF JoinFinalize
      <4>2. QED
        BY <4>1
    <3>2. Rank(y.st) >= Rank(agg[s].st)
      BY <2>1, Ranks
    <3>3. QED
      BY <1>1, <2>1, <3>1, <3>2 DEF AggMovesOn
  <2>4. QED
    BY <2>2, <2>3
<1>9. QED
  BY <1>6, <1>7, <1>8

\* A signer's upsert finds the row that its checks saw.
LEMMA SignerStepMovesOn ==
  ASSUME IInv, NEW f \in Flows, NEW v \in Verifiers, SignerStep(f, v)
  PROVE  signer' = signer \/ SignerMovesOn(v, flow[f].share)
<1> DEFINE s == flow[f].share
<1>1. CASE LockDkgShareId(f, v) \/ ReadSignerData(f, v)
  BY <1>1 DEF LockDkgShareId, ReadSignerData
<1>2. CASE StoreRound1(f, v)
  <2> DEFINE x == [st |-> "DkgRound1", own |-> f, key |-> NoVector]
  <2>1. signer[v][s].st = "none"
    BY <1>2 DEF IInv, HandlerHoldsLock, Working, StoreRound1
  <2>2. x \in SignerType /\ x.st = "DkgRound1"
    BY Types DEF SignerType
  <2>3. signer' = [signer EXCEPT ![v][s] = x]
    BY <1>2 DEF StoreRound1
  <2> HIDE DEF x
  <2>4. Rank(x.st) >= Rank(signer[v][s].st) /\ signer[v][s].st # "DkgFinalized"
    BY <2>1, <2>2, <2>3, Ranks
  <2>5. QED
    BY <2>1, <2>2, <2>3, <2>4 DEF SignerMovesOn
<1>3. CASE SignerRound2(f, v) /\ signer' # signer
  <2> DEFINE k == [flow[f].r1 EXCEPT ![v] = signer[v][s].own]
             x == [st |-> "DkgRound2", own |-> signer[v][s].own, key |-> k]
  <2>1. signer[v][s].st = "DkgRound1" /\ flow[f].pc # "idle"
    BY <1>3 DEF SignerRound2, Sent
  <2>2. s \in Shares /\ signer[v][s] \in SignerType /\ flow[f] \in FlowType
    BY <2>1, Types
  <2>3. k \in Vector
    BY <2>2 DEF SignerType, FlowType, Vector
  <2>4. signer' = [signer EXCEPT ![v][s] = x]
    BY <1>3 DEF SignerRound2
  <2> HIDE DEF k
  <2>5. x \in SignerType /\ x.st = "DkgRound2"
    BY <2>2, <2>3 DEF SignerType
  <2> HIDE DEF x
  <2>6. Rank(x.st) >= Rank(signer[v][s].st) /\ signer[v][s].st # "DkgFinalized"
    BY <2>1, <2>4, <2>5, Ranks
  <2>7. QED
    BY <2>1, <2>4, <2>5, <2>6 DEF SignerMovesOn
<1>4. CASE SignerFinalize(f, v) /\ signer' # signer
  <2> DEFINE x == [signer[v][s] EXCEPT !.st = "DkgFinalized"]
  <2>1. signer[v][s].st = "DkgRound2" /\ flow[f].pc # "idle"
    BY <1>4 DEF SignerFinalize, Sent
  <2>2. s \in Shares /\ signer[v][s] \in SignerType
    BY <2>1, Types
  <2>3. x \in SignerType /\ x.st = "DkgFinalized"
    BY <2>2 DEF SignerType
  <2>4. signer' = [signer EXCEPT ![v][s] = x]
    BY <1>4 DEF SignerFinalize
  <2> HIDE DEF x
  <2>5. Rank(x.st) >= Rank(signer[v][s].st) /\ signer[v][s].st # "DkgFinalized"
    BY <2>1, <2>3, <2>4, Ranks
  <2>6. QED
    BY <2>1, <2>3, <2>4, <2>5 DEF SignerMovesOn
<1>5. QED
  BY <1>1, <1>2, <1>3, <1>4 DEF SignerStep

\* What a step does to the stored rows.
LEMMA NextMovesOn ==
  ASSUME IInv, Next
  PROVE  /\ agg' = agg \/ \E s \in Shares : AggMovesOn(s)
         /\ signer' = signer \/ \E v \in Verifiers, s \in Shares : SignerMovesOn(v, s)
<1> DEFINE A == agg' = agg \/ \E s \in Shares : AggMovesOn(s)
           S == signer' = signer \/ \E v \in Verifiers, s \in Shares : SignerMovesOn(v, s)
<1>1. ASSUME NEW f \in Flows, NEW s \in Shares, RunDkgFlow(f, s) PROVE A /\ S
  BY <1>1 DEF RunDkgFlow
<1>2. ASSUME NEW f \in Flows, AggregatorStep(f) \/ FlowErr(f) PROVE A /\ S
  <2>1. CASE StartRound(f) \/ JoinErr(f) \/ FlowErr(f)
    BY <2>1 DEF StartRound, JoinErr, FlowErr
  <2>2. CASE JoinRound1(f) \/ JoinRound2(f) \/ JoinFinalize(f)
    <3>1. signer' = signer /\ flow[f].pc # "idle"
      BY <2>2 DEF JoinRound1, JoinRound2, JoinFinalize
    <3>2. flow[f].share \in Shares
      BY <3>1, Types
    <3>3. QED
      BY <2>2, <3>1, <3>2, JoinMovesOn
  <2>3. QED
    BY <1>2, <2>1, <2>2 DEF AggregatorStep
<1>3. ASSUME NEW f \in Flows, NEW v \in Verifiers, SignerStep(f, v) PROVE A /\ S
  <2>1. agg' = agg /\ flow[f].pc # "idle"
    <3>1. agg' = agg
      BY <1>3 DEF SignerStep, LockDkgShareId, ReadSignerData, StoreRound1, SignerRound2,
                  SignerFinalize
    <3>2. flow[f].pc # "idle"
      BY <1>3, WorkingFlow
         DEF SignerStep, LockDkgShareId, ReadSignerData, StoreRound1, SignerRound2,
             SignerFinalize, Sent
    <3>3. QED
      BY <3>1, <3>2
  <2>2. flow[f].share \in Shares
    BY <2>1, Types
  <2>3. QED
    BY <1>3, <2>1, <2>2, SignerStepMovesOn
<1>4. ASSUME NEW f \in Flows, NEW v \in Verifiers,
             SignerRound1Err(f, v) \/ CallLost(f, v)
      PROVE  A /\ S
  BY <1>4 DEF SignerRound1Err, CallLost
<1>5. ASSUME NEW v \in Verifiers, VerifierRestart(v) PROVE A /\ S
  BY <1>5 DEF VerifierRestart
<1> HIDE DEF A, S
<1>6. A /\ S
  BY <1>1, <1>2, <1>3, <1>4, <1>5 DEF Next
<1>7. QED
  BY <1>6 DEF A, S

\* Neither side's stored state ever goes back, and a stored key is never
\* replaced.
THEOREM StoredStateNeverRegresses == Spec => NoRegress
<1>1. IInv /\ [Next]_vars => [Forward]_vars
  <2> SUFFICES ASSUME IInv, Next PROVE Forward
    BY DEF vars
  <2>1. agg \in [Shares -> AggType] /\ signer \in [Verifiers -> [Shares -> SignerType]]
    BY Types
  <2>2. \A s \in Shares : Rank(agg[s].st) >= Rank(agg[s].st)
    <3> TAKE s \in Shares
    <3>1. agg[s].st \in {"Initialized", "DkgRound1", "DkgRound2", "DkgFinalized"}
      BY <2>1 DEF AggType
    <3>2. QED
      BY <3>1, Ranks
  <2>3. \A v \in Verifiers, s \in Shares : Rank(signer[v][s].st) >= Rank(signer[v][s].st)
    <3> TAKE v \in Verifiers, s \in Shares
    <3>1. signer[v][s].st \in {"none", "DkgRound1", "DkgRound2", "DkgFinalized"}
      BY <2>1 DEF SignerType
    <3>2. QED
      BY <3>1, Ranks
  <2>4. \A s \in Shares : /\ Rank(agg'[s].st) >= Rank(agg[s].st)
                          /\ agg[s].st = "DkgFinalized" => agg'[s] = agg[s]
    BY <2>1, <2>2, NextMovesOn DEF AggMovesOn
  <2>5. \A v \in Verifiers, s \in Shares :
          /\ Rank(signer'[v][s].st) >= Rank(signer[v][s].st)
          /\ signer[v][s].st = "DkgFinalized" => signer'[v][s] = signer[v][s]
    BY <2>1, <2>3, NextMovesOn DEF SignerMovesOn
  <2>6. QED
    BY <2>4, <2>5 DEF Forward
<1>2. QED
  BY <1>1, InductiveInvariance, PTL DEF Spec, NoRegress
=============================================================================
