-------------------------- MODULE SharePool_proofs --------------------------
(***************************************************************************)
(* IInv is an inductive invariant of SharePool, for every set of requests  *)
(* and shares, every threshold, capacity and number of retries and faults. *)
(***************************************************************************)
EXTENDS SharePool, FiniteSetTheorems, SequenceTheorems, TLAPS

-----------------------------------------------------------------------------
(* The stock.                                                              *)

\* The stock, spelled out.
LEMMA StockDef ==
  UnusedFinalized = {s \in ShareIds : share[s] = "DkgFinalized" /\ owner[s] = None}
BY DEF UnusedFinalized, Unused

\* The sets the bound counts are finite.
LEMMA PoolFinite ==
  ASSUME NEW S, S \subseteq ShareIds
  PROVE  IsFiniteSet(S) /\ Cardinality(S) \in Nat
<1>1. S \in SUBSET ShareIds /\ IsFiniteSet(ShareIds)
  BY ConstantsAssumption
<1>2. IsFiniteSet(S)
  BY <1>1, FS_Subset
<1>3. QED
  BY <1>2, FS_CardinalityType

\* What only takes from the stock keeps it bounded.
LEMMA PoolShrinks ==
  ASSUME IInv, UnusedFinalized' \subseteq UnusedFinalized, running' \subseteq running,
         toStart' \in Nat, toStart' <= toStart
  PROVE  PoolBounded'
<1>1. UnusedFinalized \subseteq ShareIds /\ running \subseteq ShareIds /\ toStart \in Nat
  BY StockDef DEF IInv, TypeOK
<1>2. IsFiniteSet(UnusedFinalized) /\ IsFiniteSet(running)
  BY <1>1, PoolFinite
<1>3. /\ Cardinality(UnusedFinalized') <= Cardinality(UnusedFinalized)
      /\ Cardinality(running') <= Cardinality(running)
  BY <1>2, FS_Subset
<1>4. /\ Cardinality(UnusedFinalized) \in Nat /\ Cardinality(running) \in Nat
      /\ Cardinality(UnusedFinalized') \in Nat /\ Cardinality(running') \in Nat
  BY <1>1, PoolFinite
<1>5. Cardinality(UnusedFinalized) + Cardinality(running) + toStart <= MinThreshold
  BY DEF IInv, PoolBounded
<1>6. MinThreshold \in Nat
  BY ConstantsAssumption
<1>7. QED
  BY <1>1, <1>3, <1>4, <1>5, <1>6 DEF PoolBounded

\* No share, no request at the start.
LEMMA InitIInv == Init => IInv
<1> SUFFICES ASSUME Init PROVE IInv
  OBVIOUS
<1>1. TypeOK
  <2>1. [pc |-> "idle", share |-> None, answer |-> "none"] \in FlowType
    BY DEF FlowType
  <2>2. queue \in Seq(Requests)
    BY DEF Init
  <2>3. 0 \in 0..Retries /\ 0 \in 0..MaxFaults
    BY ConstantsAssumption
  <2>4. QED
    BY <2>1, <2>2, <2>3 DEF Init, TypeOK
<1>2. OwnerSound /\ FlowShares /\ AddressSound
  BY DEF Init, OwnerSound, FlowShares, AddressSound
<1>3. RuntimeSound
  BY DEF Init, RuntimeSound, InFlow
<1>4. PoolBounded
  <2>1. UnusedFinalized = {} /\ running = {} /\ toStart = 0
    BY StockDef DEF Init
  <2>2. QED
    BY <2>1, FS_EmptySet, ConstantsAssumption DEF PoolBounded
<1>5. QED
  BY <1>1, <1>2, <1>3, <1>4 DEF IInv

\* The thread touches no finished share, no flow and no address.
LEMMA PregenFrame ==
  ASSUME IInv, UNCHANGED <<owner, addresses, queue, flows, finished, proc, retry, flow>>,
         share' \in [ShareIds -> {"free", "unfinished", "DkgFinalized"}],
         \A s \in ShareIds : share[s] = "DkgFinalized" => share'[s] = share[s],
         \A s \in running' : share'[s] = "unfinished"
  PROVE  OwnerSound' /\ FlowShares' /\ AddressSound' /\ RuntimeSound'
<1>1. OwnerSound'
  BY DEF IInv, OwnerSound
<1>2. FlowShares'
  BY DEF IInv, FlowShares
<1>3. AddressSound' /\ RuntimeSound'
  BY DEF IInv, AddressSound, RuntimeSound
<1>4. QED
  BY <1>1, <1>2, <1>3

\* The invariant is kept by PerformUpdate.
LEMMA PerformUpdateIInv ==
  ASSUME IInv, PerformUpdate
  PROVE  IInv'
<1>1. /\ toStart = 0 /\ running = {} /\ UpdateDecision > 0 /\ toStart' = UpdateDecision
      /\ UNCHANGED <<share, owner, running, addresses, queue, flows, finished, proc, retry, flow,
                     faults>>
  BY DEF PerformUpdate, runtime
<1>2. Cardinality(UnusedFinalized) \in Nat /\ MinThreshold \in Nat
  BY StockDef, PoolFinite, ConstantsAssumption
<1>3. toStart' \in Nat /\ Cardinality(UnusedFinalized) + toStart' <= MinThreshold
  BY <1>1, <1>2 DEF UpdateDecision, SaturatingSub
<1>4. TypeOK'
  BY <1>1, <1>3 DEF IInv, TypeOK
<1>5. OwnerSound' /\ FlowShares' /\ AddressSound' /\ RuntimeSound'
  BY <1>1, PregenFrame DEF IInv, TypeOK, OwnerSound
<1>6. PoolBounded'
  <2>1. UnusedFinalized' = UnusedFinalized
    BY <1>1 DEF UnusedFinalized, Unused
  <2>2. Cardinality(running') = 0
    BY <1>1, FS_EmptySet
  <2>3. QED
    BY <1>2, <1>3, <2>1, <2>2 DEF PoolBounded
<1>7. QED
  BY <1>4, <1>5, <1>6 DEF IInv

\* The invariant is kept by GenerateDkgShareEntity.
LEMMA GenerateDkgShareEntityIInv ==
  ASSUME IInv, GenerateDkgShareEntity
  PROVE  IInv'
<1>1. /\ TypeOK /\ toStart \in Nat /\ toStart > 0 /\ toStart' = toStart - 1
      /\ share \in [ShareIds -> {"free", "unfinished", "DkgFinalized"}] /\ running \subseteq ShareIds
      /\ UNCHANGED <<owner, addresses, queue, flows, finished, proc, retry, flow>>
  BY DEF IInv, TypeOK, GenerateDkgShareEntity, runtime
<1>2. toStart' \in Nat /\ toStart' <= toStart /\ faults' \in 0..MaxFaults
  BY <1>1, ConstantsAssumption DEF TypeOK, GenerateDkgShareEntity, Fault
<1>3. ASSUME NEW s \in FreeIds, share' = [share EXCEPT ![s] = "unfinished"],
             running' = running \cup {s}
      PROVE  IInv'
  <2>1. s \in ShareIds /\ share[s] = "free"
    BY DEF FreeIds
  <2>2. share' \in [ShareIds -> {"free", "unfinished", "DkgFinalized"}] /\ running' \subseteq ShareIds
    BY <1>1, <1>3, <2>1
  <2>3. \A t \in ShareIds : share[t] = "DkgFinalized" <=> share'[t] = "DkgFinalized"
    BY <1>1, <1>3, <2>1
  <2>4. (\A t \in running' : share'[t] = "unfinished") /\ s \notin running
    BY <1>1, <1>3, <2>1 DEF IInv, OwnerSound
  <2>5. TypeOK'
    BY <1>1, <1>2, <2>2 DEF TypeOK
  <2>6. OwnerSound' /\ FlowShares' /\ AddressSound' /\ RuntimeSound'
    BY <1>1, <2>2, <2>3, <2>4, PregenFrame
  <2>7. PoolBounded'
    <3>1. UnusedFinalized' = UnusedFinalized
      BY <1>1, <2>3, StockDef DEF UnusedFinalized, Unused
    <3>2. IsFiniteSet(running) /\ Cardinality(running) \in Nat /\ Cardinality(UnusedFinalized) \in Nat
      BY <1>1, StockDef, PoolFinite
    <3>3. Cardinality(running') = Cardinality(running) + 1
      BY <1>3, <2>4, <3>2, FS_AddElement
    <3>4. Cardinality(UnusedFinalized) + Cardinality(running) + toStart <= MinThreshold
      BY DEF IInv, PoolBounded
    <3>5. QED
      BY <1>1, <3>1, <3>2, <3>3, <3>4, ConstantsAssumption DEF PoolBounded
  <2>8. QED
    BY <2>5, <2>6, <2>7 DEF IInv
<1>4. CASE UNCHANGED <<share, running>>
  <2>1. TypeOK'
    BY <1>1, <1>2, <1>4 DEF TypeOK
  <2>2. OwnerSound' /\ FlowShares' /\ AddressSound' /\ RuntimeSound'
    BY <1>1, <1>4, PregenFrame DEF IInv, OwnerSound
  <2>3. PoolBounded'
    <3>1. UnusedFinalized' = UnusedFinalized
      BY <1>1, <1>4 DEF UnusedFinalized, Unused
    <3>2. QED
      BY <1>2, <1>4, <3>1, PoolShrinks
  <2>4. QED
    BY <2>1, <2>2, <2>3 DEF IInv
<1>5. QED
  BY <1>3, <1>4 DEF GenerateDkgShareEntity

\* The invariant is kept by RunDkgFlow.
LEMMA RunDkgFlowIInv ==
  ASSUME IInv, NEW s \in ShareIds, RunDkgFlow(s)
  PROVE  IInv'
<1>1. /\ TypeOK /\ s \in running /\ running' = running \ {s} /\ toStart \in Nat
      /\ share \in [ShareIds -> {"free", "unfinished", "DkgFinalized"}] /\ running \subseteq ShareIds
      /\ UNCHANGED <<owner, toStart, addresses, queue, flows, finished, proc, retry, flow>>
  BY DEF IInv, TypeOK, RunDkgFlow, runtime
<1>2. faults' \in 0..MaxFaults
  BY <1>1, ConstantsAssumption DEF TypeOK, RunDkgFlow, Fault
<1>3. share[s] = "unfinished" /\ owner[s] = None
  BY <1>1 DEF IInv, OwnerSound
<1>4. CASE share' = [share EXCEPT ![s] = "DkgFinalized"]
  <2>1. /\ share' \in [ShareIds -> {"free", "unfinished", "DkgFinalized"}]
        /\ \A t \in ShareIds : share[t] = "DkgFinalized" => share'[t] = share[t]
        /\ \A t \in running' : share'[t] = "unfinished"
    BY <1>1, <1>3, <1>4 DEF IInv, OwnerSound
  <2>2. TypeOK'
    BY <1>1, <1>2, <2>1 DEF TypeOK
  <2>3. OwnerSound' /\ FlowShares' /\ AddressSound' /\ RuntimeSound'
    BY <1>1, <2>1, PregenFrame
  <2>4. PoolBounded'
    <3>1. UnusedFinalized' = UnusedFinalized \cup {s} /\ s \notin UnusedFinalized
      BY <1>1, <1>3, <1>4, StockDef DEF UnusedFinalized, Unused
    <3>2. /\ IsFiniteSet(running) /\ Cardinality(running) \in Nat
          /\ IsFiniteSet(UnusedFinalized) /\ Cardinality(UnusedFinalized) \in Nat
      BY <1>1, StockDef, PoolFinite
    <3>3. Cardinality(running') = Cardinality(running) - 1
      BY <1>1, <3>2, FS_RemoveElement
    <3>4. Cardinality(UnusedFinalized') = Cardinality(UnusedFinalized) + 1
      BY <3>1, <3>2, FS_AddElement
    <3>5. Cardinality(UnusedFinalized) + Cardinality(running) + toStart <= MinThreshold
      BY DEF IInv, PoolBounded
    <3>6. QED
      BY <1>1, <3>2, <3>3, <3>4, <3>5, ConstantsAssumption DEF PoolBounded
  <2>5. QED
    BY <2>2, <2>3, <2>4 DEF IInv
<1>5. CASE UNCHANGED share
  <2>1. TypeOK'
    BY <1>1, <1>2, <1>5 DEF TypeOK
  <2>2. OwnerSound' /\ FlowShares' /\ AddressSound' /\ RuntimeSound'
    BY <1>1, <1>5, PregenFrame DEF IInv, OwnerSound
  <2>3. PoolBounded'
    <3>1. UnusedFinalized' = UnusedFinalized
      BY <1>1, <1>5 DEF UnusedFinalized, Unused
    <3>2. QED
      BY <1>1, <3>1, PoolShrinks
  <2>4. QED
    BY <2>1, <2>2, <2>3 DEF IInv
<1>6. QED
  BY <1>4, <1>5 DEF RunDkgFlow

-----------------------------------------------------------------------------
(* The flows.                                                              *)

\* A row is never NULL, and the row of a user differs from a fresh one.
LEMMA RowFacts ==
  ASSUME NEW r \in Requests, NEW i \in BOOLEAN
  PROVE  /\ NewRow(r.rune, i) \in Rows /\ UserRow(r) \in Rows
         /\ NewRow(r.rune, i) # None /\ UserRow(r) # None
         /\ UserRow(r).external = r.user /\ r.user # None /\ r.user \in Users
         /\ UserRow(r).rune = r.rune /\ ~UserRow(r).issuer
         /\ NewRow(r.rune, i).external = None
         /\ NewRow(r.rune, i).rune = r.rune /\ NewRow(r.rune, i).issuer = i
<1>1. r.rune \in Runes /\ r.user \in Users
  BY DEF Runes, Users
<1>2. NewRow(r.rune, i) \in Rows /\ UserRow(r) \in Rows
  BY <1>1 DEF Rows, NewRow, UserRow
<1>3. QED
  BY <1>1, <1>2, ConstantsAssumption DEF NewRow, UserRow

\* The typed parts of the state.
LEMMA Typed ==
  ASSUME IInv
  PROVE  /\ TypeOK /\ flow \in [Requests -> FlowType] /\ faults \in 0..MaxFaults
         /\ share \in [ShareIds -> {"free", "unfinished", "DkgFinalized"}]
         /\ owner \in [ShareIds -> Rows \cup {None}]
         /\ addresses \subseteq AddressType
         /\ toStart \in Nat /\ running \subseteq ShareIds
         /\ queue \in Seq(Requests) /\ flows \subseteq Requests /\ finished \subseteq Requests
BY DEF IInv, TypeOK

\* Goto moves one flow and keeps its share and its answer.
LEMMA GotoFacts ==
  ASSUME IInv, NEW r \in Requests,
         NEW p \in {"idle", "sending", "queued", "ended"} \cup InFlow, Goto(r, p)
  PROVE  /\ flow' \in [Requests -> FlowType]
         /\ flow'[r].pc = p /\ flow'[r].share = flow[r].share /\ flow'[r].answer = flow[r].answer
         /\ \A q \in Requests \ {r} : flow'[q] = flow[q]
<1>1. flow \in [Requests -> FlowType] /\ flow[r] \in FlowType
  BY Typed
<1>2. flow' = [flow EXCEPT ![r] = [flow[r] EXCEPT !.pc = p]]
  BY DEF Goto
<1>3. [flow[r] EXCEPT !.pc = p] \in FlowType
  BY <1>1 DEF FlowType
<1>4. /\ [flow[r] EXCEPT !.pc = p].pc = p
      /\ [flow[r] EXCEPT !.pc = p].share = flow[r].share
      /\ [flow[r] EXCEPT !.pc = p].answer = flow[r].answer
  BY <1>1 DEF FlowType
<1>5. QED
  BY <1>1, <1>2, <1>3, <1>4

\* A flow that takes a share moves on with it.
LEMMA TakeFacts ==
  ASSUME IInv, NEW r \in Requests, NEW p \in InFlow, NEW s \in ShareIds,
         flow' = [flow EXCEPT ![r].pc = p, ![r].share = s]
  PROVE  /\ flow' \in [Requests -> FlowType]
         /\ flow'[r].pc = p /\ flow'[r].share = s /\ flow'[r].answer = flow[r].answer
         /\ \A q \in Requests \ {r} : flow'[q] = flow[q]
<1>1. flow \in [Requests -> FlowType] /\ flow[r] \in FlowType
  BY Typed
<1>2. flow' = [flow EXCEPT ![r] = [flow[r] EXCEPT !.pc = p, !.share = s]]
  BY <1>1
<1>3. [flow[r] EXCEPT !.pc = p, !.share = s] \in FlowType
  BY <1>1 DEF FlowType
<1>4. /\ [flow[r] EXCEPT !.pc = p, !.share = s].pc = p
      /\ [flow[r] EXCEPT !.pc = p, !.share = s].share = s
      /\ [flow[r] EXCEPT !.pc = p, !.share = s].answer = flow[r].answer
  BY <1>1 DEF FlowType
<1>5. QED
  BY <1>1, <1>2, <1>3, <1>4

\* Reply ends the work of one flow and lets go of its share.
LEMMA ReplyFacts ==
  ASSUME IInv, NEW r \in Requests, NEW a \in {"ok", "error"}, Reply(r, a)
  PROVE  /\ flow' \in [Requests -> FlowType]
         /\ flow'[r].pc = "reply" /\ flow'[r].answer = a
         /\ \A q \in Requests \ {r} : flow'[q] = flow[q]
<1>1. flow \in [Requests -> FlowType]
  BY Typed
<1>2. [pc |-> "reply", share |-> None, answer |-> a] \in FlowType
  BY DEF FlowType, InFlow
<1>3. QED
  BY <1>1, <1>2 DEF Reply

\* One flow moves; the tables stay.
LEMMA FlowMoves ==
  ASSUME IInv, NEW r \in Requests,
         UNCHANGED <<share, owner, toStart, running, addresses>>,
         flow' \in [Requests -> FlowType],
         \A q \in Requests \ {r} : flow'[q] = flow[q],
         flow'[r].pc # "own",
         flow'[r].pc \in {"claim", "issue"} => flow'[r].share \in ShareIds,
         flow'[r].pc = "claim" => share[flow'[r].share] = "DkgFinalized",
         flow'[r].pc = "issue" => owner[flow'[r].share] = UserRow(r),
         flow'[r].answer = "ok" => \E d \in addresses : d.nonce = r,
         flow'[r].pc \in {"reply", "ended"} => flow'[r].answer # "none"
  PROVE  OwnerSound' /\ FlowShares' /\ AddressSound' /\ PoolBounded'
<1>1. OwnerSound'
  BY DEF IInv, OwnerSound
<1>2. FlowShares'
  <2>1. \A q \in Requests \ {r} : flow'[q].pc = flow[q].pc /\ flow'[q].share = flow[q].share
    OBVIOUS
  <2>2. ASSUME NEW q \in Requests
        PROVE  /\ flow'[q].pc \in {"claim", "own", "issue"} => flow'[q].share \in ShareIds
               /\ flow'[q].pc = "claim" => share[flow'[q].share] = "DkgFinalized"
               /\ flow'[q].pc = "own" => owner[flow'[q].share] = NewRow(q.rune, FALSE)
               /\ flow'[q].pc = "issue" => owner[flow'[q].share] = UserRow(q)
    <3>1. CASE q = r
      BY <3>1
    <3>2. CASE q # r
      BY <2>1, <3>2 DEF IInv, FlowShares
    <3>3. QED
      BY <3>1, <3>2
  <2>3. ASSUME NEW q \in Requests, NEW u \in Requests, flow'[q].pc = "own",
               flow'[u].pc = "own", flow'[q].share = flow'[u].share
        PROVE  q = u
    BY <2>1, <2>3 DEF IInv, FlowShares
  <2>4. QED
    BY <2>2, <2>3 DEF FlowShares
<1>3. AddressSound'
  BY DEF IInv, AddressSound
<1>4. PoolBounded'
  <2>1. UnusedFinalized' = UnusedFinalized
    BY DEF UnusedFinalized, Unused
  <2>2. QED
    BY <2>1, PoolShrinks, Typed
<1>5. QED
  BY <1>1, <1>2, <1>3, <1>4

\* A flow under way moves on; the run loop does not notice.
LEMMA StillInFlow ==
  ASSUME IInv, NEW r \in Requests, UNCHANGED <<queue, flows, finished, proc, retry>>,
         flow[r].pc \in InFlow, flow'[r].pc \in InFlow,
         \A q \in Requests \ {r} : flow'[q] = flow[q]
  PROVE  RuntimeSound'
<1>1. flow[r].pc \notin {"queued", "ended"} /\ flow'[r].pc # "queued"
  BY DEF InFlow
<1>2. \A i \in 1..Len(queue) : queue[i] \in Requests
  BY Typed, ElementOfSeq
<1>3. r \in flows
  BY DEF IInv, RuntimeSound
<1>4. QED
  BY <1>1, <1>2, <1>3, Typed DEF IInv, RuntimeSound

\* A step of one flow that leaves the tables and the run loop alone.
LEMMA FlowStepIInv ==
  ASSUME IInv, NEW r \in Requests, faults' \in 0..MaxFaults,
         UNCHANGED <<share, owner, toStart, running, addresses>>,
         UNCHANGED <<queue, flows, finished, proc, retry>>,
         flow' \in [Requests -> FlowType],
         \A q \in Requests \ {r} : flow'[q] = flow[q],
         flow[r].pc \in InFlow, flow'[r].pc \in InFlow \ {"own"},
         flow'[r].pc \in {"claim", "issue"} => flow'[r].share \in ShareIds,
         flow'[r].pc = "claim" => share[flow'[r].share] = "DkgFinalized",
         flow'[r].pc = "issue" => owner[flow'[r].share] = UserRow(r),
         flow'[r].answer = "ok" => \E d \in addresses : d.nonce = r,
         flow'[r].pc = "reply" => flow'[r].answer # "none"
  PROVE  IInv'
<1>1. TypeOK'
  BY Typed DEF TypeOK
<1>2. flow'[r].pc # "ended" /\ flow'[r].pc # "own" /\ flow'[r].pc \in InFlow
  BY DEF InFlow
<1>3. OwnerSound' /\ FlowShares' /\ AddressSound' /\ PoolBounded'
  BY <1>2, FlowMoves
<1>4. RuntimeSound'
  BY <1>2, StillInFlow
<1>5. QED
  BY <1>1, <1>3, <1>4 DEF IInv

\* A flow that answers with an error.
LEMMA ReplyErrorIInv ==
  ASSUME IInv, NEW r \in Requests, faults' \in 0..MaxFaults,
         UNCHANGED <<share, owner, toStart, running, addresses>>,
         UNCHANGED <<queue, flows, finished, proc, retry>>,
         flow[r].pc \in InFlow, Reply(r, "error")
  PROVE  IInv'
<1>1. /\ flow' \in [Requests -> FlowType]
      /\ flow'[r].pc = "reply" /\ flow'[r].answer = "error"
      /\ \A q \in Requests \ {r} : flow'[q] = flow[q]
  BY ReplyFacts
<1>2. flow'[r].pc \in InFlow \ {"own"}
  BY <1>1 DEF InFlow
<1>3. QED
  BY <1>1, <1>2, FlowStepIInv

\* What FlowStep leaves alone.
LEMMA FlowStepFacts ==
  ASSUME IInv, NEW r \in Requests, NEW p \in InFlow, FlowStep(r, p)
  PROVE  /\ flow[r].pc = p /\ flow[r].pc \in InFlow
         /\ UNCHANGED <<share, toStart, running>>
         /\ UNCHANGED <<queue, flows, finished, proc, retry>>
BY DEF FlowStep, runtime

\* What LookUp finds is the row of the user for the rune.
LEMMA FoundRow ==
  ASSUME IInv, NEW r \in Requests, NEW s \in Found(r)
  PROVE  s \in ShareIds /\ owner[s] = UserRow(r)
<1>1. /\ s \in ShareIds /\ owner[s] # None
      /\ owner[s].rune = r.rune /\ owner[s].external = r.user
  BY DEF Found
<1>2. owner[s] \in Rows
  BY <1>1, Typed
<1>3. ~owner[s].issuer
  BY <1>1, RowFacts DEF IInv, OwnerSound
<1>4. owner[s].issuer = FALSE
  BY <1>2, <1>3 DEF Rows
<1>5. owner[s] = [rune |-> owner[s].rune, issuer |-> owner[s].issuer,
                  external |-> owner[s].external]
  BY <1>2 DEF Rows
<1>6. QED
  BY <1>1, <1>4, <1>5 DEF UserRow

\* The invariant is kept by LookUp.
LEMMA LookUpIInv ==
  ASSUME IInv, NEW r \in Requests, LookUp(r)
  PROVE  IInv'
<1>1. /\ flow[r].pc = "lookup" /\ flow[r].pc \in InFlow
      /\ UNCHANGED <<share, owner, toStart, running, addresses>>
      /\ UNCHANGED <<queue, flows, finished, proc, retry>>
      /\ faults' \in 0..MaxFaults
  BY FlowStepFacts, Typed DEF LookUp, InFlow
<1>2. flow[r].answer = "ok" => \E d \in addresses : d.nonce = r
  BY DEF IInv, AddressSound
<1>3. CASE Goto(r, "pick")
  <2>1. "pick" \in InFlow /\ "pick" \in InFlow \ {"own"}
    BY DEF InFlow
  <2>2. /\ flow' \in [Requests -> FlowType]
        /\ flow'[r].pc = "pick" /\ flow'[r].answer = flow[r].answer
        /\ \A q \in Requests \ {r} : flow'[q] = flow[q]
    BY <1>3, <2>1, GotoFacts
  <2>3. QED
    BY <1>1, <1>2, <2>1, <2>2, FlowStepIInv
<1>4. ASSUME NEW s \in Found(r), flow' = [flow EXCEPT ![r].pc = "issue", ![r].share = s]
      PROVE  IInv'
  <2>1. "issue" \in InFlow /\ "issue" \in InFlow \ {"own"}
    BY DEF InFlow
  <2>2. s \in ShareIds /\ owner[s] = UserRow(r)
    BY FoundRow
  <2>3. /\ flow' \in [Requests -> FlowType]
        /\ flow'[r].pc = "issue" /\ flow'[r].share = s /\ flow'[r].answer = flow[r].answer
        /\ \A q \in Requests \ {r} : flow'[q] = flow[q]
    BY <1>4, <2>1, <2>2, TakeFacts
  <2>4. QED
    BY <1>1, <1>2, <2>1, <2>2, <2>3, FlowStepIInv
<1>5. QED
  BY <1>3, <1>4 DEF LookUp

\* The invariant is kept by PickUnusedShare.
LEMMA PickUnusedShareIInv ==
  ASSUME IInv, NEW r \in Requests, PickUnusedShare(r)
  PROVE  IInv'
<1>1. /\ flow[r].pc = "pick" /\ flow[r].pc \in InFlow
      /\ UNCHANGED <<share, owner, toStart, running, addresses>>
      /\ UNCHANGED <<queue, flows, finished, proc, retry>>
      /\ faults' \in 0..MaxFaults
  BY FlowStepFacts, Typed DEF PickUnusedShare, InFlow
<1>2. flow[r].answer = "ok" => \E d \in addresses : d.nonce = r
  BY DEF IInv, AddressSound
<1>3. CASE Reply(r, "error")
  BY <1>1, <1>3, ReplyErrorIInv
<1>4. ASSUME NEW s \in UnusedFinalized, flow' = [flow EXCEPT ![r].pc = "claim", ![r].share = s]
      PROVE  IInv'
  <2>1. "claim" \in InFlow /\ "claim" \in InFlow \ {"own"}
    BY DEF InFlow
  <2>2. s \in ShareIds /\ share[s] = "DkgFinalized"
    BY StockDef
  <2>3. /\ flow' \in [Requests -> FlowType]
        /\ flow'[r].pc = "claim" /\ flow'[r].share = s /\ flow'[r].answer = flow[r].answer
        /\ \A q \in Requests \ {r} : flow'[q] = flow[q]
    BY <1>4, <2>1, <2>2, TakeFacts
  <2>4. QED
    BY <1>1, <1>2, <2>1, <2>2, <2>3, FlowStepIInv
<1>5. QED
  BY <1>3, <1>4 DEF PickUnusedShare

\* The invariant is kept by FlowErr.
LEMMA FlowErrIInv ==
  ASSUME IInv, NEW r \in Requests, FlowErr(r)
  PROVE  IInv'
<1>1. /\ flow[r].pc \in InFlow /\ Reply(r, "error")
      /\ UNCHANGED <<share, owner, toStart, running, addresses>>
      /\ UNCHANGED <<queue, flows, finished, proc, retry>>
  BY DEF FlowErr, InFlow, pool, runtime
<1>2. faults' \in 0..MaxFaults
  BY Typed, ConstantsAssumption DEF FlowErr, Fault
<1>3. QED
  BY <1>1, <1>2, ReplyErrorIInv

-----------------------------------------------------------------------------
(* The table of owners.                                                    *)

\* A share of the stock gets its first row.
LEMMA Claims ==
  ASSUME IInv, NEW q \in Requests, NEW i \in BOOLEAN, NEW s \in ShareIds,
         share[s] = "DkgFinalized", owner[s] = None,
         owner' = [owner EXCEPT ![s] = NewRow(q.rune, i)],
         UNCHANGED <<share, toStart, running>>
  PROVE  /\ owner' \in [ShareIds -> Rows \cup {None}] /\ owner'[s] = NewRow(q.rune, i)
         /\ \A t \in ShareIds \ {s} : owner'[t] = owner[t]
         /\ OwnerSound' /\ PoolBounded'
<1>1. owner \in [ShareIds -> Rows \cup {None}] /\ NewRow(q.rune, i) \in Rows
  BY Typed, RowFacts
<1>2. owner' \in [ShareIds -> Rows \cup {None}] /\ owner'[s] = NewRow(q.rune, i)
  BY <1>1
<1>3. \A t \in ShareIds \ {s} : owner'[t] = owner[t]
  BY <1>1
<1>4. owner'[s].external = None
  BY <1>2, RowFacts
<1>5. OwnerSound'
  BY <1>2, <1>3, <1>4 DEF IInv, OwnerSound
<1>6. PoolBounded'
  <2>1. owner'[s] # None
    BY <1>2, RowFacts
  <2>2. UnusedFinalized' \subseteq UnusedFinalized
    BY <1>3, <2>1, StockDef DEF UnusedFinalized, Unused
  <2>3. QED
    BY <2>2, PoolShrinks, Typed
<1>7. QED
  BY <1>2, <1>3, <1>5, <1>6

\* Which rows the flows and the addresses rest on.
LEMMA RowsHeld ==
  ASSUME IInv
  PROVE  /\ \A r \in Requests : flow[r].pc = "own" =>
              owner[flow[r].share] # None /\ owner[flow[r].share].external = None
         /\ \A r \in Requests : flow[r].pc = "issue" =>
              owner[flow[r].share] # None /\ owner[flow[r].share].external # None
         /\ \A d \in addresses : /\ d.share \in ShareIds /\ d.nonce \in Requests
                                 /\ owner[d.share] # None /\ owner[d.share].external # None
<1>1. \A r \in Requests : /\ NewRow(r.rune, FALSE) # None /\ UserRow(r) # None
                          /\ NewRow(r.rune, FALSE).external = None
                          /\ UserRow(r).external # None
  <2> TAKE r \in Requests
  <2>1. UserRow(r).external = r.user /\ r.user # None /\ UserRow(r) # None
    BY RowFacts
  <2>2. NewRow(r.rune, FALSE) # None /\ NewRow(r.rune, FALSE).external = None
    BY RowFacts
  <2>3. QED
    BY <2>1, <2>2
<1>2. \A d \in addresses : d.share \in ShareIds /\ d.nonce \in Requests
  BY Typed DEF AddressType
<1>3. \A d \in addresses : owner[d.share] = UserRow(d.nonce)
  BY DEF IInv, AddressSound
<1>4. QED
  BY <1>1, <1>2, <1>3 DEF IInv, FlowShares

\* The invariant is kept by ClaimForIssuer.
LEMMA ClaimForIssuerIInv ==
  ASSUME IInv, NEW q \in Requests, ClaimForIssuer(q.rune)
  PROVE  IInv'
<1>1. /\ UNCHANGED <<share, toStart, running, addresses>>
      /\ UNCHANGED <<queue, flows, finished, proc, retry>>
      /\ UNCHANGED <<flow, faults>>
  BY DEF ClaimForIssuer, runtime
<1>2. PICK s \in UnusedFinalized : owner' = [owner EXCEPT ![s] = NewRow(q.rune, TRUE)]
  BY DEF ClaimForIssuer
<1>3. s \in ShareIds /\ share[s] = "DkgFinalized" /\ owner[s] = None
  BY StockDef
<1>4. /\ owner' \in [ShareIds -> Rows \cup {None}] /\ owner'[s] = NewRow(q.rune, TRUE)
      /\ \A t \in ShareIds \ {s} : owner'[t] = owner[t]
      /\ OwnerSound' /\ PoolBounded'
  BY <1>1, <1>2, <1>3, Claims
<1>5. TypeOK'
  BY <1>1, <1>4, Typed DEF TypeOK
<1>6. FlowShares'
  <2>1. \A r \in Requests : flow[r].pc \in {"own", "issue"} => flow[r].share # s
    BY <1>3, RowsHeld
  <2>2. QED
    BY <1>1, <1>4, <2>1 DEF IInv, FlowShares
<1>7. AddressSound'
  <2>1. \A d \in addresses : d.share \in ShareIds \ {s}
    BY <1>3, RowsHeld
  <2>2. QED
    BY <1>1, <1>4, <2>1 DEF IInv, AddressSound
<1>8. RuntimeSound'
  BY <1>1 DEF IInv, RuntimeSound
<1>9. QED
  BY <1>4, <1>5, <1>6, <1>7, <1>8 DEF IInv

\* The invariant is kept by ClaimShare.
LEMMA ClaimShareIInv ==
  ASSUME IInv, NEW r \in Requests, ClaimShare(r)
  PROVE  IInv'
<1> DEFINE s == flow[r].share
<1>1. /\ flow[r].pc = "claim" /\ flow[r].pc \in InFlow
      /\ UNCHANGED <<share, toStart, running, addresses>>
      /\ UNCHANGED <<queue, flows, finished, proc, retry>>
      /\ faults' \in 0..MaxFaults
  BY FlowStepFacts, Typed DEF ClaimShare, InFlow
<1>2. s \in ShareIds /\ share[s] = "DkgFinalized"
  BY <1>1 DEF IInv, FlowShares
<1>3. CASE UNCHANGED owner /\ Reply(r, "error")
  BY <1>1, <1>3, ReplyErrorIInv
<1>4. CASE /\ owner[s] = None /\ Goto(r, "own")
           /\ owner' = [owner EXCEPT ![s] = NewRow(r.rune, FALSE)]
  <2>1. /\ owner' \in [ShareIds -> Rows \cup {None}] /\ owner'[s] = NewRow(r.rune, FALSE)
        /\ \A t \in ShareIds \ {s} : owner'[t] = owner[t]
        /\ OwnerSound' /\ PoolBounded'
    BY <1>1, <1>2, <1>4, Claims
  <2>2. "own" \in InFlow
    BY DEF InFlow
  <2>3. /\ flow' \in [Requests -> FlowType]
        /\ flow'[r].pc = "own" /\ flow'[r].share = s /\ flow'[r].answer = flow[r].answer
        /\ \A q \in Requests \ {r} : flow'[q] = flow[q]
    BY <1>4, <2>2, GotoFacts
  <2> HIDE DEF s
  <2>4. TypeOK'
    BY <1>1, <2>1, <2>3, Typed DEF TypeOK
  <2>5. \A q \in Requests : flow[q].pc \in {"own", "issue"} => flow[q].share # s
    BY <1>4, RowsHeld
  <2>6. FlowShares'
    <3>1. \A q \in Requests \ {r} : flow'[q].pc = flow[q].pc /\ flow'[q].share = flow[q].share
      BY <2>3
    <3>2. ASSUME NEW q \in Requests
          PROVE  /\ flow'[q].pc \in {"claim", "own", "issue"} => flow'[q].share \in ShareIds
                 /\ flow'[q].pc = "claim" => share'[flow'[q].share] = "DkgFinalized"
                 /\ flow'[q].pc = "own" => owner'[flow'[q].share] = NewRow(q.rune, FALSE)
                 /\ flow'[q].pc = "issue" => owner'[flow'[q].share] = UserRow(q)
      <4>1. CASE q = r
        BY <1>2, <2>1, <2>3, <4>1
      <4>2. CASE q # r
        <5>1. /\ flow'[q].pc = flow[q].pc /\ flow'[q].share = flow[q].share
              /\ flow[q].pc \in {"own", "issue"} => flow[q].share # s
          BY <2>5, <3>1, <4>2
        <5>2. /\ flow[q].pc \in {"claim", "own", "issue"} => flow[q].share \in ShareIds
              /\ flow[q].pc = "claim" => share[flow[q].share] = "DkgFinalized"
              /\ flow[q].pc = "own" => owner[flow[q].share] = NewRow(q.rune, FALSE)
              /\ flow[q].pc = "issue" => owner[flow[q].share] = UserRow(q)
          BY DEF IInv, FlowShares
        <5>3. QED
          BY <1>1, <2>1, <5>1, <5>2
      <4>3. QED
        BY <4>1, <4>2
    <3>3. ASSUME NEW q \in Requests, NEW u \in Requests, flow'[q].pc = "own",
                 flow'[u].pc = "own", flow'[q].share = flow'[u].share
          PROVE  q = u
      BY <2>3, <2>5, <3>1, <3>3 DEF IInv, FlowShares
    <3>4. QED
      BY <3>2, <3>3 DEF FlowShares
  <2>7. AddressSound'
    <3>1. \A d \in addresses : d.share \in ShareIds \ {s}
      BY <1>4, RowsHeld
    <3>2. QED
      BY <1>1, <2>1, <2>3, <3>1 DEF IInv, AddressSound
  <2>8. RuntimeSound'
    BY <1>1, <2>2, <2>3, StillInFlow
  <2>9. QED
    BY <2>1, <2>4, <2>6, <2>7, <2>8 DEF IInv
<1>5. QED
  BY <1>3, <1>4 DEF ClaimShare

\* The invariant is kept by SetExternalUserId.
LEMMA SetExternalUserIdIInv ==
  ASSUME IInv, NEW r \in Requests, SetExternalUserId(r)
  PROVE  IInv'
<1> DEFINE s == flow[r].share
<1>1. /\ flow[r].pc = "own" /\ flow[r].pc \in InFlow
      /\ UNCHANGED <<share, toStart, running, addresses>>
      /\ UNCHANGED <<queue, flows, finished, proc, retry>>
      /\ faults' \in 0..MaxFaults
  BY FlowStepFacts, Typed DEF SetExternalUserId, InFlow
<1>2. s \in ShareIds /\ owner[s] = NewRow(r.rune, FALSE)
  BY <1>1 DEF IInv, FlowShares
<1>3. CASE UNCHANGED owner /\ Reply(r, "error")
  BY <1>1, <1>3, ReplyErrorIInv
<1>4. CASE /\ Found(r) = {} /\ Goto(r, "issue")
           /\ owner' = [owner EXCEPT ![s].external = r.user]
  <2>1. owner' = [owner EXCEPT ![s] = UserRow(r)]
    <3>1. [owner[s] EXCEPT !.external = r.user] = UserRow(r)
      <4> DEFINE x == [owner[s] EXCEPT !.external = r.user]
      <4>1. /\ owner[s] \in Rows /\ r.user \in Users
            /\ owner[s].rune = r.rune /\ owner[s].issuer = FALSE
        BY <1>2, RowFacts
      <4>2. x \in Rows /\ x.rune = r.rune /\ x.issuer = FALSE /\ x.external = r.user
        BY <4>1 DEF Rows
      <4> HIDE DEF x
      <4>3. x = [rune |-> x.rune, issuer |-> x.issuer, external |-> x.external]
        BY <4>2 DEF Rows
      <4>4. x = UserRow(r)
        BY <4>2, <4>3 DEF UserRow
      <4>5. QED
        BY <4>4 DEF x
    <3>2. QED
      BY <1>2, <1>4, <3>1
  <2>2. /\ owner' \in [ShareIds -> Rows \cup {None}] /\ owner'[s] = UserRow(r)
        /\ \A t \in ShareIds \ {s} : owner'[t] = owner[t]
    BY <1>2, <2>1, RowFacts, Typed
  <2>3. "issue" \in InFlow
    BY DEF InFlow
  <2>4. /\ flow' \in [Requests -> FlowType]
        /\ flow'[r].pc = "issue" /\ flow'[r].share = s /\ flow'[r].answer = flow[r].answer
        /\ \A q \in Requests \ {r} : flow'[q] = flow[q]
    BY <1>4, <2>3, GotoFacts
  <2> HIDE DEF s
  <2>5. TypeOK'
    BY <1>1, <2>2, <2>4, Typed DEF TypeOK
  <2>6. owner[s] # None /\ owner[s].external = None /\ ~owner[s].issuer
    BY <1>2, RowFacts
  <2>7. OwnerSound'
    <3>1. /\ owner'[s] # None /\ ~owner'[s].issuer
          /\ owner'[s].rune = r.rune /\ owner'[s].external = r.user
      BY <2>2, RowFacts
    <3>2. \A t \in ShareIds : ~(owner[t] # None /\ owner[t].rune = r.rune
                                /\ owner[t].external = r.user)
      BY <1>4 DEF Found
    <3>3. \A t \in ShareIds : owner'[t] # None =>
            /\ share'[t] = "DkgFinalized"
            /\ owner'[t].issuer => owner'[t].external = None
      BY <1>1, <1>2, <2>2, <2>6, <3>1 DEF IInv, OwnerSound
    <3>4. ASSUME NEW t \in ShareIds, NEW u \in ShareIds, owner'[t] # None, owner'[u] # None,
                 owner'[t].rune = owner'[u].rune, owner'[t].external = owner'[u].external,
                 owner'[t].external # None
          PROVE  t = u
      <4>1. CASE t = s \/ u = s
        BY <2>2, <3>1, <3>2, <3>4, <4>1
      <4>2. CASE t # s /\ u # s
        BY <2>2, <3>4, <4>2 DEF IInv, OwnerSound
      <4>3. QED
        BY <4>1, <4>2
    <3>5. \A t \in running' : share'[t] = "unfinished"
      BY <1>1 DEF IInv, OwnerSound
    <3>6. QED
      BY <3>3, <3>4, <3>5 DEF OwnerSound
  <2>8. PoolBounded'
    <3>1. UnusedFinalized' \subseteq UnusedFinalized
      <4>1. owner'[s] # None
        BY <2>2, RowFacts
      <4>2. QED
        BY <1>1, <2>2, <4>1 DEF UnusedFinalized, Unused
    <3>2. QED
      BY <1>1, <3>1, PoolShrinks, Typed
  <2>9. \A q \in Requests \ {r} : flow[q].pc \in {"own", "issue"} => flow[q].share # s
    BY <1>1, <2>6, RowsHeld DEF IInv, FlowShares, s
  <2>10. FlowShares'
    <3>1. \A q \in Requests \ {r} : flow'[q].pc = flow[q].pc /\ flow'[q].share = flow[q].share
      BY <2>4
    <3>2. ASSUME NEW q \in Requests
          PROVE  /\ flow'[q].pc \in {"claim", "own", "issue"} => flow'[q].share \in ShareIds
                 /\ flow'[q].pc = "claim" => share'[flow'[q].share] = "DkgFinalized"
                 /\ flow'[q].pc = "own" => owner'[flow'[q].share] = NewRow(q.rune, FALSE)
                 /\ flow'[q].pc = "issue" => owner'[flow'[q].share] = UserRow(q)
      <4>1. CASE q = r
        BY <1>2, <2>2, <2>4, <4>1
      <4>2. CASE q # r
        <5>1. /\ flow'[q].pc = flow[q].pc /\ flow'[q].share = flow[q].share
              /\ flow[q].pc \in {"own", "issue"} => flow[q].share # s
          BY <2>9, <3>1, <4>2
        <5>2. /\ flow[q].pc \in {"claim", "own", "issue"} => flow[q].share \in ShareIds
              /\ flow[q].pc = "claim" => share[flow[q].share] = "DkgFinalized"
              /\ flow[q].pc = "own" => owner[flow[q].share] = NewRow(q.rune, FALSE)
              /\ flow[q].pc = "issue" => owner[flow[q].share] = UserRow(q)
          BY DEF IInv, FlowShares
        <5>3. QED
          BY <1>1, <2>2, <5>1, <5>2
      <4>3. QED
        BY <4>1, <4>2
    <3>3. ASSUME NEW q \in Requests, NEW u \in Requests, flow'[q].pc = "own",
                 flow'[u].pc = "own", flow'[q].share = flow'[u].share
          PROVE  q = u
      BY <2>4, <3>1, <3>3 DEF IInv, FlowShares
    <3>4. QED
      BY <3>2, <3>3 DEF FlowShares
  <2>11. AddressSound'
    <3>1. \A d \in addresses : d.share \in ShareIds \ {s}
      BY <2>6, RowsHeld
    <3>2. QED
      BY <1>1, <2>2, <2>4, <3>1 DEF IInv, AddressSound
  <2>12. RuntimeSound'
    BY <1>1, <2>3, <2>4, StillInFlow
  <2>13. QED
    BY <2>5, <2>7, <2>8, <2>10, <2>11, <2>12 DEF IInv
<1>5. QED
  BY <1>3, <1>4 DEF SetExternalUserId

\* The invariant is kept by IssueAddress.
LEMMA IssueAddressIInv ==
  ASSUME IInv, NEW r \in Requests, IssueAddress(r)
  PROVE  IInv'
<1> DEFINE s == flow[r].share
<1>1. /\ flow[r].pc = "issue" /\ flow[r].pc \in InFlow
      /\ UNCHANGED <<share, owner, toStart, running>>
      /\ UNCHANGED <<queue, flows, finished, proc, retry>>
      /\ faults' \in 0..MaxFaults
  BY FlowStepFacts, Typed DEF IssueAddress, InFlow
<1>2. s \in ShareIds /\ owner[s] = UserRow(r)
  BY <1>1 DEF IInv, FlowShares
<1>3. CASE UNCHANGED addresses /\ Reply(r, "error")
  BY <1>1, <1>3, ReplyErrorIInv
<1>4. ASSUME NEW n \in Normalized(r.amount), Reply(r, "ok"),
             addresses' = addresses \cup
               {[share |-> s, nonce |-> r, kind |-> r.kind, requested |-> r.amount, amount |-> n]}
      PROVE  IInv'
  <2> DEFINE d0 == [share |-> s, nonce |-> r, kind |-> r.kind, requested |-> r.amount,
                    amount |-> n]
  <2>1. n \in 0..MaxAmount /\ n \in {r.amount, Scaled(r.amount)}
    BY ConstantsAssumption DEF Normalized
  <2>2. d0 \in AddressType
    BY <1>2, <2>1, ConstantsAssumption DEF AddressType
  <2>3. d0.share = s /\ d0.nonce = r /\ d0.amount = n
    OBVIOUS
  <2>4. addresses' = addresses \cup {d0}
    BY <1>4
  <2>5. /\ flow' \in [Requests -> FlowType]
        /\ flow'[r].pc = "reply" /\ flow'[r].answer = "ok"
        /\ \A q \in Requests \ {r} : flow'[q] = flow[q]
    BY <1>4, ReplyFacts
  <2> HIDE DEF d0, s
  <2>6. TypeOK'
    BY <1>1, <2>2, <2>4, <2>5, Typed DEF TypeOK
  <2>7. OwnerSound'
    BY <1>1 DEF IInv, OwnerSound
  <2>8. PoolBounded'
    <3>1. UnusedFinalized' = UnusedFinalized
      BY <1>1 DEF UnusedFinalized, Unused
    <3>2. QED
      BY <1>1, <3>1, PoolShrinks, Typed
  <2>9. FlowShares'
    <3>1. \A q \in Requests \ {r} : flow'[q].pc = flow[q].pc /\ flow'[q].share = flow[q].share
      BY <2>5
    <3>2. QED
      BY <1>1, <2>5, <3>1 DEF IInv, FlowShares
  <2>10. AddressSound'
    <3>1. ASSUME NEW d \in addresses'
          PROVE  /\ owner'[d.share] = UserRow(d.nonce)
                 /\ d.amount \in {d.nonce.amount, Scaled(d.nonce.amount)}
      <4>1. CASE d = d0
        BY <1>1, <1>2, <2>1, <2>3, <4>1
      <4>2. CASE d \in addresses
        BY <1>1, <4>2 DEF IInv, AddressSound
      <4>3. QED
        BY <2>4, <4>1, <4>2
    <3>2. d0 \in addresses' /\ d0.nonce = r
      BY <2>3, <2>4
    <3>3. ASSUME NEW q \in Requests
          PROVE  /\ flow'[q].answer = "ok" => \E d \in addresses' : d.nonce = q
                 /\ flow'[q].pc \in {"reply", "ended"} => flow'[q].answer # "none"
      <4>1. CASE q = r
        BY <2>5, <3>2, <4>1
      <4>2. CASE q # r
        BY <2>4, <2>5, <4>2 DEF IInv, AddressSound
      <4>3. QED
        BY <4>1, <4>2
    <3>4. QED
      BY <3>1, <3>3 DEF AddressSound
  <2>11. RuntimeSound'
    BY <1>1, <2>5, StillInFlow DEF InFlow
  <2>12. QED
    BY <2>6, <2>7, <2>8, <2>9, <2>10, <2>11 DEF IInv
<1>5. QED
  BY <1>3, <1>4 DEF IssueAddress

-----------------------------------------------------------------------------
(* The run loop.                                                           *)

\* A request outside the flows, the queue and the ended ones moves unseen.
LEMMA Queued ==
  ASSUME IInv
  PROVE  /\ \A i \in 1..Len(queue) : queue[i] \in Requests /\ flow[queue[i]].pc = "queued"
         /\ Len(queue) \in Nat
<1>1. queue \in Seq(Requests)
  BY Typed
<1>2. QED
  BY <1>1, ElementOfSeq, LenProperties DEF IInv, RuntimeSound

\* The invariant is kept by Call.
LEMMA CallIInv ==
  ASSUME IInv, NEW r \in Requests, Call(r)
  PROVE  IInv'
<1>1. /\ flow[r].pc = "idle" /\ Goto(r, "sending")
      /\ UNCHANGED <<share, owner, toStart, running, addresses>>
      /\ UNCHANGED <<queue, flows, finished, proc, retry>> /\ UNCHANGED faults
  BY DEF Call, pool, runtime
<1>2. /\ flow' \in [Requests -> FlowType]
      /\ flow'[r].pc = "sending" /\ flow'[r].share = flow[r].share
      /\ flow'[r].answer = flow[r].answer
      /\ \A q \in Requests \ {r} : flow'[q] = flow[q]
  BY <1>1, GotoFacts
<1>3. TypeOK'
  BY <1>1, <1>2, Typed DEF TypeOK
<1>4. flow[r].answer = "ok" => \E d \in addresses : d.nonce = r
  BY DEF IInv, AddressSound
<1>5. OwnerSound' /\ FlowShares' /\ AddressSound' /\ PoolBounded'
  BY <1>1, <1>2, <1>4, FlowMoves
<1>6. RuntimeSound'
  BY <1>1, <1>2, Queued, Typed DEF IInv, RuntimeSound, InFlow
<1>7. QED
  BY <1>3, <1>5, <1>6 DEF IInv

\* The invariant is kept by SendMessage.
LEMMA SendMessageIInv ==
  ASSUME IInv, NEW r \in Requests, SendMessage(r)
  PROVE  IInv'
<1>1. /\ flow[r].pc = "sending" /\ UNCHANGED <<share, owner, toStart, running, addresses>>
      /\ UNCHANGED <<flows, finished, proc, retry, faults>>
  BY DEF SendMessage, pool
<1>2. flow[r].answer = "ok" => \E d \in addresses : d.nonce = r
  BY DEF IInv, AddressSound
<1>3. CASE proc # "stopped" /\ queue' = Append(queue, r) /\ Goto(r, "queued")
  <2>1. /\ flow' \in [Requests -> FlowType]
        /\ flow'[r].pc = "queued" /\ flow'[r].share = flow[r].share
        /\ flow'[r].answer = flow[r].answer
        /\ \A q \in Requests \ {r} : flow'[q] = flow[q]
    BY <1>3, GotoFacts
  <2>2. /\ queue' \in Seq(Requests) /\ Len(queue') = Len(queue) + 1
        /\ \A i \in 1..Len(queue) : queue'[i] = queue[i]
        /\ queue'[Len(queue) + 1] = r
    BY <1>3, Typed, AppendProperties
  <2>3. TypeOK'
    BY <1>1, <2>1, <2>2, Typed DEF TypeOK
  <2>4. OwnerSound' /\ FlowShares' /\ AddressSound' /\ PoolBounded'
    BY <1>1, <1>2, <2>1, FlowMoves
  <2>5. RuntimeSound'
    <3>1. \A i \in 1..Len(queue') : i \in 1..Len(queue) \/ i = Len(queue) + 1
      BY <2>2, Queued
    <3>2. \A i \in 1..Len(queue) : queue[i] \in Requests \ {r}
      BY <1>1, Queued
    <3>3. \A i \in 1..Len(queue') : flow'[queue'[i]].pc = "queued"
      BY <2>1, <2>2, <3>1, <3>2, Queued
    <3>4. \A i, j \in 1..Len(queue') : queue'[i] = queue'[j] => i = j
      BY <2>2, <3>1, <3>2 DEF IInv, RuntimeSound
    <3>5. QED
      BY <1>1, <1>3, <2>1, <3>3, <3>4, Typed DEF IInv, RuntimeSound, InFlow
  <2>6. QED
    BY <2>3, <2>4, <2>5 DEF IInv
<1>4. CASE /\ UNCHANGED queue
           /\ flow' = [flow EXCEPT ![r].pc = "ended", ![r].answer = "error"]
  <2>1. flow \in [Requests -> FlowType] /\ flow[r] \in FlowType
    BY Typed
  <2>2. flow' = [flow EXCEPT ![r] = [flow[r] EXCEPT !.pc = "ended", !.answer = "error"]]
    BY <1>4, <2>1
  <2>3. /\ [flow[r] EXCEPT !.pc = "ended", !.answer = "error"] \in FlowType
        /\ [flow[r] EXCEPT !.pc = "ended", !.answer = "error"].pc = "ended"
        /\ [flow[r] EXCEPT !.pc = "ended", !.answer = "error"].answer = "error"
    BY <2>1 DEF FlowType
  <2>4. /\ flow' \in [Requests -> FlowType]
        /\ flow'[r].pc = "ended" /\ flow'[r].answer = "error"
        /\ \A q \in Requests \ {r} : flow'[q] = flow[q]
    BY <2>1, <2>2, <2>3
  <2>5. TypeOK'
    BY <1>1, <1>4, <2>4, Typed DEF TypeOK
  <2>6. OwnerSound' /\ FlowShares' /\ AddressSound' /\ PoolBounded'
    BY <1>1, <2>4, FlowMoves
  <2>7. RuntimeSound'
    BY <1>1, <1>4, <2>4, Queued, Typed DEF IInv, RuntimeSound, InFlow
  <2>8. QED
    BY <2>5, <2>6, <2>7 DEF IInv
<1>5. QED
  BY <1>3, <1>4 DEF SendMessage

\* The invariant is kept by ReceiveMessage.
LEMMA ReceiveMessageIInv ==
  ASSUME IInv, ReceiveMessage
  PROVE  IInv'
<1> DEFINE r == Head(queue)
<1>1. /\ proc = "running" /\ queue # <<>> /\ queue' = Tail(queue) /\ flows' = flows \cup {r}
      /\ Goto(r, "lookup") /\ UNCHANGED <<share, owner, toStart, running, addresses>>
      /\ UNCHANGED <<finished, proc, retry, faults>>
  BY DEF ReceiveMessage, pool
<1>2. /\ r \in Requests /\ r = queue[1] /\ Len(queue) \in Nat \ {0}
      /\ queue' \in Seq(Requests) /\ Len(queue') = Len(queue) - 1
      /\ \A i \in 1..Len(queue') : queue'[i] = queue[i + 1]
  BY <1>1, Typed, HeadTailProperties, EmptySeq, LenProperties
<1>3. flow[r].pc = "queued"
  BY <1>2, Queued
<1>4. /\ flow' \in [Requests -> FlowType]
      /\ flow'[r].pc = "lookup" /\ flow'[r].share = flow[r].share
      /\ flow'[r].answer = flow[r].answer
      /\ \A q \in Requests \ {r} : flow'[q] = flow[q]
  BY <1>1, <1>2, GotoFacts DEF InFlow
<1> HIDE DEF r
<1>5. TypeOK'
  BY <1>1, <1>2, <1>4, Typed DEF TypeOK
<1>6. flow[r].answer = "ok" => \E d \in addresses : d.nonce = r
  BY <1>2 DEF IInv, AddressSound
<1>7. OwnerSound' /\ FlowShares' /\ AddressSound' /\ PoolBounded'
  BY <1>1, <1>2, <1>4, <1>6, FlowMoves
<1>8. RuntimeSound'
  <2>1. \A i \in 1..Len(queue') : i + 1 \in 1..Len(queue) /\ i + 1 # 1
    BY <1>2
  <2>2. \A i \in 1..Len(queue') : queue'[i] \in Requests \ {r} /\ flow[queue'[i]].pc = "queued"
    <3>1. 1 \in 1..Len(queue)
      BY <1>2
    <3>2. \A i \in 1..Len(queue) : queue[i] = queue[1] => i = 1
      BY <3>1 DEF IInv, RuntimeSound
    <3>3. QED
      BY <1>2, <2>1, <3>2, Queued
  <2>3. \A i, j \in 1..Len(queue') : queue'[i] = queue'[j] => i = j
    <3>1. \A i, j \in 1..Len(queue') : queue'[i] = queue'[j] => i + 1 = j + 1
      BY <1>2, <2>1 DEF IInv, RuntimeSound
    <3>2. QED
      BY <1>2, <3>1
  <2>4. \A i \in 1..Len(queue') : flow'[queue'[i]].pc = "queued"
    BY <1>4, <2>2
  <2>5. \A q \in finished : flow'[q].pc = "ended"
    BY <1>3, <1>4, Typed DEF IInv, RuntimeSound
  <2>6. \A q \in Requests : flow'[q].pc \in InFlow => q \in flows'
    BY <1>1, <1>4 DEF IInv, RuntimeSound
  <2>7. QED
    BY <1>1, <2>3, <2>4, <2>5, <2>6 DEF RuntimeSound
<1>9. QED
  BY <1>5, <1>7, <1>8 DEF IInv

\* What changes neither the tables nor a flow.
LEMMA LoopFrame ==
  ASSUME IInv, UNCHANGED <<share, owner, toStart, running, addresses>>, UNCHANGED flow
  PROVE  OwnerSound' /\ FlowShares' /\ AddressSound' /\ PoolBounded'
<1>1. OwnerSound' /\ FlowShares' /\ AddressSound'
  BY DEF IInv, OwnerSound, FlowShares, AddressSound
<1>2. UnusedFinalized' = UnusedFinalized
  BY DEF UnusedFinalized, Unused
<1>3. QED
  BY <1>1, <1>2, PoolShrinks, Typed

\* The invariant is kept by ReceiveFinished.
LEMMA ReceiveFinishedIInv ==
  ASSUME IInv, ReceiveFinished
  PROVE  IInv'
<1>1. PICK r \in finished : flows' = flows \ {r} /\ finished' = finished \ {r}
  BY DEF ReceiveFinished
<1>2. /\ proc = "running" /\ UNCHANGED <<share, owner, toStart, running, addresses>>
      /\ UNCHANGED <<queue, proc, retry, faults>> /\ UNCHANGED flow
  BY DEF ReceiveFinished, pool
<1>3. TypeOK'
  BY <1>1, <1>2, Typed DEF TypeOK
<1>4. flow[r].pc \notin InFlow
  BY DEF IInv, RuntimeSound, InFlow
<1>5. RuntimeSound'
  BY <1>1, <1>2, <1>4 DEF IInv, RuntimeSound
<1>6. QED
  BY <1>2, <1>3, <1>5, LoopFrame DEF IInv

\* The invariant is kept by Shutdown.
LEMMA ShutdownIInv ==
  ASSUME IInv, Shutdown
  PROVE  IInv'
<1>1. /\ proc' = "draining" /\ UNCHANGED <<share, owner, toStart, running, addresses>>
      /\ UNCHANGED <<queue, flows, finished, retry, faults>> /\ UNCHANGED flow
  BY DEF Shutdown, pool
<1>2. TypeOK' /\ RuntimeSound'
  BY <1>1 DEF IInv, TypeOK, RuntimeSound
<1>3. QED
  BY <1>1, <1>2, LoopFrame DEF IInv

\* The invariant is kept by DrainRound.
LEMMA DrainRoundIInv ==
  ASSUME IInv, DrainRound
  PROVE  IInv'
<1>1. /\ proc = "draining" /\ retry < Retries /\ flows' = flows \ finished /\ finished' = {}
      /\ retry' = retry + 1 /\ UNCHANGED <<share, owner, toStart, running, addresses>>
      /\ UNCHANGED <<queue, proc, faults>> /\ UNCHANGED flow
  BY DEF DrainRound, pool
<1>2. retry' \in 0..Retries
  BY <1>1, ConstantsAssumption DEF IInv, TypeOK
<1>3. TypeOK'
  BY <1>1, <1>2 DEF IInv, TypeOK
<1>4. \A r \in finished : flow[r].pc \notin InFlow
  BY DEF IInv, RuntimeSound, InFlow
<1>5. RuntimeSound'
  BY <1>1, <1>4 DEF IInv, RuntimeSound
<1>6. QED
  BY <1>1, <1>3, <1>5, LoopFrame DEF IInv

\* The invariant is kept by AnnounceEnd.
LEMMA AnnounceEndIInv ==
  ASSUME IInv, NEW r \in Requests, AnnounceEnd(r)
  PROVE  IInv'
<1>1. /\ flow[r].pc = "reply" /\ finished' = finished \cup {r} /\ Goto(r, "ended")
      /\ UNCHANGED <<share, owner, toStart, running, addresses>>
      /\ UNCHANGED <<queue, flows, proc, retry, faults>>
  BY DEF AnnounceEnd, pool
<1>2. /\ flow' \in [Requests -> FlowType]
      /\ flow'[r].pc = "ended" /\ flow'[r].share = flow[r].share
      /\ flow'[r].answer = flow[r].answer
      /\ \A q \in Requests \ {r} : flow'[q] = flow[q]
  BY <1>1, GotoFacts
<1>3. TypeOK'
  BY <1>1, <1>2, Typed DEF TypeOK
<1>4. flow[r].answer # "none" /\ (flow[r].answer = "ok" => \E d \in addresses : d.nonce = r)
  BY <1>1 DEF IInv, AddressSound
<1>5. OwnerSound' /\ FlowShares' /\ AddressSound' /\ PoolBounded'
  BY <1>1, <1>2, <1>4, FlowMoves
<1>6. RuntimeSound'
  BY <1>1, <1>2, Queued, Typed DEF IInv, RuntimeSound, InFlow
<1>7. QED
  BY <1>3, <1>5, <1>6 DEF IInv

\* A dropped flow holds no share and its caller has an answer.
LEMMA ClosedFacts ==
  ASSUME NEW f \in FlowType
  PROVE  /\ Closed(f) \in FlowType /\ Closed(f).pc = "ended" /\ Closed(f).answer # "none"
         /\ Closed(f).answer = "ok" => f.answer = "ok"
<1>1. f.answer \in {"none", "ok", "error"}
  BY DEF FlowType
<1>2. QED
  BY <1>1 DEF Closed, FlowType

\* Dropping flows, the tables kept.
LEMMA Drops ==
  ASSUME IInv, UNCHANGED <<share, owner, addresses>>,
         flow' \in [Requests -> FlowType],
         \A r \in Requests : flow'[r] = flow[r] \/ flow'[r] = Closed(flow[r])
  PROVE  FlowShares' /\ AddressSound'
<1>1. \A r \in Requests : flow[r] \in FlowType
  BY Typed
<1>2. ASSUME NEW r \in Requests, flow'[r].pc # "ended"
      PROVE  flow'[r] = flow[r]
  BY <1>1, <1>2, ClosedFacts
<1>3. FlowShares'
  <2>1. ASSUME NEW q \in Requests
        PROVE  /\ flow'[q].pc \in {"claim", "own", "issue"} => flow'[q].share \in ShareIds
               /\ flow'[q].pc = "claim" => share[flow'[q].share] = "DkgFinalized"
               /\ flow'[q].pc = "own" => owner[flow'[q].share] = NewRow(q.rune, FALSE)
               /\ flow'[q].pc = "issue" => owner[flow'[q].share] = UserRow(q)
    <3>1. CASE flow'[q].pc = "ended"
      BY <3>1
    <3>2. CASE flow'[q] = flow[q]
      BY <3>2 DEF IInv, FlowShares
    <3>3. QED
      BY <1>2, <3>1, <3>2
  <2>2. ASSUME NEW q \in Requests, NEW u \in Requests, flow'[q].pc = "own",
               flow'[u].pc = "own", flow'[q].share = flow'[u].share
        PROVE  q = u
    BY <1>2, <2>2 DEF IInv, FlowShares
  <2>3. QED
    BY <2>1, <2>2 DEF FlowShares
<1>4. AddressSound'
  <2>1. ASSUME NEW q \in Requests
        PROVE  /\ flow'[q].answer = "ok" => flow[q].answer = "ok"
               /\ flow'[q].pc \in {"reply", "ended"} => flow'[q].answer # "none"
    <3>1. CASE flow'[q] = flow[q]
      BY <3>1 DEF IInv, AddressSound
    <3>2. CASE flow'[q] = Closed(flow[q])
      BY <1>1, <3>2, ClosedFacts
    <3>3. QED
      BY <3>1, <3>2
  <2>2. QED
    BY <2>1 DEF IInv, AddressSound
<1>5. QED
  BY <1>3, <1>4

\* The invariant is kept by Stop.
LEMMA StopIInv ==
  ASSUME IInv, Stop
  PROVE  IInv'
<1>1. /\ flows' = {} /\ queue' = <<>> /\ finished' = {} /\ proc' = "stopped"
      /\ UNCHANGED <<share, owner, toStart, running, addresses>> /\ UNCHANGED <<retry, faults>>
      /\ flow' = [r \in Requests |->
                    IF r \in flows \/ flow[r].pc = "queued" THEN Closed(flow[r]) ELSE flow[r]]
  BY DEF Stop, pool
<1>2. \A r \in Requests : flow[r] \in FlowType /\ Closed(flow[r]) \in FlowType
  BY Typed, ClosedFacts
<1>3. /\ flow' \in [Requests -> FlowType]
      /\ \A r \in Requests : flow'[r] = flow[r] \/ flow'[r] = Closed(flow[r])
      /\ \A r \in Requests : r \in flows \/ flow[r].pc = "queued" => flow'[r] = Closed(flow[r])
  BY <1>1, <1>2
<1>4. TypeOK'
  <2>1. queue' \in Seq(Requests)
    BY <1>1
  <2>2. QED
    BY <1>1, <1>3, <2>1, Typed DEF TypeOK
<1>5. FlowShares' /\ AddressSound'
  BY <1>1, <1>3, Drops
<1>6. OwnerSound'
  BY <1>1 DEF IInv, OwnerSound
<1>7. PoolBounded'
  <2>1. UnusedFinalized' = UnusedFinalized
    BY <1>1 DEF UnusedFinalized, Unused
  <2>2. QED
    BY <1>1, <2>1, PoolShrinks, Typed
<1>8. RuntimeSound'
  <2>1. ASSUME NEW r \in Requests PROVE flow'[r].pc \notin InFlow /\ flow'[r].pc # "queued"
    <3>1. CASE flow'[r] = Closed(flow[r])
      BY <1>2, <3>1, ClosedFacts DEF InFlow
    <3>2. CASE flow'[r] # Closed(flow[r])
      BY <1>3, <3>2 DEF IInv, RuntimeSound
    <3>3. QED
      BY <3>1, <3>2
  <2>2. Len(queue') = 0
    BY <1>1
  <2>3. QED
    BY <1>1, <2>1, <2>2 DEF RuntimeSound
<1>9. QED
  BY <1>4, <1>5, <1>6, <1>7, <1>8 DEF IInv

\* The invariant is kept by Restart.
LEMMA RestartIInv ==
  ASSUME IInv, Restart
  PROVE  IInv'
<1>1. /\ flows' = {} /\ queue' = <<>> /\ finished' = {} /\ proc' = "running" /\ retry' = 0
      /\ toStart' = 0 /\ running' = {} /\ UNCHANGED <<share, owner, addresses>>
      /\ flow' = [r \in Requests |->
                    IF flow[r].pc \in Ended THEN flow[r] ELSE Closed(flow[r])]
  BY DEF Restart
<1>2. faults' \in 0..MaxFaults /\ 0 \in 0..Retries
  BY Typed, ConstantsAssumption DEF Restart, Fault
<1>3. \A r \in Requests : flow[r] \in FlowType /\ Closed(flow[r]) \in FlowType
  BY Typed, ClosedFacts
<1>4. /\ flow' \in [Requests -> FlowType]
      /\ \A r \in Requests : flow'[r] = flow[r] \/ flow'[r] = Closed(flow[r])
      /\ \A r \in Requests : flow[r].pc \notin Ended => flow'[r] = Closed(flow[r])
  BY <1>1, <1>3
<1>5. TypeOK'
  <2>1. queue' \in Seq(Requests)
    BY <1>1
  <2>2. QED
    BY <1>1, <1>2, <1>4, <2>1, Typed DEF TypeOK
<1>6. FlowShares' /\ AddressSound'
  BY <1>1, <1>4, Drops
<1>7. OwnerSound'
  BY <1>1 DEF IInv, OwnerSound
<1>8. PoolBounded'
  <2>1. UnusedFinalized' = UnusedFinalized
    BY <1>1 DEF UnusedFinalized, Unused
  <2>2. QED
    BY <1>1, <2>1, PoolShrinks, Typed
<1>9. RuntimeSound'
  <2>1. ASSUME NEW r \in Requests PROVE flow'[r].pc \notin InFlow
    <3>1. CASE flow'[r] = Closed(flow[r])
      BY <1>3, <3>1, ClosedFacts DEF InFlow
    <3>2. CASE flow'[r] # Closed(flow[r])
      BY <1>4, <3>2 DEF Ended, InFlow
    <3>3. QED
      BY <3>1, <3>2
  <2>2. Len(queue') = 0
    BY <1>1
  <2>3. QED
    BY <1>1, <2>1, <2>2 DEF RuntimeSound
<1>10. QED
  BY <1>5, <1>6, <1>7, <1>8, <1>9 DEF IInv

-----------------------------------------------------------------------------
(* The theorems.                                                           *)

\* Every step keeps the invariant.
LEMMA NextIInv == IInv /\ [Next]_vars => IInv'
<1> SUFFICES ASSUME IInv, [Next]_vars PROVE IInv'
  OBVIOUS
<1>1. CASE PregenLoop
  BY <1>1, PerformUpdateIInv, GenerateDkgShareEntityIInv, RunDkgFlowIInv DEF PregenLoop
<1>2. ASSUME NEW r \in Requests, Call(r) \/ SendMessage(r) \/ RunFlow(r) \/ FlowErr(r)
      PROVE  IInv'
  <2>1. CASE RunFlow(r)
    BY <2>1, LookUpIInv, PickUnusedShareIInv, ClaimShareIInv, SetExternalUserIdIInv,
       IssueAddressIInv, AnnounceEndIInv DEF RunFlow
  <2>2. QED
    BY <1>2, <2>1, CallIInv, SendMessageIInv, FlowErrIInv
<1>3. ASSUME NEW r \in Requests, ClaimForIssuer(r.rune)
      PROVE  IInv'
  BY <1>3, ClaimForIssuerIInv
<1>4. CASE RunLoop
  BY <1>4, ReceiveMessageIInv, ReceiveFinishedIInv, DrainRoundIInv, StopIInv DEF RunLoop
<1>5. CASE Shutdown
  BY <1>5, ShutdownIInv
<1>6. CASE Restart
  BY <1>6, RestartIInv
<1>7. CASE UNCHANGED vars
  <2>1. /\ UNCHANGED <<share, owner, toStart, running, addresses>> /\ UNCHANGED flow
        /\ UNCHANGED <<queue, flows, finished, proc, retry, faults>>
    BY <1>7 DEF vars, pool, runtime
  <2>2. TypeOK' /\ RuntimeSound'
    BY <2>1 DEF IInv, TypeOK, RuntimeSound
  <2>3. QED
    BY <2>1, <2>2, LoopFrame DEF IInv
<1>8. QED
  BY <1>1, <1>2, <1>3, <1>4, <1>5, <1>6, <1>7 DEF Next

\* IInv holds in every reachable state.
THEOREM InductiveInvariance == Spec => []IInv
<1>1. QED
  BY InitIInv, NextIInv, PTL DEF Spec

\* Every variable keeps its type, however the pre-generation thread, the run
\* loop, the flows and restarts interleave.
THEOREM TypeCorrect == Spec => []TypeOK
<1>1. IInv => TypeOK
  BY DEF IInv
<1>2. QED
  BY <1>1, InductiveInvariance, PTL

\* A caller that got an address has a row for it, derived from a finished share
\* of exactly its user and rune: for any number of concurrent requests, of
\* which two may pick the same share or race for the same user.
THEOREM AddressesAreIssuedAsRequested == Spec => []IssuedAsRequested
<1>1. IInv => IssuedAsRequested
  <2> SUFFICES ASSUME IInv PROVE IssuedAsRequested
    OBVIOUS
  <2>1. \A d \in addresses : /\ d.share \in ShareIds /\ d.nonce \in Requests
                             /\ owner[d.share] # None /\ d.amount \in 0..MaxAmount
                             /\ owner[d.share] = UserRow(d.nonce)
                             /\ d.amount \in {d.nonce.amount, Scaled(d.nonce.amount)}
    BY RowsHeld, Typed DEF AddressType, IInv, AddressSound
  <2>2. \A d \in addresses : share[d.share] = "DkgFinalized" /\ d.amount <= MaxAmount
    <3>1. \A d \in addresses : share[d.share] = "DkgFinalized"
      BY <2>1 DEF IInv, OwnerSound
    <3>2. MaxAmount \in Nat
      BY ConstantsAssumption
    <3>3. \A d \in addresses : d.amount <= MaxAmount
      BY <2>1, <3>2
    <3>4. QED
      BY <3>1, <3>3
  <2>3. ASSUME NEW d \in addresses, NEW e \in addresses
        PROVE  (d.nonce.user = e.nonce.user /\ d.nonce.rune = e.nonce.rune) <=> d.share = e.share
    <3>1. /\ owner[d.share].rune = d.nonce.rune /\ owner[d.share].external = d.nonce.user
          /\ owner[e.share].rune = e.nonce.rune /\ owner[e.share].external = e.nonce.user
          /\ owner[d.share] # None /\ owner[e.share] # None /\ d.nonce.user # None
      BY <2>1, RowFacts
    <3>2. d.share \in ShareIds /\ e.share \in ShareIds
      BY <2>1
    <3>3. QED
      BY <3>1, <3>2 DEF IInv, OwnerSound
  <2>4. \A r \in Requests : flow[r].answer = "ok" => \E d \in addresses : d.nonce = r
    BY DEF IInv, AddressSound
  <2>5. QED
    BY <2>1, <2>2, <2>3, <2>4 DEF IssuedAsRequested, UserRow
<1>2. QED
  BY <1>1, InductiveInvariance, PTL

\* The pre-generation thread never overshoots its threshold, whatever flows
\* take from the stock and however many key generations fail.
THEOREM PoolIsBounded == Spec => []PoolBounded
<1>1. IInv => PoolBounded
  BY DEF IInv
<1>2. QED
  BY <1>1, InductiveInvariance, PTL

\* A flow processor that stopped, with any number of retries, has ended every
\* flow and every caller it accepted has an answer.
THEOREM NothingOutlivesStop == Spec => []StopLeavesNothing
<1>1. IInv => StopLeavesNothing
  <2> SUFFICES ASSUME IInv, proc = "stopped", NEW r \in Requests
               PROVE  /\ flow[r].pc \in Ended \cup {"sending"}
                      /\ flow[r].pc = "ended" => flow[r].answer # "none"
    BY DEF StopLeavesNothing
  <2>1. flow[r].pc \in {"idle", "sending", "queued", "ended"} \cup InFlow
    BY Typed DEF FlowType
  <2>2. flow[r].pc \notin InFlow /\ flow[r].pc # "queued"
    BY DEF IInv, RuntimeSound
  <2>3. flow[r].pc = "ended" => flow[r].answer # "none"
    BY DEF IInv, AddressSound
  <2>4. QED
    BY <2>1, <2>2, <2>3 DEF Ended
<1>2. QED
  BY <1>1, InductiveInvariance, PTL
=============================================================================
