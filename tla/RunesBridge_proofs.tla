------------------------- MODULE RunesBridge_proofs -------------------------
(***************************************************************************)
(* IInv is an inductive invariant of RunesBridge for every set of          *)
(* verifiers, addresses, outpoints, requests, runes and shares.            *)
(***************************************************************************)
EXTENDS RunesBridge, TLAPS

\* The tables and processes start empty.
LEMMA InitIInv == Init => IInv
<1> SUFFICES ASSUME Init PROVE IInv
  OBVIOUS
<1> USE ConstantsAssumption DEF Init
<1>1. TypeOK
  BY DEF TypeOK, DepositStatus, UtxoStatus, ReqType, TaskType, ReqPC, TaskPC
<1>2. WatchUnique /\ ReplySound /\ ReplyExclusive /\ JoinedMeansAccepted
  BY DEF WatchUnique, ReplySound, ReplyExclusive, JoinedMeansAccepted
<1>3. UtxoFromRequest /\ StatusSound /\ TaskSound
  BY DEF UtxoFromRequest, StatusSound, TaskSound, TaskOK, InFlow
<1>4. QED
  BY <1>1, <1>2, <1>3 DEF IInv

-----------------------------------------------------------------------------
(* Steps of a bridge request.                                              *)

\* The invariant is kept by UpdateBridgeAddress.
LEMMA UpdateBridgeAddressIInv ==
  ASSUME IInv, NEW r \in Requests, NEW a \in Addrs, NEW o \in Outpoints, NEW b \in Bridges,
         UpdateBridgeAddress(r, a, o, b)
  PROVE  IInv'
<1> USE DEF IInv
<1>r. req \in [Requests -> ReqType]
  BY DEF TypeOK
<1>s. req' \in [Requests -> ReqType]
  <2>1. [req[r] EXCEPT !.pc = "read", !.addr = a, !.outpoint = o] \in ReqType
    BY <1>r DEF ReqType, ReqPC
  <2>2. QED
    BY <1>r, <2>1 DEF UpdateBridgeAddress
<1>1. TypeOK'
  BY <1>s DEF TypeOK, UpdateBridgeAddress
<1>2. WatchUnique' /\ ReplySound' /\ ReplyExclusive' /\ JoinedMeansAccepted'
  BY <1>r DEF ReqType, UpdateBridgeAddress, WatchUnique, ReplySound, ReplyExclusive, JoinedMeansAccepted
<1>3. UtxoFromRequest'
  BY <1>r DEF ReqType, UpdateBridgeAddress, UtxoFromRequest
<1>4. StatusSound' /\ TaskSound'
  BY <1>r DEF ReqType, UpdateBridgeAddress, StatusSound, TaskSound, TaskOK, InFlow
<1>5. QED
  BY <1>1, <1>2, <1>3, <1>4

\* The invariant is kept by ReadDepositRow.
LEMMA ReadDepositRowIInv ==
  ASSUME IInv, NEW r \in Requests, ReadDepositRow(r)
  PROVE  IInv'
<1> USE DEF IInv
<1>r. req \in [Requests -> ReqType]
  BY DEF TypeOK
<1>s. req' \in [Requests -> ReqType]
  BY <1>r DEF ReqType, ReqPC, ReadDepositRow, ReqGoto, storage
<1>1. TypeOK'
  BY <1>s DEF TypeOK, ReadDepositRow, ReqGoto, storage
<1>2. WatchUnique' /\ ReplySound' /\ ReplyExclusive' /\ JoinedMeansAccepted'
  BY <1>r DEF ReqType, ReadDepositRow, ReqGoto, storage, WatchUnique, ReplySound, ReplyExclusive, JoinedMeansAccepted
<1>3. UtxoFromRequest'
  BY <1>r DEF ReqType, ReadDepositRow, ReqGoto, storage, UtxoFromRequest
<1>4. StatusSound' /\ TaskSound'
  BY <1>r DEF ReqType, ReadDepositRow, ReqGoto, storage, StatusSound, TaskSound, TaskOK, InFlow
<1>5. QED
  BY <1>1, <1>2, <1>3, <1>4

\* The three outcomes of a watch call; only "ok" needs the free row.
WatchAnswered(r, v, answer) ==
  /\ req[r].pc = "watch"
  /\ req[r].reply[v] = "none"
  /\ req' = [req EXCEPT ![r].reply[v] = answer]
  /\ \/ answer = "err" /\ UNCHANGED watch
     \/ /\ WatchRowFree(v, req[r].addr, req[r].outpoint)
        /\ watch' = [watch EXCEPT ![v][req[r].addr] = req[r].outpoint]
  /\ UNCHANGED <<storage, verdict, tokens, task>>
  /\ faults' \in 0..MaxFaults

\* Recording an answer keeps the request table well typed.
LEMMA ReplyUpdateType ==
  ASSUME NEW q \in [Requests -> ReqType], NEW r \in Requests, NEW v \in Verifiers,
         NEW p \in {"ok", "err"}
  PROVE  [q EXCEPT ![r].reply[v] = p] \in [Requests -> ReqType]
<1>1. [q[r].reply EXCEPT ![v] = p] \in [Verifiers -> {"none", "ok", "err"}]
  BY DEF ReqType
<1>2. [q[r] EXCEPT !.reply[v] = p] \in ReqType
  BY <1>1 DEF ReqType
<1>3. QED
  BY <1>2

\* The invariant is kept by WatchAnswered.
LEMMA WatchAnsweredIInv ==
  ASSUME IInv, NEW r \in Requests, NEW v \in Verifiers, NEW answer \in {"ok", "err"},
         WatchAnswered(r, v, answer)
  PROVE  IInv'
<1> USE ConstantsAssumption DEF IInv, WatchAnswered, WatchRowFree, storage
<1>a. req[r].addr \in Addrs /\ req[r].outpoint \in Outpoints
  BY DEF ReplySound
<1>1. TypeOK'
  <2>1. req \in [Requests -> ReqType] /\ watch \in [Verifiers -> [Addrs -> Outpoints \cup {None}]]
    BY DEF TypeOK
  <2>2. req' \in [Requests -> ReqType]
    BY <2>1, ReplyUpdateType
  <2>3. watch' \in [Verifiers -> [Addrs -> Outpoints \cup {None}]]
    BY <1>a, <2>1
  <2>4. QED
    BY <2>2, <2>3 DEF TypeOK
<1>2. WatchUnique'
  <2>1. watch \in [Verifiers -> [Addrs -> Outpoints \cup {None}]]
    BY DEF TypeOK
  <2>2. QED
    BY <1>a, <2>1 DEF WatchUnique
<1>3. ReplySound'
  BY <1>a DEF TypeOK, ReqType, ReplySound
<1>4. ReplyExclusive'
  <2> SUFFICES ASSUME NEW p \in Requests, NEW q \in Requests, NEW w \in Verifiers,
                      req'[p].reply[w] = "ok", req'[q].reply[w] = "ok",
                      req'[p].addr = req'[q].addr, p # q
               PROVE  FALSE
    BY DEF ReplyExclusive
  <2>1. \A x \in Requests : x # r \/ w # v => req'[x].reply[w] = req[x].reply[w]
    BY DEF TypeOK, ReqType
  <2>2. \A x \in Requests : req'[x].addr = req[x].addr /\ req'[x].outpoint = req[x].outpoint
    BY DEF TypeOK, ReqType
  <2>3. CASE (p # r /\ q # r) \/ w # v
    BY <2>1, <2>2, <2>3 DEF ReplyExclusive
  <2>4. CASE (p = r \/ q = r) /\ w = v
    <3>1. PICK x \in Requests : x # r /\ req[x].reply[v] = "ok" /\ req[x].addr = req[r].addr
      BY <2>1, <2>2, <2>4
    <3>2. watch[v][req[r].addr] = req[x].outpoint
      BY <3>1 DEF ReplySound
    <3>3. watch[v][req[r].addr] = None
      BY <2>4 DEF TypeOK
    <3>4. req[x].outpoint \in Outpoints
      BY <3>1 DEF ReplySound
    <3>5. QED
      BY <3>2, <3>3, <3>4
  <2>5. QED
    BY <2>3, <2>4
<1>5. JoinedMeansAccepted'
  BY DEF TypeOK, ReqType, JoinedMeansAccepted
<1>6. UtxoFromRequest'
  BY DEF TypeOK, ReqType, UtxoFromRequest
<1>7. StatusSound' /\ TaskSound'
  BY DEF StatusSound, TaskSound, TaskOK, InFlow
<1>8. QED
  BY <1>1, <1>2, <1>3, <1>4, <1>5, <1>6, <1>7

\* The invariant is kept by WatchRunesDeposit.
LEMMA WatchRunesDepositIInv ==
  ASSUME IInv, NEW r \in Requests, NEW v \in Verifiers,
         WatchRunesDeposit(r, v) \/ WatchRunesDepositErr(r, v)
  PROVE  IInv'
<1>1. faults' \in 0..MaxFaults
  BY ConstantsAssumption
     DEF IInv, TypeOK, WatchRunesDeposit, WatchRunesDepositErr, Fault
<1>2. WatchAnswered(r, v, "ok") \/ WatchAnswered(r, v, "err")
  BY <1>1 DEF WatchRunesDeposit, WatchRunesDepositErr, WatchAnswered, Fault
<1>3. QED
  BY <1>2, WatchAnsweredIInv

\* The invariant is kept by JoinWatchReplies.
LEMMA JoinWatchRepliesIInv ==
  ASSUME IInv, NEW r \in Requests, JoinWatchReplies(r)
  PROVE  IInv'
<1> USE DEF IInv
<1>r. req \in [Requests -> ReqType]
  BY DEF TypeOK
<1>s. req' \in [Requests -> ReqType]
  BY <1>r DEF ReqType, ReqPC, JoinWatchReplies, ReqGoto, storage
<1>1. TypeOK'
  BY <1>s DEF TypeOK, JoinWatchReplies, ReqGoto, storage
<1>2. WatchUnique' /\ ReplySound' /\ ReplyExclusive' /\ JoinedMeansAccepted'
  BY <1>r DEF ReqType, JoinWatchReplies, ReqGoto, storage, WatchUnique, ReplySound, ReplyExclusive, JoinedMeansAccepted
<1>3. UtxoFromRequest'
  BY <1>r DEF ReqType, JoinWatchReplies, ReqGoto, storage, UtxoFromRequest
<1>4. StatusSound' /\ TaskSound'
  BY <1>r DEF ReqType, JoinWatchReplies, ReqGoto, storage, StatusSound, TaskSound, TaskOK, InFlow
<1>5. QED
  BY <1>1, <1>2, <1>3, <1>4

\* No UTXO row names the address of a request that is not finished.
LEMMA UnfinishedHasNoUtxo ==
  ASSUME IInv, NEW r \in Requests, req[r].pc \in {"set_status", "insert_utxo"},
         NEW o \in Outpoints
  PROVE  utxoAddr[o] # req[r].addr
<1> SUFFICES ASSUME utxoAddr[o] = req[r].addr PROVE FALSE
  OBVIOUS
<1> USE ConstantsAssumption DEF IInv
<1>1. req[r].addr \in Addrs
  BY DEF ReplySound
<1>2. PICK q \in Requests : req[q].pc = "done" /\ req[q].addr = utxoAddr[o]
  BY <1>1 DEF UtxoFromRequest
<1>3. PICK v \in Verifiers : TRUE
  OBVIOUS
<1>4. req[q].reply[v] = "ok" /\ req[r].reply[v] = "ok"
  BY <1>2, <1>3 DEF JoinedMeansAccepted
<1>5. q = r
  BY <1>2, <1>3, <1>4 DEF ReplyExclusive
<1>6. QED
  BY <1>2, <1>5

\* An outpoint recorded for some address was accepted for that address only.
LEMMA RecordedOutpointUnique ==
  ASSUME IInv, NEW r \in Requests, req[r].pc \in {"set_status", "insert_utxo", "done"}
  PROVE  utxoAddr[req[r].outpoint] \in {None, req[r].addr}
<1> USE ConstantsAssumption DEF IInv
<1> DEFINE o == req[r].outpoint
<1>1. req[r].addr \in Addrs /\ o \in Outpoints
  BY DEF ReplySound
<1> SUFFICES ASSUME utxoAddr[o] # None PROVE utxoAddr[o] = req[r].addr
  OBVIOUS
<1>2. PICK q \in Requests :
        req[q].pc = "done" /\ req[q].addr = utxoAddr[o] /\ req[q].outpoint = o
  BY <1>1 DEF UtxoFromRequest
<1>3. PICK v \in Verifiers : TRUE
  OBVIOUS
<1>4. req[q].reply[v] = "ok" /\ req[r].reply[v] = "ok"
  BY <1>2, <1>3 DEF JoinedMeansAccepted
<1>5. watch[v][req[q].addr] = o /\ watch[v][req[r].addr] = o
  BY <1>2, <1>4 DEF ReplySound
<1>6. req[q].addr \in Addrs
  BY <1>2 DEF ReplySound
<1>7. QED
  BY <1>1, <1>2, <1>5, <1>6 DEF WatchUnique

\* The invariant is kept by SetConfirmationStatus.
LEMMA SetConfirmationStatusIInv ==
  ASSUME IInv, NEW r \in Requests, SetConfirmationStatus(r)
  PROVE  IInv'
<1> USE DEF IInv
<1>r. req \in [Requests -> ReqType]
  BY DEF TypeOK
<1>s. req' \in [Requests -> ReqType]
  BY <1>r DEF ReqType, ReqPC, SetConfirmationStatus, ReqGoto
<1>t. status' \in [Addrs -> [Verifiers -> DepositStatus]]
  BY DEF TypeOK, SetConfirmationStatus, DepositStatus
<1>1. TypeOK'
  BY <1>s, <1>t DEF TypeOK, SetConfirmationStatus, ReqGoto
<1>2. WatchUnique' /\ ReplySound' /\ ReplyExclusive' /\ JoinedMeansAccepted'
  BY <1>r DEF ReqType, SetConfirmationStatus, ReqGoto, WatchUnique, ReplySound, ReplyExclusive, JoinedMeansAccepted
<1>3. UtxoFromRequest'
  BY <1>r DEF ReqType, SetConfirmationStatus, ReqGoto, UtxoFromRequest
<1>4. StatusSound'
  BY <1>r DEF ReqType, SetConfirmationStatus, ReqGoto, StatusSound
<1>5. TaskSound'
  BY <1>r DEF ReqType, SetConfirmationStatus, ReqGoto, TaskSound, TaskOK, InFlow
<1>6. QED
  BY <1>1, <1>2, <1>3, <1>4, <1>5

\* The invariant is kept by InsertUtxo.
LEMMA InsertUtxoIInv ==
  ASSUME IInv, NEW r \in Requests, InsertUtxo(r)
  PROVE  IInv'
<1> USE DEF IInv
<1> DEFINE a == req[r].addr
           o == req[r].outpoint
<1>r. req \in [Requests -> ReqType]
  BY DEF TypeOK
<1>s. req' \in [Requests -> ReqType]
  BY <1>r DEF ReqType, ReqPC, InsertUtxo, ReqGoto
<1>a. req[r].pc = "insert_utxo" /\ a \in Addrs /\ o \in Outpoints
  BY DEF ReplySound, InsertUtxo
<1>b. utxoAddr[o] = None
  BY <1>a, RecordedOutpointUnique, UnfinishedHasNoUtxo
<1>u. /\ utxoAddr \in [Outpoints -> Addrs \cup {None}]
      /\ utxoStatus \in [Outpoints -> UtxoStatus]
  BY DEF TypeOK
<1>v. /\ utxoAddr' \in [Outpoints -> Addrs \cup {None}]
      /\ utxoStatus' \in [Outpoints -> UtxoStatus]
  BY <1>u, <1>a DEF InsertUtxo, UtxoStatus
<1> HIDE DEF a, o
<1>w. \/ /\ utxoAddr' = [utxoAddr EXCEPT ![o] = a]
         /\ utxoStatus' = [utxoStatus EXCEPT ![o] = "Pending"]
         /\ req' = [req EXCEPT ![r].pc = "done"]
         /\ a \in issued
      \/ /\ UNCHANGED <<utxoAddr, utxoStatus>>
         /\ req' = [req EXCEPT ![r].pc = "failed"]
  BY DEF InsertUtxo, ReqGoto, a, o
<1>x. UNCHANGED <<issued, bridge, status, issuerOf, watch, verdict, tokens, task, faults>>
  BY DEF InsertUtxo
<1>1. TypeOK'
  BY <1>s, <1>v, <1>x DEF TypeOK
<1>2. WatchUnique' /\ ReplySound' /\ ReplyExclusive' /\ JoinedMeansAccepted'
  <2>1. \A q \in Requests : /\ req'[q].addr = req[q].addr
                            /\ req'[q].outpoint = req[q].outpoint
                            /\ req'[q].reply = req[q].reply
                            /\ q # r => req'[q].pc = req[q].pc
    BY <1>r, <1>w DEF ReqType
  <2>2. req'[r].pc \in {"done", "failed"}
    BY <1>r, <1>w DEF ReqType
  <2>3. QED
    BY <2>1, <2>2, <1>a, <1>x
       DEF WatchUnique, ReplySound, ReplyExclusive, JoinedMeansAccepted
<1>3. UtxoFromRequest'
  <2> SUFFICES ASSUME NEW x \in Outpoints, utxoAddr'[x] # None
               PROVE  /\ utxoAddr'[x] \in issued'
                      /\ \E q \in Requests : /\ req'[q].pc = "done"
                                             /\ req'[q].addr = utxoAddr'[x]
                                             /\ req'[q].outpoint = x
    BY DEF UtxoFromRequest
  <2>1. CASE utxoAddr'[x] = utxoAddr[x] /\ utxoAddr[x] # None
    BY <2>1, <1>r, <1>a, <1>w, <1>x DEF ReqType, UtxoFromRequest
  <2>2. CASE x = o /\ utxoAddr'[x] = a
    BY <2>2, <1>r, <1>b, <1>u, <1>w, <1>x DEF ReqType, a, o
  <2>3. QED
    BY <2>1, <2>2, <1>u, <1>w
<1>4. StatusSound'
  BY <1>a, <1>b, <1>u, <1>w, <1>x, ConstantsAssumption DEF StatusSound
<1>5. TaskSound'
  BY <1>a, <1>b, <1>u, <1>w, <1>x DEF TaskSound, TaskOK, InFlow
<1>6. QED
  BY <1>1, <1>2, <1>3, <1>4, <1>5

\* The invariant is kept by RequestErr.
LEMMA RequestErrIInv ==
  ASSUME IInv, NEW r \in Requests, RequestErr(r)
  PROVE  IInv'
<1> USE DEF IInv
<1>r. req \in [Requests -> ReqType]
  BY DEF TypeOK
<1>s. req' \in [Requests -> ReqType]
  BY <1>r DEF ReqType, ReqPC, RequestErr, ReqGoto, storage, Fault
<1>1. TypeOK'
  BY <1>s, ConstantsAssumption DEF TypeOK, RequestErr, ReqGoto, storage, Fault
<1>2. WatchUnique' /\ ReplySound' /\ ReplyExclusive' /\ JoinedMeansAccepted'
  BY <1>r DEF ReqType, RequestErr, ReqGoto, storage, Fault, WatchUnique, ReplySound, ReplyExclusive, JoinedMeansAccepted
<1>3. UtxoFromRequest'
  BY <1>r DEF ReqType, RequestErr, ReqGoto, storage, Fault, UtxoFromRequest
<1>4. StatusSound' /\ TaskSound'
  BY <1>r DEF ReqType, RequestErr, ReqGoto, storage, Fault, StatusSound, TaskSound, TaskOK, InFlow
<1>5. QED
  BY <1>1, <1>2, <1>3, <1>4

\* The invariant is kept by DeletePendingDeposit.
LEMMA DeletePendingDepositIInv ==
  ASSUME IInv, NEW a \in Addrs, DeletePendingDeposit(a)
  PROVE  IInv'
<1> USE ConstantsAssumption DEF IInv, DeletePendingDeposit
<1>1. TypeOK'
  BY DEF TypeOK
<1>2. WatchUnique' /\ ReplySound' /\ ReplyExclusive' /\ JoinedMeansAccepted'
  BY DEF WatchUnique, ReplySound, ReplyExclusive, JoinedMeansAccepted
<1>3. UtxoFromRequest'
  BY DEF UtxoFromRequest
<1>4. StatusSound' /\ TaskSound'
  BY DEF StatusSound, TaskSound, TaskOK, InFlow
<1>5. QED
  BY <1>1, <1>2, <1>3, <1>4

-----------------------------------------------------------------------------
(* Steps of a notification task and of the flow it runs.                   *)

\* A step that only replaces one task's record by one that is sound.
LEMMA TaskStepIInv ==
  ASSUME IInv, NEW v \in Verifiers, NEW o \in Outpoints, NEW t \in TaskType,
         task' = [task EXCEPT ![v][o] = t],
         UNCHANGED <<storage, watch, verdict, req>>,
         tokens' \subseteq Shares, faults' \in 0..MaxFaults,
         TaskOK(v, o, t)
  PROVE  IInv'
<1> USE DEF IInv, storage
<1>1. task \in [Verifiers -> [Outpoints -> TaskType]]
  BY DEF TypeOK
<1>2. task' \in [Verifiers -> [Outpoints -> TaskType]]
  BY <1>1
<1>3. TypeOK'
  BY <1>2 DEF TypeOK
<1>4. WatchUnique' /\ ReplySound' /\ ReplyExclusive' /\ JoinedMeansAccepted'
  BY DEF WatchUnique, ReplySound, ReplyExclusive, JoinedMeansAccepted
<1>5. UtxoFromRequest' /\ StatusSound'
  BY DEF UtxoFromRequest, StatusSound
<1>6. TaskSound'
  <2> SUFFICES ASSUME NEW w \in Verifiers, NEW x \in Outpoints
               PROVE  TaskOK(w, x, task[w][x])'
    BY DEF TaskSound
  <2>1. task'[w][x] = IF w = v /\ x = o THEN t ELSE task[w][x]
    BY <1>1
  <2>2. TaskOK(w, x, task'[w][x])
    BY <2>1 DEF TaskSound
  <2>3. QED
    BY <2>2 DEF TaskOK
<1>7. QED
  BY <1>3, <1>4, <1>5, <1>6

\* Moving a task to another step is the record update TaskStepIInv speaks of.
LEMMA TaskGotoUpdate ==
  ASSUME TypeOK, NEW v \in Verifiers, NEW o \in Outpoints, NEW p \in TaskPC,
         task' = [task EXCEPT ![v][o].pc = p]
  PROVE  /\ [task[v][o] EXCEPT !.pc = p] \in TaskType
         /\ task' = [task EXCEPT ![v][o] = [task[v][o] EXCEPT !.pc = p]]
<1>1. task[v][o] \in TaskType
  BY DEF TypeOK
<1>2. [task[v][o] EXCEPT !.pc = p] \in TaskType
  BY <1>1 DEF TaskType
<1>3. task' = [task EXCEPT ![v][o] = [task[v][o] EXCEPT !.pc = p]]
  OBVIOUS
<1>4. QED
  BY <1>2, <1>3

\* The same, as a fact about the function.
LEMMA TaskGotoType ==
  ASSUME task \in [Verifiers -> [Outpoints -> TaskType]],
         NEW v \in Verifiers, NEW o \in Outpoints, NEW p \in TaskPC,
         task' = [task EXCEPT ![v][o].pc = p]
  PROVE  /\ task' \in [Verifiers -> [Outpoints -> TaskType]]
         /\ task'[v][o] = [task[v][o] EXCEPT !.pc = p]
         /\ \A w \in Verifiers, x \in Outpoints :
              ~(w = v /\ x = o) => task'[w][x] = task[w][x]
<1> DEFINE t == [task[v][o] EXCEPT !.pc = p]
<1>1. task[v][o] \in TaskType
  OBVIOUS
<1>2. t \in TaskType
  BY <1>1 DEF TaskType
<1>3. task' = [task EXCEPT ![v][o] = t]
  OBVIOUS
<1> HIDE DEF t
<1>4. /\ task' \in [Verifiers -> [Outpoints -> TaskType]]
      /\ task'[v][o] = t
      /\ \A w \in Verifiers, x \in Outpoints :
           ~(w = v /\ x = o) => task'[w][x] = task[w][x]
  BY <1>2, <1>3
<1>5. QED
  BY <1>4 DEF t

\* Dropping a task is always sound.
LEMMA TaskFailsIInv ==
  ASSUME IInv, NEW v \in Verifiers, NEW o \in Outpoints,
         task[v][o].pc # "idle",
         task' = [task EXCEPT ![v][o].pc = "failed"],
         UNCHANGED <<storage, watch, verdict, tokens, req>>,
         faults' \in 0..MaxFaults
  PROVE  IInv'
<1> DEFINE t == [task[v][o] EXCEPT !.pc = "failed"]
<1>1. t \in TaskType /\ task' = [task EXCEPT ![v][o] = t]
  BY TaskGotoUpdate DEF IInv, TaskPC
<1>2. task[v][o] \in TaskType
  BY DEF IInv, TypeOK
<1>3. TaskOK(v, o, task[v][o])
  BY DEF IInv, TaskSound
<1>4. TaskOK(v, o, t)
  BY <1>2, <1>3 DEF TaskOK, InFlow, TaskType
<1>5. tokens' \subseteq Shares
  BY DEF IInv, TypeOK
<1>6. QED
  BY <1>1, <1>4, <1>5, TaskStepIInv

\* Two UTXO rows never share an address: a verifier holds one row per address.
LEMMA RecordedOnce ==
  ASSUME IInv, NEW o \in Outpoints, NEW x \in Outpoints,
         utxoAddr[o] # None, utxoAddr[o] = utxoAddr[x]
  PROVE  /\ o = x
         /\ \A v \in Verifiers : watch[v][utxoAddr[o]] = o
<1> USE DEF IInv
<1>1. PICK q \in Requests :
        req[q].pc = "done" /\ req[q].addr = utxoAddr[o] /\ req[q].outpoint = o
  BY DEF UtxoFromRequest
<1>2. PICK r \in Requests :
        req[r].pc = "done" /\ req[r].addr = utxoAddr[o] /\ req[r].outpoint = x
  BY DEF UtxoFromRequest
<1>3. \A v \in Verifiers : req[q].reply[v] = "ok" /\ req[r].reply[v] = "ok"
  BY <1>1, <1>2 DEF JoinedMeansAccepted
<1>4. \A v \in Verifiers : watch[v][utxoAddr[o]] = o /\ watch[v][utxoAddr[o]] = x
  BY <1>1, <1>2, <1>3 DEF ReplySound
<1>5. QED
  BY <1>4, ConstantsAssumption

\* The two outcomes of a step that only moves the program counter.
LEMMA TaskGotoIInv ==
  ASSUME IInv, NEW v \in Verifiers, NEW o \in Outpoints, NEW p \in TaskPC,
         task' = [task EXCEPT ![v][o].pc = p],
         UNCHANGED <<storage, watch, verdict, tokens, req, faults>>,
         TaskOK(v, o, [task[v][o] EXCEPT !.pc = p])
  PROVE  IInv'
<1>1. tokens' \subseteq Shares /\ faults' \in 0..MaxFaults
  BY DEF IInv, TypeOK
<1>2. TypeOK
  BY DEF IInv
<1>3. QED
  BY <1>1, <1>2, TaskGotoUpdate, TaskStepIInv

\* What the invariant says of the task that takes a step.
LEMMA TaskFacts ==
  ASSUME IInv, NEW v \in Verifiers, NEW o \in Outpoints
  PROVE  /\ task[v][o] \in TaskType
         /\ task[v][o] = [pc |-> task[v][o].pc, addr |-> task[v][o].addr,
                          share |-> task[v][o].share, to |-> task[v][o].to]
         /\ TaskOK(v, o, task[v][o])
         /\ faults \in 0..MaxFaults
         /\ tokens \subseteq Shares
<1>1. task[v][o] \in TaskType
  BY DEF IInv, TypeOK
<1>2. QED
  BY <1>1 DEF IInv, TypeOK, TaskSound, TaskType

\* The invariant is kept by UpdateSatsFeeAmount.
LEMMA UpdateSatsFeeAmountIInv ==
  ASSUME IInv, NEW v \in Verifiers, NEW o \in Outpoints, UpdateSatsFeeAmount(v, o)
  PROVE  IInv'
<1> USE DEF UpdateSatsFeeAmount, TaskGoto
<1>1. CASE utxoAddr[o] = None
  BY <1>1, TaskFailsIInv, TaskFacts
<1>2. CASE utxoAddr[o] # None
  <2>1. TaskOK(v, o, [task[v][o] EXCEPT !.pc = "get_utxo"])
    BY <1>2, TaskFacts DEF TaskOK, InFlow, TaskType
  <2>2. QED
    BY <1>2, <2>1, TaskGotoIInv DEF TaskPC
<1>3. QED
  BY <1>1, <1>2

\* The invariant is kept by GetUtxo.
LEMMA GetUtxoIInv ==
  ASSUME IInv, NEW v \in Verifiers, NEW o \in Outpoints, GetUtxo(v, o)
  PROVE  IInv'
<1> DEFINE t == [task[v][o] EXCEPT !.pc = "status", !.addr = utxoAddr[o]]
<1>a. /\ task[v][o] \in TaskType
      /\ TaskOK(v, o, task[v][o])
      /\ tokens' \subseteq Shares /\ faults' \in 0..MaxFaults
  BY TaskFacts DEF GetUtxo
<1>b. utxoAddr \in [Outpoints -> Addrs \cup {None}]
  BY DEF IInv, TypeOK
<1>1. utxoAddr[o] \in Addrs
  BY <1>a, <1>b DEF GetUtxo, TaskOK
<1>2. t \in TaskType
  BY <1>a, <1>1 DEF TaskType, TaskPC
<1>3. TaskOK(v, o, t)
  <2>1. t.pc = "status" /\ t.addr = utxoAddr[o] /\ task[v][o].pc = "get_utxo"
    BY <1>a DEF TaskType, GetUtxo
  <2>2. QED
    BY <2>1, <1>a, <1>1, ConstantsAssumption DEF TaskOK, InFlow
<1>4. task' = [task EXCEPT ![v][o] = t]
  BY DEF GetUtxo
<1> HIDE DEF t
<1>5. QED
  BY <1>a, <1>2, <1>3, <1>4, TaskStepIInv DEF GetUtxo

\* The verdict written is the verifier's own on the outpoint recorded for the
\* address, so a verdict already in the row can only be the same one.
LEMMA UpdateConfirmationStatusIInv ==
  ASSUME IInv, NEW v \in Verifiers, NEW o \in Outpoints, UpdateConfirmationStatus(v, o)
  PROVE  IInv' /\ VerdictsKept
<1> DEFINE a == task[v][o].addr
<1>a. /\ task[v][o] \in TaskType
      /\ TaskOK(v, o, task[v][o])
      /\ task[v][o].pc = "status"
  BY TaskFacts DEF UpdateConfirmationStatus
<1>b. a # None /\ utxoAddr[o] = a /\ verdict[v][o] # "none"
  BY <1>a DEF TaskOK
<1>c. a \in Addrs
  BY <1>a, <1>b DEF TaskType
<1>d. a \in issued
  BY <1>b DEF IInv, UtxoFromRequest
<1>e. /\ status \in [Addrs -> [Verifiers -> DepositStatus]]
      /\ verdict[v][o] \in {"Confirmed", "Failed"}
      /\ task \in [Verifiers -> [Outpoints -> TaskType]]
  BY <1>b DEF IInv, TypeOK
<1> HIDE DEF a
<1>f. /\ status' = [status EXCEPT ![a][v] = verdict[v][o]]
      /\ task' = [task EXCEPT ![v][o].pc = "check"]
      /\ UNCHANGED <<issued, bridge, utxoAddr, utxoStatus, issuerOf,
                     watch, verdict, tokens, req, faults>>
  BY <1>d DEF UpdateConfirmationStatus, TaskGoto, a
<1>1. TypeOK'
  <2>1. status' \in [Addrs -> [Verifiers -> DepositStatus]]
    BY <1>c, <1>e, <1>f DEF DepositStatus
  <2>2. task' \in [Verifiers -> [Outpoints -> TaskType]]
    BY <1>e, <1>f, TaskGotoType DEF TaskPC
  <2>3. QED
    BY <2>1, <2>2, <1>f DEF IInv, TypeOK
<1>2. WatchUnique' /\ ReplySound' /\ ReplyExclusive' /\ JoinedMeansAccepted' /\ UtxoFromRequest'
  BY <1>f DEF IInv, WatchUnique, ReplySound, ReplyExclusive, JoinedMeansAccepted, UtxoFromRequest
<1>3. StatusSound'
  BY <1>b, <1>e, <1>f DEF IInv, StatusSound
<1>4. TaskSound'
  <2> SUFFICES ASSUME NEW w \in Verifiers, NEW x \in Outpoints
               PROVE  TaskOK(w, x, task[w][x])'
    BY DEF TaskSound
  <2>1. TaskOK(w, x, task[w][x])
    BY DEF IInv, TaskSound
  <2>2. CASE w = v /\ x = o
    <3>1. task'[w][x] = [task[v][o] EXCEPT !.pc = "check"]
      BY <2>2, <1>e, <1>f
    <3>2. /\ task'[w][x].pc = "check" /\ task'[w][x].addr = a
      BY <3>1, <1>a DEF TaskType, a
    <3>3. QED
      BY <2>2, <3>2, <1>b, <1>f DEF TaskOK, InFlow
  <2>3. CASE ~(w = v /\ x = o)
    <3>1. task'[w][x] = task[w][x]
      BY <2>3, <1>e, <1>f
    <3>2. QED
      BY <2>1, <3>1, <1>f DEF TaskOK, InFlow
  <2>4. QED
    BY <2>2, <2>3
<1>5. ASSUME NEW b \in Addrs, NEW w \in Verifiers, status[b][w] \in {"Confirmed", "Failed"}
      PROVE  status'[b][w] = status[b][w]
  <2>1. CASE b = a /\ w = v
    <3>1. PICK x \in Outpoints : utxoAddr[x] = a /\ verdict[v][x] = status[a][v]
      BY <1>5, <2>1 DEF IInv, StatusSound
    <3>2. x = o
      BY <3>1, <1>b, RecordedOnce
    <3>3. QED
      BY <2>1, <3>1, <3>2, <1>c, <1>e, <1>f
  <2>2. CASE ~(b = a /\ w = v)
    BY <2>2, <1>c, <1>e, <1>f
  <2>3. QED
    BY <2>1, <2>2
<1>6. QED
  BY <1>1, <1>2, <1>3, <1>4, <1>5 DEF IInv, VerdictsKept

\* A task that finds every verifier confirmed in the row finds it of its own
\* outpoint.
LEMMA CheckAllVerifiersConfirmedIInv ==
  ASSUME IInv, NEW v \in Verifiers, NEW o \in Outpoints, CheckAllVerifiersConfirmed(v, o)
  PROVE  IInv'
<1> DEFINE a == task[v][o].addr
<1>a. /\ task[v][o] \in TaskType
      /\ TaskOK(v, o, task[v][o])
      /\ task[v][o].pc = "check"
  BY TaskFacts DEF CheckAllVerifiersConfirmed
<1>b. a # None /\ utxoAddr[o] = a /\ verdict[v][o] # "none"
  BY <1>a DEF TaskOK
<1>c. a \in Addrs
  BY <1>a, <1>b DEF TaskType
<1>d. UNCHANGED <<storage, watch, verdict, tokens, req, faults>>
  BY DEF CheckAllVerifiersConfirmed
<1>1. CASE a \notin issued
  BY <1>1, <1>a, <1>d, TaskFailsIInv, TaskFacts DEF CheckAllVerifiersConfirmed, TaskGoto
<1>2. CASE a \in issued /\ ~AllVerifiersConfirmed(a)
  <2>1. TaskOK(v, o, [task[v][o] EXCEPT !.pc = "done"])
    BY <1>a DEF TaskOK, InFlow, TaskType
  <2>2. task' = [task EXCEPT ![v][o].pc = "done"]
    BY <1>2 DEF CheckAllVerifiersConfirmed, TaskGoto
  <2>3. QED
    BY <1>d, <2>1, <2>2, TaskGotoIInv DEF TaskPC
<1>3. CASE a \in issued /\ AllVerifiersConfirmed(a)
  <2>1. ASSUME NEW w \in Verifiers PROVE verdict[w][o] = "Confirmed"
    <3>1. status[a][w] = "Confirmed"
      BY <1>3 DEF AllVerifiersConfirmed
    <3>2. PICK x \in Outpoints : utxoAddr[x] = a /\ verdict[w][x] = "Confirmed"
      BY <1>c, <3>1 DEF IInv, StatusSound
    <3>3. x = o
      BY <3>2, <1>b, RecordedOnce
    <3>4. QED
      BY <3>2, <3>3
  <2>2. TaskOK(v, o, [task[v][o] EXCEPT !.pc = "confirm"])
    BY <1>a, <1>b, <2>1 DEF TaskOK, InFlow, TaskType
  <2>3. task' = [task EXCEPT ![v][o].pc = "confirm"]
    BY <1>3 DEF CheckAllVerifiersConfirmed, TaskGoto
  <2>4. QED
    BY <1>d, <2>2, <2>3, TaskGotoIInv DEF TaskPC
<1>4. QED
  BY <1>1, <1>2, <1>3

\* Confirming the UTXO row only helps the other tasks on the outpoint.
LEMMA ConfirmUtxoIInv ==
  ASSUME IInv, NEW v \in Verifiers, NEW o \in Outpoints, ConfirmUtxo(v, o)
  PROVE  IInv'
<1>a. /\ task[v][o] \in TaskType
      /\ TaskOK(v, o, task[v][o])
      /\ task[v][o].pc = "confirm"
  BY TaskFacts DEF ConfirmUtxo
<1>b. /\ task \in [Verifiers -> [Outpoints -> TaskType]]
      /\ utxoStatus \in [Outpoints -> UtxoStatus]
  BY DEF IInv, TypeOK
<1>c. /\ utxoStatus' = [utxoStatus EXCEPT ![o] = "Confirmed"]
      /\ task' = [task EXCEPT ![v][o].pc = "flow"]
      /\ UNCHANGED <<issued, bridge, status, utxoAddr, issuerOf,
                     watch, verdict, tokens, req, faults>>
  BY DEF ConfirmUtxo, TaskGoto
<1>d. /\ task' \in [Verifiers -> [Outpoints -> TaskType]]
      /\ task'[v][o] = [task[v][o] EXCEPT !.pc = "flow"]
      /\ \A w \in Verifiers, x \in Outpoints :
           ~(w = v /\ x = o) => task'[w][x] = task[w][x]
  <2>1. "flow" \in TaskPC
    BY DEF TaskPC
  <2>2. QED
    BY <2>1, <1>b, <1>c, TaskGotoType
<1>1. TypeOK'
  <2>1. utxoStatus' \in [Outpoints -> UtxoStatus]
    BY <1>b, <1>c DEF UtxoStatus
  <2>2. QED
    BY <2>1, <1>c, <1>d DEF IInv, TypeOK
<1>2. WatchUnique' /\ ReplySound' /\ ReplyExclusive' /\ JoinedMeansAccepted'
  BY <1>c DEF IInv, WatchUnique, ReplySound, ReplyExclusive, JoinedMeansAccepted
<1>3. UtxoFromRequest' /\ StatusSound'
  BY <1>c DEF IInv, UtxoFromRequest, StatusSound
<1>4. TaskSound'
  <2> SUFFICES ASSUME NEW w \in Verifiers, NEW x \in Outpoints
               PROVE  TaskOK(w, x, task[w][x])'
    BY DEF TaskSound
  <2>1. TaskOK(w, x, task[w][x])
    BY DEF IInv, TaskSound
  <2>2. CASE w = v /\ x = o
    <3>1. task'[w][x].pc = "flow" /\ task'[w][x].addr = task[v][o].addr
      BY <2>2, <1>a, <1>d DEF TaskType
    <3>2. QED
      BY <2>2, <3>1, <1>a, <1>b, <1>c DEF TaskOK, InFlow
  <2>3. CASE ~(w = v /\ x = o)
    <3>1. task'[w][x] = task[w][x]
      BY <2>3, <1>d
    <3>2. QED
      BY <2>1, <3>1, <1>b, <1>c DEF TaskOK, InFlow
  <2>4. QED
    BY <2>2, <2>3
<1>5. QED
  BY <1>1, <1>2, <1>3, <1>4 DEF IInv

\* The invariant is kept by FlowReadDepositRow.
LEMMA FlowReadDepositRowIInv ==
  ASSUME IInv, NEW v \in Verifiers, NEW o \in Outpoints, FlowReadDepositRow(v, o)
  PROVE  IInv'
<1>a. /\ task[v][o] \in TaskType
      /\ TaskOK(v, o, task[v][o])
      /\ task[v][o].pc = "flow"
      /\ faults \in 0..MaxFaults
  BY TaskFacts DEF FlowReadDepositRow
<1> USE DEF FlowReadDepositRow, TaskGoto
<1>1. CASE task[v][o].addr \notin issued
  BY <1>1, <1>a, TaskFailsIInv
<1>2. CASE task[v][o].addr \in issued
  <2>1. TaskOK(v, o, [task[v][o] EXCEPT !.pc = "issuer"])
    BY <1>a DEF TaskOK, InFlow, TaskType
  <2>2. QED
    BY <1>2, <2>1, TaskGotoIInv DEF TaskPC
<1>3. QED
  BY <1>1, <1>2

\* A task that takes a share keeps the rest of its record.
LEMMA TakeShareIInv ==
  ASSUME IInv, NEW v \in Verifiers, NEW o \in Outpoints, NEW s \in Shares, NEW p \in TaskPC,
         InFlow(task[v][o]), task[v][o].pc # "confirm",
         \/ p = "insert_issuer"
         \/ p = "reread" /\ issuerOf[s] = RuneOf[task[v][o].addr],
         task' = [task EXCEPT ![v][o].pc = p, ![v][o].share = s],
         UNCHANGED <<storage, watch, verdict, tokens, req, faults>>
  PROVE  IInv'
<1> DEFINE t == [task[v][o] EXCEPT !.pc = p, !.share = s]
<1>a. /\ task[v][o] \in TaskType
      /\ TaskOK(v, o, task[v][o])
      /\ tokens' \subseteq Shares /\ faults' \in 0..MaxFaults
  BY TaskFacts
<1>1. t \in TaskType
  BY <1>a DEF TaskType
<1>2. t.pc = p /\ t.share = s /\ t.addr = task[v][o].addr
  BY <1>a DEF TaskType
<1>3. task' = [task EXCEPT ![v][o] = t]
  OBVIOUS
<1> HIDE DEF t
<1>4. TaskOK(v, o, t)
  <2>1. s # None
    BY ConstantsAssumption
  <2>2. /\ task[v][o].pc # "idle"
        /\ InFlow(task[v][o])
    BY DEF InFlow
  <2>3. InFlow(t)
    BY <1>2 DEF InFlow
  <2>4. QED
    BY <2>1, <2>2, <2>3, <1>a, <1>2 DEF TaskOK
<1>5. QED
  BY <1>a, <1>1, <1>3, <1>4, TaskStepIInv

\* The invariant is kept by GetIssuerIds.
LEMMA GetIssuerIdsIInv ==
  ASSUME IInv, NEW v \in Verifiers, NEW o \in Outpoints, GetIssuerIds(v, o)
  PROVE  IInv'
<1>a. /\ task[v][o] \in TaskType
      /\ TaskOK(v, o, task[v][o])
      /\ task[v][o].pc = "issuer"
  BY TaskFacts DEF GetIssuerIds
<1>b. UNCHANGED <<storage, watch, verdict, tokens, req, faults>>
  BY DEF GetIssuerIds
<1>1. CASE task' = [task EXCEPT ![v][o].pc = "pick"]
  <2>1. TaskOK(v, o, [task[v][o] EXCEPT !.pc = "pick"])
    BY <1>a DEF TaskOK, InFlow, TaskType
  <2>2. QED
    BY <1>1, <1>b, <2>1, TaskGotoIInv DEF TaskPC
<1>2. ASSUME NEW s \in IssuersOf(RuneOf[task[v][o].addr]),
             task' = [task EXCEPT ![v][o].pc = "reread", ![v][o].share = s]
      PROVE  IInv'
  <2>1. s \in Shares /\ issuerOf[s] = RuneOf[task[v][o].addr]
    BY <1>2 DEF IssuersOf
  <2>2. InFlow(task[v][o]) /\ task[v][o].pc # "confirm" /\ "reread" \in TaskPC
    BY <1>a DEF InFlow, TaskPC
  <2>3. QED
    BY <2>1, <2>2, <1>2, <1>b, TakeShareIInv
<1>3. QED
  BY <1>1, <1>2 DEF GetIssuerIds, TaskGoto

\* The invariant is kept by PickUnusedShare.
LEMMA PickUnusedShareIInv ==
  ASSUME IInv, NEW v \in Verifiers, NEW o \in Outpoints, PickUnusedShare(v, o)
  PROVE  IInv'
<1>a. task[v][o].pc = "pick" /\ faults \in 0..MaxFaults
  BY TaskFacts DEF PickUnusedShare
<1>b. UNCHANGED <<storage, watch, verdict, tokens, req, faults>>
  BY DEF PickUnusedShare
<1>1. CASE task' = [task EXCEPT ![v][o].pc = "failed"]
  BY <1>1, <1>a, <1>b, TaskFailsIInv
<1>2. ASSUME NEW s \in UnusedShares,
             task' = [task EXCEPT ![v][o].pc = "insert_issuer", ![v][o].share = s]
      PROVE  IInv'
  <2>1. s \in Shares
    BY <1>2 DEF UnusedShares
  <2>2. InFlow(task[v][o]) /\ task[v][o].pc # "confirm" /\ "insert_issuer" \in TaskPC
    BY <1>a DEF InFlow, TaskPC
  <2>3. QED
    BY <2>1, <2>2, <1>2, <1>b, TakeShareIInv
<1>3. QED
  BY <1>1, <1>2 DEF PickUnusedShare, TaskGoto

\* The issuer row is inserted for a share that had none, so the row another
\* task relies on is not touched.
LEMMA InsertIssuerRowIInv ==
  ASSUME IInv, NEW v \in Verifiers, NEW o \in Outpoints, InsertIssuerRow(v, o)
  PROVE  IInv'
<1> DEFINE s == task[v][o].share
           a == task[v][o].addr
<1>a. /\ task[v][o] \in TaskType
      /\ TaskOK(v, o, task[v][o])
      /\ task[v][o].pc = "insert_issuer"
      /\ faults \in 0..MaxFaults
  BY TaskFacts DEF InsertIssuerRow
<1>b. s # None /\ a # None
  BY <1>a DEF TaskOK, InFlow
<1>c. s \in Shares /\ a \in Addrs
  BY <1>a, <1>b DEF TaskType
<1>d. /\ RuneOf[a] \in Runes /\ RuneOf[a] # None
      /\ \A c \in Addrs : RuneOf[c] # None
  BY <1>c, ConstantsAssumption
<1>e. /\ issuerOf \in [Shares -> Runes \cup {None}]
      /\ task \in [Verifiers -> [Outpoints -> TaskType]]
      /\ utxoAddr \in [Outpoints -> Addrs \cup {None}]
  BY DEF IInv, TypeOK
<1> HIDE DEF s, a
<1>1. CASE issuerOf[s] # None
  BY <1>1, <1>a, TaskFailsIInv DEF InsertIssuerRow, TaskGoto, storage, s
<1>2. CASE issuerOf[s] = None
  <2>1. /\ issuerOf' = [issuerOf EXCEPT ![s] = RuneOf[a]]
        /\ task' = [task EXCEPT ![v][o].pc = "create"]
        /\ UNCHANGED <<issued, bridge, status, utxoAddr, utxoStatus,
                       watch, verdict, tokens, req, faults>>
    BY <1>2 DEF InsertIssuerRow, TaskGoto, s, a
  <2>2. /\ task' \in [Verifiers -> [Outpoints -> TaskType]]
        /\ task'[v][o] = [task[v][o] EXCEPT !.pc = "create"]
        /\ \A w \in Verifiers, x \in Outpoints :
             ~(w = v /\ x = o) => task'[w][x] = task[w][x]
    <3>1. "create" \in TaskPC
      BY DEF TaskPC
    <3>2. QED
      BY <3>1, <1>e, <2>1, TaskGotoType
  <2>3. TypeOK'
    <3>1. issuerOf' \in [Shares -> Runes \cup {None}]
      BY <1>c, <1>d, <1>e, <2>1
    <3>2. QED
      BY <3>1, <2>1, <2>2 DEF IInv, TypeOK
  <2>4. WatchUnique' /\ ReplySound' /\ ReplyExclusive' /\ JoinedMeansAccepted'
    BY <2>1 DEF IInv, WatchUnique, ReplySound, ReplyExclusive, JoinedMeansAccepted
  <2>5. UtxoFromRequest' /\ StatusSound'
    BY <2>1 DEF IInv, UtxoFromRequest, StatusSound
  <2>6. TaskSound'
    <3> SUFFICES ASSUME NEW w \in Verifiers, NEW x \in Outpoints
                 PROVE  TaskOK(w, x, task[w][x])'
      BY DEF TaskSound
    <3>1. TaskOK(w, x, task[w][x])
      BY DEF IInv, TaskSound
    <3>2. CASE w = v /\ x = o
      <4>1. /\ task'[w][x].pc = "create" /\ task'[w][x].addr = a
            /\ task'[w][x].share = s
        BY <3>2, <1>a, <2>2 DEF TaskType, s, a
      <4>2. issuerOf'[s] = RuneOf[a]
        BY <1>c, <1>e, <2>1
      <4>3. InFlow(task[v][o])
        BY <1>a DEF InFlow
      <4>4. QED
        BY <3>2, <4>1, <4>2, <4>3, <1>a, <1>b, <2>1 DEF TaskOK, InFlow, a
    <3>3. CASE ~(w = v /\ x = o)
      <4>1. task'[w][x] = task[w][x]
        BY <3>3, <2>2
      <4>2. ASSUME task[w][x].pc \in {"create", "reread", "mint", "minted"}
            PROVE  issuerOf'[task[w][x].share] = RuneOf[task[w][x].addr]
        <5>1. /\ issuerOf[task[w][x].share] = RuneOf[task[w][x].addr]
              /\ task[w][x].share # None /\ task[w][x].addr # None
          BY <3>1, <4>2 DEF TaskOK, InFlow
        <5>2. task[w][x] \in TaskType
          BY <1>e
        <5>3. task[w][x].share \in Shares /\ task[w][x].addr \in Addrs
          BY <5>1, <5>2 DEF TaskType
        <5>4. task[w][x].share # s
          BY <5>1, <5>3, <1>2, <1>d
        <5>5. QED
          BY <5>1, <5>3, <5>4, <1>e, <2>1
      <4>3. QED
        BY <3>1, <4>1, <4>2, <2>1 DEF TaskOK, InFlow
    <3>4. QED
      BY <3>2, <3>3
  <2>7. QED
    BY <2>3, <2>4, <2>5, <2>6 DEF IInv
<1>3. QED
  BY <1>1, <1>2

\* The Create transaction only adds to the tokens Spark knows.
LEMMA CreateTokenIInv ==
  ASSUME IInv, NEW v \in Verifiers, NEW o \in Outpoints, CreateToken(v, o)
  PROVE  IInv'
<1> DEFINE t == [task[v][o] EXCEPT !.pc = "reread"]
<1>a. /\ task[v][o] \in TaskType
      /\ TaskOK(v, o, task[v][o])
      /\ task[v][o].pc = "create"
      /\ faults \in 0..MaxFaults
      /\ tokens \subseteq Shares
  BY TaskFacts DEF CreateToken
<1>b. /\ tokens' = tokens \cup {task[v][o].share}
      /\ task' = [task EXCEPT ![v][o].pc = "reread"]
      /\ UNCHANGED <<storage, watch, verdict, req, faults>>
  BY DEF CreateToken, TaskGoto
<1>c. tokens' \subseteq Shares /\ faults' \in 0..MaxFaults
  BY <1>a, <1>b DEF TaskOK, TaskType
<1>1. t \in TaskType /\ task' = [task EXCEPT ![v][o] = t]
  <2>1. "reread" \in TaskPC /\ TypeOK
    BY DEF TaskPC, IInv
  <2>2. QED
    BY <2>1, <1>b, TaskGotoUpdate
<1>2. TaskOK(v, o, t)
  BY <1>a DEF TaskOK, InFlow, TaskType
<1> HIDE DEF t
<1>3. QED
  BY <1>b, <1>c, <1>1, <1>2, TaskStepIInv

\* The invariant is kept by RereadDepositRow.
LEMMA RereadDepositRowIInv ==
  ASSUME IInv, NEW v \in Verifiers, NEW o \in Outpoints, RereadDepositRow(v, o)
  PROVE  IInv'
<1> DEFINE a == task[v][o].addr
           t == [task[v][o] EXCEPT !.pc = "mint", !.to = bridge[a]]
<1>a. /\ task[v][o] \in TaskType
      /\ TaskOK(v, o, task[v][o])
      /\ task[v][o].pc = "reread"
      /\ faults \in 0..MaxFaults
      /\ tokens \subseteq Shares
  BY TaskFacts DEF RereadDepositRow
<1>b. UNCHANGED <<storage, watch, verdict, tokens, req, faults>>
  BY DEF RereadDepositRow
<1>1. CASE ~(a \in issued /\ bridge[a] # None)
  BY <1>1, <1>a, <1>b, TaskFailsIInv DEF RereadDepositRow, TaskGoto
<1>2. CASE a \in issued /\ bridge[a] # None
  <2>1. bridge[a] \in Bridges \cup {None}
    BY <1>2 DEF IInv, TypeOK
  <2>2. t \in TaskType
    BY <1>a, <2>1 DEF TaskType, TaskPC
  <2>3. t.pc = "mint" /\ t.addr = a /\ t.share = task[v][o].share
    BY <1>a DEF TaskType
  <2>4. task' = [task EXCEPT ![v][o] = t]
    BY <1>2 DEF RereadDepositRow
  <2> HIDE DEF t
  <2>5. TaskOK(v, o, t)
    BY <1>a, <2>3 DEF TaskOK, InFlow
  <2>6. QED
    BY <1>a, <1>b, <2>2, <2>4, <2>5, TaskStepIInv
<1>3. QED
  BY <1>1, <1>2

\* The invariant is kept by MintToken.
LEMMA MintTokenIInv ==
  ASSUME IInv, NEW v \in Verifiers, NEW o \in Outpoints, MintToken(v, o)
  PROVE  IInv'
<1>a. /\ task[v][o] \in TaskType
      /\ TaskOK(v, o, task[v][o])
      /\ task[v][o].pc = "mint"
      /\ faults \in 0..MaxFaults
  BY TaskFacts DEF MintToken
<1>b. UNCHANGED <<storage, watch, verdict, tokens, req, faults>>
  BY DEF MintToken
<1>1. CASE task[v][o].share \notin tokens
  BY <1>1, <1>a, <1>b, TaskFailsIInv DEF MintToken, TaskGoto
<1>2. CASE task[v][o].share \in tokens
  <2>1. TaskOK(v, o, [task[v][o] EXCEPT !.pc = "minted"])
    BY <1>a DEF TaskOK, InFlow, TaskType
  <2>2. task' = [task EXCEPT ![v][o].pc = "minted"]
    BY <1>2 DEF MintToken, TaskGoto
  <2>3. "minted" \in TaskPC
    BY DEF TaskPC
  <2>4. QED
    BY <1>b, <2>1, <2>2, <2>3, TaskGotoIInv
<1>3. QED
  BY <1>1, <1>2

\* The invariant is kept by TaskErr.
LEMMA TaskErrIInv ==
  ASSUME IInv, NEW v \in Verifiers, NEW o \in Outpoints, TaskErr(v, o)
  PROVE  IInv'
<1>1. faults' \in 0..MaxFaults
  BY ConstantsAssumption DEF IInv, TypeOK, TaskErr, Fault
<1>2. QED
  BY <1>1, TaskFailsIInv DEF TaskErr, TaskGoto

\* A verdict is given once, so nothing recorded so far can contradict it.
LEMMA NotifyRunesDepositIInv ==
  ASSUME IInv, NEW v \in Verifiers, NEW o \in Outpoints,
         NEW s \in {"Confirmed", "Failed"}, NotifyRunesDeposit(v, o, s)
  PROVE  IInv'
<1>a. /\ verdict \in [Verifiers -> [Outpoints -> {"none", "Confirmed", "Failed"}]]
      /\ task \in [Verifiers -> [Outpoints -> TaskType]]
  BY DEF IInv, TypeOK
<1>b. /\ verdict[v][o] = "none"
      /\ verdict' = [verdict EXCEPT ![v][o] = s]
      /\ UNCHANGED <<storage, watch, tokens, req>>
  BY DEF NotifyRunesDeposit
<1>c. faults' \in 0..MaxFaults
  BY ConstantsAssumption DEF IInv, TypeOK, NotifyRunesDeposit, Fault
<1>d. PICK p \in {"sats", "failed"} : task' = [task EXCEPT ![v][o].pc = p]
  BY DEF NotifyRunesDeposit, TaskGoto
<1>e. /\ task' \in [Verifiers -> [Outpoints -> TaskType]]
      /\ task'[v][o] = [task[v][o] EXCEPT !.pc = p]
      /\ \A w \in Verifiers, x \in Outpoints :
           ~(w = v /\ x = o) => task'[w][x] = task[w][x]
  <2>1. p \in TaskPC
    BY DEF TaskPC
  <2>2. QED
    BY <2>1, <1>a, <1>d, TaskGotoType
<1>f. /\ task[v][o] \in TaskType
      /\ TaskOK(v, o, task[v][o])
  BY TaskFacts
<1>1. TypeOK'
  <2>1. verdict' \in [Verifiers -> [Outpoints -> {"none", "Confirmed", "Failed"}]]
    BY <1>a, <1>b
  <2>2. QED
    BY <2>1, <1>b, <1>c, <1>e DEF IInv, TypeOK, storage
<1>2. WatchUnique' /\ ReplySound' /\ ReplyExclusive' /\ JoinedMeansAccepted' /\ UtxoFromRequest'
  BY <1>b DEF IInv, WatchUnique, ReplySound, ReplyExclusive, JoinedMeansAccepted,
              UtxoFromRequest, storage
<1>g. \A w \in Verifiers, x \in Outpoints :
        verdict[w][x] # "none" => verdict'[w][x] = verdict[w][x]
  BY <1>a, <1>b
<1>3. StatusSound'
  BY <1>b, <1>g DEF IInv, StatusSound, storage
<1>4. TaskSound'
  <2> SUFFICES ASSUME NEW w \in Verifiers, NEW x \in Outpoints
               PROVE  TaskOK(w, x, task[w][x])'
    BY DEF TaskSound
  <2>1. TaskOK(w, x, task[w][x])
    BY DEF IInv, TaskSound
  <2>2. CASE w = v /\ x = o
    <3>1. task'[w][x].pc = p /\ task'[w][x].addr = task[v][o].addr
      BY <2>2, <1>e, <1>f DEF TaskType
    <3>2. verdict'[v][o] # "none"
      BY <1>a, <1>b
    <3>3. QED
      BY <2>2, <3>1, <3>2, <1>b, <1>f DEF TaskOK, InFlow, storage
  <2>3. CASE ~(w = v /\ x = o)
    <3>1. task'[w][x] = task[w][x]
      BY <2>3, <1>e
    <3>2. QED
      BY <2>1, <3>1, <1>b, <1>g DEF TaskOK, InFlow, storage
  <2>4. QED
    BY <2>2, <2>3
<1>5. QED
  BY <1>1, <1>2, <1>3, <1>4 DEF IInv

-----------------------------------------------------------------------------
(* The theorems.                                                           *)

\* Every step of the specification preserves the inductive invariant.
LEMMA NextIInv == IInv /\ [Next]_vars => IInv'
<1> SUFFICES ASSUME IInv, [Next]_vars PROVE IInv'
  OBVIOUS
<1>1. CASE UNCHANGED vars
  BY <1>1 DEF vars, storage, IInv, TypeOK, WatchUnique, ReplySound, ReplyExclusive,
              JoinedMeansAccepted, UtxoFromRequest, StatusSound, TaskSound, TaskOK, InFlow
<1>2. ASSUME NEW r \in Requests, NEW a \in Addrs, NEW o \in Outpoints, NEW b \in Bridges,
             UpdateBridgeAddress(r, a, o, b)
      PROVE  IInv'
  BY <1>2, UpdateBridgeAddressIInv
<1>3. ASSUME NEW r \in Requests, VerifyRunesDeposit(r) \/ RequestErr(r)
      PROVE  IInv'
  BY <1>3, ReadDepositRowIInv, WatchRunesDepositIInv, JoinWatchRepliesIInv,
     SetConfirmationStatusIInv, InsertUtxoIInv, RequestErrIInv DEF VerifyRunesDeposit
<1>4. ASSUME NEW r \in Requests, NEW v \in Verifiers, WatchRunesDepositErr(r, v)
      PROVE  IInv'
  BY <1>4, WatchRunesDepositIInv
<1>5. ASSUME NEW a \in Addrs, DeletePendingDeposit(a)
      PROVE  IInv'
  BY <1>5, DeletePendingDepositIInv
<1>6. ASSUME NEW v \in Verifiers, NEW o \in Outpoints, NEW s \in {"Confirmed", "Failed"},
             NotifyRunesDeposit(v, o, s)
      PROVE  IInv'
  BY <1>6, NotifyRunesDepositIInv
<1>7. ASSUME NEW v \in Verifiers, NEW o \in Outpoints, NotifyTask(v, o)
      PROVE  IInv'
  BY <1>7, UpdateSatsFeeAmountIInv, GetUtxoIInv, UpdateConfirmationStatusIInv,
     CheckAllVerifiersConfirmedIInv, ConfirmUtxoIInv DEF NotifyTask
<1>8. ASSUME NEW v \in Verifiers, NEW o \in Outpoints, BridgeRunesFlow(v, o)
      PROVE  IInv'
  BY <1>8, FlowReadDepositRowIInv, GetIssuerIdsIInv, PickUnusedShareIInv,
     InsertIssuerRowIInv, CreateTokenIInv, RereadDepositRowIInv, MintTokenIInv
     DEF BridgeRunesFlow
<1>9. ASSUME NEW v \in Verifiers, NEW o \in Outpoints, TaskErr(v, o)
      PROVE  IInv'
  BY <1>9, TaskErrIInv
<1>10. QED
  BY <1>1, <1>2, <1>3, <1>4, <1>5, <1>6, <1>7, <1>8, <1>9 DEF Next

\* The inductive invariant holds in every reachable state.
THEOREM InductiveInvariance == Spec => []IInv
<1>1. QED
  BY InitIInv, NextIInv, PTL DEF Spec

\* Tables, request records and task records stay well formed.
THEOREM TypeCorrect == Spec => []TypeOK
<1>1. IInv => TypeOK
  BY DEF IInv
<1>2. QED
  BY <1>1, InductiveInvariance, PTL

\* What a flow mints was confirmed by every verifier, on the one outpoint that
\* every verifier watches for the address, and with an issuer of its rune.
THEOREM MintsAreBacked == Spec => []MintBacked
<1>1. ASSUME IInv PROVE MintBacked
  <2> SUFFICES ASSUME NEW v \in Verifiers, NEW o \in Outpoints, Minted(v, o)
               PROVE  LET a == task[v][o].addr IN
                      /\ utxoAddr[o] = a
                      /\ utxoStatus[o] = "Confirmed"
                      /\ \A w \in Verifiers : watch[w][a] = o /\ verdict[w][o] = "Confirmed"
                      /\ issuerOf[task[v][o].share] = RuneOf[a]
    BY DEF MintBacked
  <2>1. TaskOK(v, o, task[v][o]) /\ task[v][o].pc = "minted"
    BY <1>1, TaskFacts DEF Minted
  <2>2. /\ task[v][o].addr # None /\ utxoAddr[o] = task[v][o].addr
        /\ utxoStatus[o] = "Confirmed"
        /\ \A w \in Verifiers : verdict[w][o] = "Confirmed"
        /\ issuerOf[task[v][o].share] = RuneOf[task[v][o].addr]
    BY <2>1 DEF TaskOK, InFlow
  <2>3. \A w \in Verifiers : watch[w][task[v][o].addr] = o
    BY <1>1, <2>2, RecordedOnce
  <2>4. QED
    BY <2>2, <2>3
<1>2. QED
  BY <1>1, InductiveInvariance, PTL

\* delete_pending_deposit never removes the row a notification task or a flow
\* is working on.
THEOREM RowsOutliveTasks == Spec => []RowOutlivesTask
<1>1. ASSUME IInv PROVE RowOutlivesTask
  <2> SUFFICES ASSUME NEW v \in Verifiers, NEW o \in Outpoints, task[v][o].addr # None
               PROVE  task[v][o].addr \in issued
    BY DEF RowOutlivesTask
  <2>1. utxoAddr[o] = task[v][o].addr
    BY <1>1, TaskFacts DEF TaskOK
  <2>2. QED
    BY <1>1, <2>1 DEF IInv, UtxoFromRequest
<1>2. QED
  BY <1>1, InductiveInvariance, PTL

\* insert_utxo finds its outpoint without a row.
LEMMA InsertUtxoKeeps ==
  ASSUME IInv, NEW r \in Requests, InsertUtxo(r)
  PROVE  UtxosKept /\ VerdictsKept
<1>1. req[r].pc = "insert_utxo" /\ req[r].outpoint \in Outpoints
  BY DEF IInv, ReplySound, InsertUtxo
<1>2. utxoAddr[req[r].outpoint] = None
  BY <1>1, RecordedOutpointUnique, UnfinishedHasNoUtxo
<1>3. /\ utxoAddr \in [Outpoints -> Addrs \cup {None}]
      /\ utxoStatus \in [Outpoints -> UtxoStatus]
  BY DEF IInv, TypeOK
<1>4. UtxosKept
  BY <1>2, <1>3 DEF InsertUtxo, UtxosKept
<1>5. VerdictsKept
  BY DEF InsertUtxo, VerdictsKept
<1>6. QED
  BY <1>4, <1>5

\* set_confirmation_status finds a row no verifier has reported on.
LEMMA SetConfirmationStatusKeeps ==
  ASSUME IInv, NEW r \in Requests, SetConfirmationStatus(r)
  PROVE  UtxosKept /\ VerdictsKept
<1>1. req[r].pc = "set_status" /\ req[r].addr \in Addrs
  BY DEF IInv, ReplySound, SetConfirmationStatus
<1>2. \A o \in Outpoints : utxoAddr[o] # req[r].addr
  BY <1>1, UnfinishedHasNoUtxo
<1>3. \A v \in Verifiers : status[req[r].addr][v] \notin {"Confirmed", "Failed"}
  BY <1>1, <1>2 DEF IInv, StatusSound
<1>4. status \in [Addrs -> [Verifiers -> DepositStatus]]
  BY DEF IInv, TypeOK
<1>5. VerdictsKept
  BY <1>1, <1>3, <1>4 DEF SetConfirmationStatus, VerdictsKept
<1>6. UtxosKept
  BY DEF SetConfirmationStatus, UtxosKept
<1>7. QED
  BY <1>5, <1>6

\* The steps of tasks and flows keep what is recorded.
LEMMA TaskStepKeeps ==
  ASSUME IInv, NEW v \in Verifiers, NEW o \in Outpoints,
         NotifyTask(v, o) \/ BridgeRunesFlow(v, o) \/ TaskErr(v, o)
  PROVE  UtxosKept /\ VerdictsKept
<1>1. CASE UpdateConfirmationStatus(v, o)
  <2>1. VerdictsKept
    BY <1>1, UpdateConfirmationStatusIInv
  <2>2. UtxosKept
    BY <1>1 DEF UpdateConfirmationStatus, UtxosKept
  <2>3. QED
    BY <2>1, <2>2
<1>2. CASE ConfirmUtxo(v, o)
  <2>1. utxoStatus \in [Outpoints -> UtxoStatus]
    BY DEF IInv, TypeOK
  <2>2. QED
    BY <1>2, <2>1 DEF ConfirmUtxo, UtxosKept, VerdictsKept
<1>3. CASE InsertIssuerRow(v, o)
  BY <1>3 DEF InsertIssuerRow, UtxosKept, VerdictsKept
<1>4. CASE UNCHANGED storage
  BY <1>4 DEF storage, UtxosKept, VerdictsKept
<1>5. QED
  BY <1>1, <1>2, <1>3, <1>4
     DEF NotifyTask, BridgeRunesFlow, TaskErr, UpdateSatsFeeAmount, GetUtxo,
         CheckAllVerifiersConfirmed, FlowReadDepositRow, GetIssuerIds, PickUnusedShare,
         CreateToken, RereadDepositRow, MintToken

\* No request, however late, resets a recorded outpoint or a verdict.
THEOREM NothingReset == Spec => NothingIsReset
<1>1. ASSUME IInv, Next PROVE UtxosKept /\ VerdictsKept
  <2>1. ASSUME NEW r \in Requests, NEW a \in Addrs, NEW o \in Outpoints, NEW b \in Bridges,
               UpdateBridgeAddress(r, a, o, b)
        PROVE  UtxosKept /\ VerdictsKept
    BY <2>1 DEF UpdateBridgeAddress, UtxosKept, VerdictsKept
  <2>2. ASSUME NEW r \in Requests, VerifyRunesDeposit(r) \/ RequestErr(r)
        PROVE  UtxosKept /\ VerdictsKept
    <3>1. CASE UNCHANGED storage
      BY <3>1 DEF storage, UtxosKept, VerdictsKept
    <3>2. QED
      BY <1>1, <2>2, <3>1, InsertUtxoKeeps, SetConfirmationStatusKeeps
         DEF VerifyRunesDeposit, RequestErr, ReadDepositRow, WatchRunesDeposit,
             JoinWatchReplies
  <2>3. ASSUME NEW r \in Requests, NEW v \in Verifiers, WatchRunesDepositErr(r, v)
        PROVE  UtxosKept /\ VerdictsKept
    BY <2>3 DEF WatchRunesDepositErr, storage, UtxosKept, VerdictsKept
  <2>4. ASSUME NEW a \in Addrs, DeletePendingDeposit(a)
        PROVE  UtxosKept /\ VerdictsKept
    BY <2>4 DEF DeletePendingDeposit, UtxosKept, VerdictsKept
  <2>5. ASSUME NEW v \in Verifiers, NEW o \in Outpoints, NEW s \in {"Confirmed", "Failed"},
               NotifyRunesDeposit(v, o, s)
        PROVE  UtxosKept /\ VerdictsKept
    BY <2>5 DEF NotifyRunesDeposit, storage, UtxosKept, VerdictsKept
  <2>6. QED
    BY <1>1, <2>1, <2>2, <2>3, <2>4, <2>5, TaskStepKeeps DEF Next
<1>2. QED
  BY <1>1, InductiveInvariance, PTL DEF Spec, NothingIsReset

Payout == {x \in Outpoints \X Verifiers : Minted(x[2], x[1])}

\* Steps that mint nowhere leave the set of payouts alone.
LEMMA PayoutKept ==
  ASSUME \A v \in Verifiers, o \in Outpoints : (task'[v][o].pc = "minted") = (task[v][o].pc = "minted")
  PROVE  Payout' = Payout
<1>1. \A x \in Outpoints \X Verifiers : x[1] \in Outpoints /\ x[2] \in Verifiers
  OBVIOUS
<1>2. \A x \in Outpoints \X Verifiers : Minted(x[2], x[1])' = Minted(x[2], x[1])
  BY <1>1 DEF Minted
<1>3. QED
  BY <1>2 DEF Payout

\* A step of a task or its flow that does not mint is a stutter.
LEMMA TaskStepStutters ==
  ASSUME TypeOK, NEW v \in Verifiers, NEW o \in Outpoints,
         \/ NotifyTask(v, o) \/ TaskErr(v, o) \/ FlowReadDepositRow(v, o)
         \/ GetIssuerIds(v, o) \/ PickUnusedShare(v, o) \/ InsertIssuerRow(v, o)
         \/ CreateToken(v, o) \/ RereadDepositRow(v, o)
  PROVE  Payout' = Payout /\ verdict' = verdict
<1>1. task \in [Verifiers -> [Outpoints -> TaskType]]
  BY DEF TypeOK
<1>2. \/ \E p \in TaskPC \ {"minted"} : task' = [task EXCEPT ![v][o].pc = p]
      \/ \E p \in TaskPC \ {"minted"}, x \in Addrs \cup {None} :
           task' = [task EXCEPT ![v][o].pc = p, ![v][o].addr = x]
      \/ \E p \in TaskPC \ {"minted"}, x \in Shares \cup {None} :
           task' = [task EXCEPT ![v][o].pc = p, ![v][o].share = x]
      \/ \E p \in TaskPC \ {"minted"}, x \in Bridges \cup {None} :
           task' = [task EXCEPT ![v][o].pc = p, ![v][o].to = x]
  <2>1. CASE NotifyTask(v, o) \/ TaskErr(v, o)
    BY <2>1 DEF NotifyTask, TaskErr, UpdateSatsFeeAmount, GetUtxo, UpdateConfirmationStatus,
       CheckAllVerifiersConfirmed, ConfirmUtxo, TaskGoto, TaskPC, TypeOK
  <2>2. CASE FlowReadDepositRow(v, o) \/ CreateToken(v, o) \/ InsertIssuerRow(v, o)
    BY <2>2 DEF FlowReadDepositRow, CreateToken, InsertIssuerRow, TaskGoto, TaskPC
  <2>3. CASE GetIssuerIds(v, o) \/ PickUnusedShare(v, o)
    BY <2>3 DEF GetIssuerIds, PickUnusedShare, TaskGoto, TaskPC, IssuersOf, UnusedShares
  <2>4. CASE RereadDepositRow(v, o)
    <3>1. task[v][o].addr \in Addrs \cup {None}
      BY <1>1 DEF TaskType
    <3>2. bridge \in [Addrs -> Bridges \cup {None}] /\ issued \subseteq Addrs
      BY DEF TypeOK
    <3>3. QED
      BY <2>4, <3>1, <3>2 DEF RereadDepositRow, TaskGoto, TaskPC
  <2>5. QED
    BY <2>1, <2>2, <2>3, <2>4
<1>3. task[v][o].pc # "minted"
  BY DEF NotifyTask, TaskErr, UpdateSatsFeeAmount, GetUtxo, UpdateConfirmationStatus,
     CheckAllVerifiersConfirmed, ConfirmUtxo, FlowReadDepositRow, CreateToken,
     InsertIssuerRow, GetIssuerIds, PickUnusedShare, RereadDepositRow
<1>4. \A w \in Verifiers, q \in Outpoints :
        (task'[w][q].pc = "minted") = (task[w][q].pc = "minted")
  <2>1. ASSUME NEW p \in TaskPC \ {"minted"}, task' = [task EXCEPT ![v][o].pc = p]
        PROVE  \A w \in Verifiers, q \in Outpoints :
                 (task'[w][q].pc = "minted") = (task[w][q].pc = "minted")
    BY <1>1, <1>3, <2>1 DEF TaskType
  <2>2. ASSUME NEW p \in TaskPC \ {"minted"}, NEW x \in Addrs \cup {None},
               task' = [task EXCEPT ![v][o].pc = p, ![v][o].addr = x]
        PROVE  \A w \in Verifiers, q \in Outpoints :
                 (task'[w][q].pc = "minted") = (task[w][q].pc = "minted")
    BY <1>1, <1>3, <2>2 DEF TaskType
  <2>3. ASSUME NEW p \in TaskPC \ {"minted"}, NEW x \in Shares \cup {None},
               task' = [task EXCEPT ![v][o].pc = p, ![v][o].share = x]
        PROVE  \A w \in Verifiers, q \in Outpoints :
                 (task'[w][q].pc = "minted") = (task[w][q].pc = "minted")
    BY <1>1, <1>3, <2>3 DEF TaskType
  <2>4. ASSUME NEW p \in TaskPC \ {"minted"}, NEW x \in Bridges \cup {None},
               task' = [task EXCEPT ![v][o].pc = p, ![v][o].to = x]
        PROVE  \A w \in Verifiers, q \in Outpoints :
                 (task'[w][q].pc = "minted") = (task[w][q].pc = "minted")
    BY <1>1, <1>3, <2>4 DEF TaskType
  <2>5. QED
    BY <1>2, <2>1, <2>2, <2>3, <2>4
<1>5. verdict' = verdict
  BY DEF NotifyTask, TaskErr, UpdateSatsFeeAmount, GetUtxo, UpdateConfirmationStatus,
     CheckAllVerifiersConfirmed, ConfirmUtxo, FlowReadDepositRow, CreateToken,
     InsertIssuerRow, GetIssuerIds, PickUnusedShare, RereadDepositRow
<1>6. QED
  BY <1>4, <1>5, PayoutKept

\* MintToken pays out, or fails and is a stutter.
LEMMA MintTokenPays ==
  ASSUME IInv, NEW v \in Verifiers, NEW o \in Outpoints, MintToken(v, o)
  PROVE  /\ verdict' = verdict
         /\ \A w \in Verifiers : verdict[w][o] = "Confirmed"
         /\ Payout' = Payout \/ Payout' = Payout \cup {<<o, v>>}
<1>1. task \in [Verifiers -> [Outpoints -> TaskType]] /\ task[v][o].pc = "mint"
  BY DEF IInv, TypeOK, MintToken
<1>2. \A w \in Verifiers : verdict[w][o] = "Confirmed"
  BY <1>1 DEF IInv, TaskSound, TaskOK, InFlow
<1>3. CASE task' = [task EXCEPT ![v][o].pc = "failed"]
  <2>1. \A w \in Verifiers, q \in Outpoints :
          (task'[w][q].pc = "minted") = (task[w][q].pc = "minted")
    BY <1>1, <1>3 DEF TaskType
  <2>2. QED
    BY <1>2, <2>1, PayoutKept DEF MintToken
<1>4. CASE task' = [task EXCEPT ![v][o].pc = "minted"]
  <2>1. \A w \in Verifiers, q \in Outpoints :
          (task'[w][q].pc = "minted") = (task[w][q].pc = "minted" \/ (w = v /\ q = o))
    BY <1>1, <1>4 DEF TaskType
  <2>2. Payout' = {x \in Outpoints \X Verifiers : task'[x[2]][x[1]].pc = "minted"}
    BY DEF Payout, Minted
  <2>3. Payout = {x \in Outpoints \X Verifiers : task[x[2]][x[1]].pc = "minted"}
    BY DEF Payout, Minted
  <2>4. \A x \in Outpoints \X Verifiers :
          /\ x[1] \in Outpoints /\ x[2] \in Verifiers
          /\ x = <<o, v>> <=> (x[1] = o /\ x[2] = v)
    OBVIOUS
  <2>5. <<o, v>> \in Outpoints \X Verifiers
    OBVIOUS
  <2>6. Payout' = Payout \cup {<<o, v>>}
    BY <2>1, <2>2, <2>3, <2>4, <2>5
  <2>7. QED
    BY <1>2, <2>6 DEF MintToken
<1>5. QED
  BY <1>3, <1>4 DEF MintToken, TaskGoto

\* A notification decides once and pays nothing out.
LEMMA NotifyDecides ==
  ASSUME IInv, NEW v \in Verifiers, NEW o \in Outpoints, NEW s \in {"Confirmed", "Failed"},
         NotifyRunesDeposit(v, o, s)
  PROVE  Contract!Decide(v, o, s) /\ Payout' = Payout
<1>1. task \in [Verifiers -> [Outpoints -> TaskType]]
  BY DEF IInv, TypeOK
<1>2. task[v][o].pc = "idle"
  BY DEF IInv, TaskSound, TaskOK, NotifyRunesDeposit
<1>3. \E p \in {"sats", "failed"} : task' = [task EXCEPT ![v][o].pc = p]
  BY DEF NotifyRunesDeposit, TaskGoto
<1>4. \A w \in Verifiers, q \in Outpoints :
        (task'[w][q].pc = "minted") = (task[w][q].pc = "minted")
  BY <1>1, <1>2, <1>3 DEF TaskType
<1>5. Payout' = Payout
  BY <1>4, PayoutKept
<1>6. QED
  BY <1>5 DEF NotifyRunesDeposit, Contract!Decide, Payout

\* Every step of the gateway is a step of the contract or a stutter.
LEMMA StepApproved ==
  ASSUME IInv, [Next]_vars
  PROVE  [Contract!Next]_<<verdict, Payout>>
<1>1. CASE UNCHANGED <<verdict, task>>
  <2>1. Payout' = Payout
    BY <1>1, PayoutKept
  <2>2. QED
    BY <1>1, <2>1
<1>2. ASSUME NEW v \in Verifiers, NEW o \in Outpoints, NEW s \in {"Confirmed", "Failed"},
             NotifyRunesDeposit(v, o, s)
      PROVE  Contract!Next
  BY <1>2, NotifyDecides DEF Contract!Next
<1>3. ASSUME NEW v \in Verifiers, NEW o \in Outpoints, MintToken(v, o)
      PROVE  [Contract!Next]_<<verdict, Payout>>
  <2>1. Payout' = Payout \cup {<<o, v>>} => Contract!Pay(o, v)
    BY <1>3, MintTokenPays DEF Contract!Pay, Payout
  <2>2. QED
    BY <1>3, <2>1, MintTokenPays DEF Contract!Next
<1>4. ASSUME NEW v \in Verifiers, NEW o \in Outpoints,
             NotifyTask(v, o) \/ BridgeRunesFlow(v, o) \/ TaskErr(v, o)
      PROVE  [Contract!Next]_<<verdict, Payout>>
  BY <1>3, <1>4, TaskStepStutters DEF BridgeRunesFlow, IInv
<1>5. QED
  BY <1>1, <1>2, <1>4
     DEF Next, vars, VerifyRunesDeposit, RequestErr, UpdateBridgeAddress, ReadDepositRow,
         WatchRunesDeposit, JoinWatchReplies, SetConfirmationStatus, InsertUtxo,
         WatchRunesDepositErr, DeletePendingDeposit

\* The Runes direction of the gateway implements the approval contract.
THEOREM ImplementsApproval == Spec => MintsApproved
<1>1. Init => Contract!Init
  <2>1. SUFFICES ASSUME Init PROVE Contract!Init
    OBVIOUS
  <2>2. \A v \in Verifiers, o \in Outpoints : task[v][o].pc = "idle"
    BY <2>1 DEF Init
  <2>3. Payout = {}
    <3>1. \A x \in Outpoints \X Verifiers : x[1] \in Outpoints /\ x[2] \in Verifiers
      OBVIOUS
    <3>2. \A x \in Outpoints \X Verifiers : ~Minted(x[2], x[1])
      BY <2>2, <3>1 DEF Minted
    <3>3. QED
      BY <3>2 DEF Payout
  <2>4. QED
    BY <2>1, <2>3 DEF Init, Contract!Init, Contract!Undecided, Payout
<1>2. QED
  BY <1>1, StepApproved, InductiveInvariance, PTL
     DEF Spec, MintsApproved, Contract!Spec, Payout

=============================================================================
