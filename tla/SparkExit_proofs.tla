-------------------------- MODULE SparkExit_proofs --------------------------
(***************************************************************************)
(* IInv is an inductive invariant of SparkExit, and SparkExit implements   *)
(* Approval, for every set of verifiers, addresses, requests and fee       *)
(* payments and every number of faults.                                    *)
(***************************************************************************)
EXTENDS SparkExit, TLAPS

\* Nothing has been asked, decided or started at first.
LEMMA InitIInv == Init => IInv
<1> SUFFICES ASSUME Init PROVE IInv
  OBVIOUS
<1> USE ConstantsAssumption DEF Init
<1>1. TypeOK
  <2>1. [conf |-> "absent", fee |-> None, feeStatus |-> "Pending",
         token |-> "minted", to |-> None] \in RowType
    BY DEF RowType, Tokens
  <2>2. [pc |-> "idle", addr |-> None, to |-> None, paying |-> None, fee |-> None,
         token |-> "minted", reply |-> [v \in Verifiers |-> "none"]] \in ReqType
    BY DEF ReqType, Tokens, Replies
  <2>3. [pc |-> "none", to |-> None, paying |-> None] \in FlowType
    BY DEF FlowType
  <2>4. QED
    BY <2>1, <2>2, <2>3 DEF TypeOK, DepositStatus, Tokens
<1>2. RequestSound
  BY DEF RequestSound
<1>3. ClaimSound /\ ClaimUnique
  BY DEF ClaimSound, ClaimUnique, Claimed
<1>4. RowSound /\ CallbackSound /\ NotifSound /\ NotifOnce
  BY DEF RowSound, CallbackSound, NotifSound, NotifOnce, Verdicts
<1>5. StatusSound /\ StartSound
  BY DEF StatusSound, StartSound, Started
<1>6. PayingKept
  BY DEF PayingKept
<1>7. WakeUp
  BY DEF WakeUp, AllVerifiersConfirmed
<1>8. QED
  BY <1>1, <1>2, <1>3, <1>4, <1>5, <1>6, <1>7 DEF IInv

-----------------------------------------------------------------------------
(* Steps of a request.                                                     *)

\* What a step of a request leaves alone of all requests.
SameClaims ==
  \A q \in Requests : /\ req'[q].addr = req[q].addr /\ req'[q].to = req[q].to
                      /\ req'[q].paying = req[q].paying /\ req'[q].fee = req[q].fee
                      /\ req'[q].reply = req[q].reply
OthersStay(r) == \A q \in Requests : q # r => req'[q] = req[q]

\* ReqGoto changes where one request is.
LEMMA ReqGotoFacts ==
  ASSUME TypeOK, NEW r \in Requests, NEW p,
         p \in {"idle", "paying", "read", "token", "watch", "set_status", "send", "done", "failed"},
         ReqGoto(r, p)
  PROVE  req' \in [Requests -> ReqType] /\ req'[r].pc = p /\ SameClaims /\ OthersStay(r)
<1>1. req \in [Requests -> ReqType]
  BY DEF TypeOK
<1>2. [req[r] EXCEPT !.pc = p] \in ReqType
  BY <1>1 DEF ReqType
<1>3. req' = [req EXCEPT ![r] = [req[r] EXCEPT !.pc = p]]
  BY <1>1 DEF ReqGoto, ReqType
<1>4. QED
  BY <1>1, <1>2, <1>3 DEF ReqType, SameClaims, OthersStay

\* The read of the token keeps the request's address and answers too.
LEMMA ReqTokenFacts ==
  ASSUME TypeOK, NEW r \in Requests, NEW token \in Tokens,
         req' = [req EXCEPT ![r].pc = "watch", ![r].token = token]
  PROVE  req' \in [Requests -> ReqType] /\ req'[r].pc = "watch" /\ SameClaims /\ OthersStay(r)
<1>1. req \in [Requests -> ReqType]
  BY DEF TypeOK
<1>2. [req[r] EXCEPT !.pc = "watch", !.token = token] \in ReqType
  BY <1>1 DEF ReqType
<1>3. req' = [req EXCEPT ![r] = [req[r] EXCEPT !.pc = "watch", !.token = token]]
  BY <1>1 DEF ReqType
<1>4. QED
  BY <1>1, <1>2, <1>3 DEF ReqType, SameClaims, OthersStay

\* What does not depend on where the requests are.
LEMMA ClaimsFrame ==
  ASSUME IInv, SameClaims, UNCHANGED <<feeOn, bridge, row, callback, notif>>
  PROVE  ClaimSound' /\ ClaimUnique' /\ RowSound' /\ CallbackSound' /\ NotifSound' /\ NotifOnce'
<1>1. ClaimSound'
  BY DEF IInv, ClaimSound, SameClaims
<1>2. ClaimUnique'
  BY DEF IInv, ClaimUnique, SameClaims
<1>3. RowSound' /\ CallbackSound'
  BY DEF IInv, RowSound, CallbackSound
<1>4. NotifSound' /\ NotifOnce'
  BY DEF IInv, NotifSound, NotifOnce, AllRowsConfirmed
<1>5. QED
  BY <1>1, <1>2, <1>3, <1>4

\* A request that moves on keeps what it may rely on.
LEMMA RequestMove ==
  ASSUME IInv, NEW r \in Requests, SameClaims, OthersStay(r), UNCHANGED bridge,
         req[r].pc # "idle", req'[r].pc # "idle",
         req'[r].pc \in {"set_status", "send"} =>
           \A v \in Verifiers : req[r].reply[v] \in Final \ {"err"},
         req'[r].pc = "send" => \A v \in Verifiers : req[r].reply[v] = "Confirmed"
  PROVE  RequestSound'
<1> SUFFICES ASSUME NEW q \in Requests
             PROVE  /\ req'[q].pc = "idle" => \A v \in Verifiers : req'[q].reply[v] = "none"
                    /\ req'[q].pc # "idle" =>
                         /\ req'[q].addr \in Addrs /\ req'[q].to \in Exits
                         /\ req'[q].paying \in Payings /\ bridge[req'[q].addr] # None
                    /\ req'[q].pc \in {"set_status", "send"} =>
                         \A v \in Verifiers : req'[q].reply[v] \in Final \ {"err"}
                    /\ req'[q].pc = "send" => \A v \in Verifiers : req'[q].reply[v] = "Confirmed"
  BY DEF RequestSound
<1>1. CASE q = r
  BY <1>1 DEF IInv, RequestSound, SameClaims
<1>2. CASE q # r
  BY <1>2 DEF IInv, RequestSound, OthersStay
<1>3. QED
  BY <1>1, <1>2

\* Moves of a request before it sends leave the started flows alone.
LEMMA StartMove ==
  ASSUME IInv, NEW r \in Requests, SameClaims, OthersStay(r), UNCHANGED <<row, notif, flow>>,
         req[r].pc # "done"
  PROVE  StartSound'
<1> SUFFICES ASSUME NEW a \in Addrs, NEW k \in Senders, flow[a][k].pc # "none"
             PROVE  /\ AllRowsConfirmed(a)
                    /\ k \in Requests => /\ req'[k].pc = "done" /\ req'[k].addr = a
                                         /\ \A v \in Verifiers : req'[k].reply[v] = "Confirmed"
                    /\ k \in Verifiers => notif[k][a] # "idle"
  BY DEF StartSound, Started, AllRowsConfirmed
<1>1. /\ AllRowsConfirmed(a)
      /\ k \in Requests => /\ req[k].pc = "done" /\ req[k].addr = a
                           /\ \A v \in Verifiers : req[k].reply[v] = "Confirmed"
      /\ k \in Verifiers => notif[k][a] # "idle"
  BY DEF IInv, StartSound, Started
<1>2. QED
  BY <1>1 DEF OthersStay

\* Moves of a request that is past its paying input leave that input alone.
LEMMA PayingMove ==
  ASSUME IInv, NEW r \in Requests, SameClaims, OthersStay(r), UNCHANGED <<bridge, flow>>,
         \A p \in Payings : paying[p] # None => paying'[p] = paying[p],
         req[r].pc = "paying" => \/ req'[r].pc = "failed"
                                 \/ paying'[req[r].paying] = req[r].to,
         req[r].pc # "failed"
  PROVE  PayingKept'
<1>1. ASSUME NEW a \in Addrs, NEW e, e # None, PayingOf(a, e) PROVE PayingOf(a, e)'
  <2>1. CASE \E p \in Payings : paying[p] = e
    BY <1>1, <2>1 DEF PayingOf
  <2>2. CASE \E q \in Requests : /\ req[q].addr = a /\ req[q].to = e
                                 /\ req[q].pc \in {"paying", "failed"}
    <3>1. PICK q \in Requests : /\ req[q].addr = a /\ req[q].to = e
                                /\ req[q].pc \in {"paying", "failed"}
      BY <2>2
    <3>2. CASE q # r
      BY <3>1, <3>2 DEF PayingOf, OthersStay
    <3>3. CASE q = r /\ req'[r].pc = "failed"
      BY <3>1, <3>3 DEF PayingOf, SameClaims
    <3>4. CASE q = r /\ paying'[req[r].paying] = req[r].to
      <4>1. req[r].paying \in Payings
        BY <3>1, <3>4 DEF IInv, RequestSound
      <4>2. QED
        BY <3>1, <3>4, <4>1 DEF PayingOf
    <3>5. QED
      BY <3>1, <3>2, <3>3, <3>4
  <2>3. QED
    BY <1>1, <2>1, <2>2 DEF PayingOf
<1>2. ASSUME NEW a \in Addrs, NEW k \in Senders, flow[a][k].pc = "pay"
      PROVE  flow[a][k].to # None /\ PayingOf(a, flow[a][k].to)
  BY <1>2 DEF IInv, PayingKept
<1>3. ASSUME NEW a \in Addrs, bridge[a] # None
      PROVE  PayingOf(a, bridge[a])
  BY <1>3 DEF IInv, PayingKept
<1>4. QED
  BY <1>1, <1>2, <1>3 DEF PayingKept

\* The invariant is kept by InsertPayingUtxo.
LEMMA InsertPayingUtxoIInv ==
  ASSUME IInv, NEW r \in Requests, InsertPayingUtxo(r)
  PROVE  IInv'
<1>1. TypeOK /\ req[r].pc = "paying" /\ req[r].paying \in Payings /\ req[r].to \in Exits
  BY DEF IInv, RequestSound, InsertPayingUtxo
<1>2. UNCHANGED <<feeOn, bridge, status, cache, row, outputs, callback, notif, flow, faults>>
  BY DEF InsertPayingUtxo
<1>3. PICK p \in {"read", "failed"} : ReqGoto(r, p)
  BY DEF InsertPayingUtxo
<1>4. req' \in [Requests -> ReqType] /\ req'[r].pc = p /\ SameClaims /\ OthersStay(r)
  BY <1>1, <1>3, ReqGotoFacts
<1>5. /\ paying' \in [Payings -> Exits \cup {None}]
      /\ \A x \in Payings : paying[x] # None => paying'[x] = paying[x]
      /\ req'[r].pc = "failed" \/ paying'[req[r].paying] = req[r].to
  <2>1. paying \in [Payings -> Exits \cup {None}]
    BY <1>1 DEF TypeOK
  <2>2. CASE paying[req[r].paying] = None
    BY <1>1, <2>1, <2>2 DEF InsertPayingUtxo
  <2>3. CASE paying[req[r].paying] # None
    <3>1. ReqGoto(r, "failed") /\ UNCHANGED paying
      BY <2>3 DEF InsertPayingUtxo
    <3>2. req'[r].pc = "failed"
      BY <1>1, <3>1, ReqGotoFacts
    <3>3. QED
      BY <2>1, <3>1, <3>2
  <2>4. QED
    BY <2>2, <2>3
<1>6. TypeOK'
  BY <1>1, <1>2, <1>4, <1>5 DEF TypeOK
<1>7. RequestSound'
  BY <1>1, <1>2, <1>4, RequestMove
<1>8. ClaimSound' /\ ClaimUnique' /\ RowSound' /\ CallbackSound' /\ NotifSound' /\ NotifOnce'
  BY <1>2, <1>4, ClaimsFrame
<1>9. StatusSound'
  BY <1>2 DEF IInv, StatusSound
<1>10. StartSound'
  BY <1>1, <1>2, <1>4, StartMove
<1>11. PayingKept'
  BY <1>1, <1>2, <1>4, <1>5, PayingMove
<1>12. WakeUp'
  BY <1>1, <1>2, <1>4 DEF IInv, WakeUp, AllVerifiersConfirmed, Started, SameClaims, OthersStay
<1>13. QED
  BY <1>6, <1>7, <1>8, <1>9, <1>10, <1>11, <1>12 DEF IInv

\* A request that reads, or joins its answers, keeps the invariant.
LEMMA PlainMove ==
  ASSUME IInv, NEW r \in Requests, req' \in [Requests -> ReqType], SameClaims, OthersStay(r),
         req[r].pc \in {"read", "token", "watch"}, req'[r].pc \notin {"idle", "send"},
         req'[r].pc = "set_status" =>
           \A v \in Verifiers : req[r].reply[v] \in Final \ {"err"},
         cache' \in Tokens \cup {None}, faults' \in 0..MaxFaults, faults <= faults',
         UNCHANGED <<feeOn, bridge, status, paying, row, outputs, callback, notif, flow>>
  PROVE  IInv'
<1>1. TypeOK'
  BY DEF IInv, TypeOK
<1>2. RequestSound'
  BY RequestMove
<1>3. ClaimSound' /\ ClaimUnique' /\ RowSound' /\ CallbackSound' /\ NotifSound' /\ NotifOnce'
  BY ClaimsFrame
<1>4. StatusSound'
  BY DEF IInv, StatusSound
<1>5. StartSound'
  BY StartMove
<1>6. PayingKept'
  BY PayingMove
<1>7. WakeUp'
  <2>1. faults' = 0 => faults = 0
    BY ConstantsAssumption DEF IInv, TypeOK
  <2>2. \A q \in Requests : req[q].pc = "send" => req'[q] = req[q]
    BY DEF OthersStay
  <2>3. QED
    BY <2>1, <2>2 DEF IInv, WakeUp, AllVerifiersConfirmed, Started
<1>8. QED
  BY <1>1, <1>2, <1>3, <1>4, <1>5, <1>6, <1>7 DEF IInv

\* The invariant is kept by ReadCachedToken.
LEMMA ReadCachedTokenIInv ==
  ASSUME IInv, NEW r \in Requests, ReadCachedToken(r)
  PROVE  IInv'
<1>1. /\ TypeOK /\ req[r].pc = "read" /\ cache \in Tokens \cup {None}
      /\ UNCHANGED <<feeOn, bridge, status, paying, cache, row, outputs, callback, notif, flow,
                     faults>>
      /\ faults \in 0..MaxFaults
  BY DEF IInv, TypeOK, ReadCachedToken, tables
<1>2. /\ req' \in [Requests -> ReqType] /\ req'[r].pc \in {"watch", "token"}
      /\ SameClaims /\ OthersStay(r)
  <2>1. CASE cache # None
    BY <1>1, <2>1, ReqTokenFacts DEF ReadCachedToken
  <2>2. CASE cache = None
    BY <1>1, <2>2, ReqGotoFacts DEF ReadCachedToken
  <2>3. QED
    BY <2>1, <2>2
<1>3. QED
  BY <1>1, <1>2, PlainMove

\* The invariant is kept by RebuildWruneMetadata.
LEMMA RebuildWruneMetadataIInv ==
  ASSUME IInv, NEW r \in Requests, NEW token \in Tokens, RebuildWruneMetadata(r, token)
  PROVE  IInv'
<1>1. /\ TypeOK /\ req[r].pc = "token" /\ cache' = token
      /\ UNCHANGED <<feeOn, bridge, status, paying, row, outputs, callback, notif, flow>>
      /\ req' = [req EXCEPT ![r].pc = "watch", ![r].token = token]
  BY DEF IInv, RebuildWruneMetadata
<1>2. faults' \in 0..MaxFaults /\ faults <= faults'
  BY <1>1, ConstantsAssumption DEF RebuildWruneMetadata, Fault, TypeOK
<1>3. req' \in [Requests -> ReqType] /\ req'[r].pc = "watch" /\ SameClaims /\ OthersStay(r)
  BY <1>1, ReqTokenFacts
<1>4. QED
  BY <1>1, <1>2, <1>3, PlainMove

\* The invariant is kept by JoinWatchReplies.
LEMMA JoinWatchRepliesIInv ==
  ASSUME IInv, NEW r \in Requests, JoinWatchReplies(r)
  PROVE  IInv'
<1>1. /\ TypeOK /\ req[r].pc = "watch" /\ cache \in Tokens \cup {None}
      /\ UNCHANGED <<feeOn, bridge, status, paying, cache, row, outputs, callback, notif, flow,
                     faults>>
      /\ faults \in 0..MaxFaults
      /\ \A v \in Verifiers : req[r].reply[v] \in Final
  BY DEF IInv, TypeOK, JoinWatchReplies, tables
<1>2. PICK p \in {"set_status", "failed"} :
        /\ ReqGoto(r, p)
        /\ p = "set_status" => \A v \in Verifiers : req[r].reply[v] # "err"
  BY DEF JoinWatchReplies
<1>3. req' \in [Requests -> ReqType] /\ req'[r].pc = p /\ SameClaims /\ OthersStay(r)
  BY <1>1, <1>2, ReqGotoFacts
<1>4. QED
  BY <1>1, <1>2, <1>3, PlainMove

\* The invariant is kept by RequestErr.
LEMMA RequestErrIInv ==
  ASSUME IInv, NEW r \in Requests, RequestErr(r)
  PROVE  IInv'
<1>1. /\ TypeOK /\ req[r].pc \notin {"idle", "done", "failed"} /\ ReqGoto(r, "failed")
      /\ UNCHANGED <<feeOn, bridge, status, paying, cache, row, outputs, callback, notif, flow>>
      /\ faults' \in 0..MaxFaults /\ faults' # 0
  BY ConstantsAssumption DEF IInv, TypeOK, RequestErr, tables, Fault
<1>2. req' \in [Requests -> ReqType] /\ req'[r].pc = "failed" /\ SameClaims /\ OthersStay(r)
  BY <1>1, ReqGotoFacts
<1>3. TypeOK'
  BY <1>1, <1>2 DEF TypeOK
<1>4. RequestSound'
  BY <1>1, <1>2, RequestMove
<1>5. ClaimSound' /\ ClaimUnique' /\ RowSound' /\ CallbackSound' /\ NotifSound' /\ NotifOnce'
  BY <1>1, <1>2, ClaimsFrame
<1>6. StatusSound' /\ WakeUp'
  BY <1>1 DEF IInv, StatusSound, WakeUp
<1>7. StartSound'
  BY <1>1, <1>2, StartMove
<1>8. PayingKept'
  BY <1>1, <1>2, PayingMove
<1>9. QED
  BY <1>3, <1>4, <1>5, <1>6, <1>7, <1>8 DEF IInv

\* The invariant is kept by SetConfirmationStatus.
LEMMA SetConfirmationStatusIInv ==
  ASSUME IInv, NEW r \in Requests, SetConfirmationStatus(r)
  PROVE  IInv'
<1>1. /\ TypeOK /\ req[r].pc = "set_status" /\ req[r].addr \in Addrs
      /\ \A v \in Verifiers : req[r].reply[v] \in Final \ {"err"}
      /\ UNCHANGED <<feeOn, bridge, paying, cache, row, outputs, callback, notif, flow, faults>>
      /\ status' = [status EXCEPT ![req[r].addr] = req[r].reply]
  BY DEF IInv, RequestSound, SetConfirmationStatus
<1>2. PICK p \in {"send", "done"} :
        /\ ReqGoto(r, p)
        /\ p = "send" <=> \A v \in Verifiers : req[r].reply[v] = "Confirmed"
  BY DEF SetConfirmationStatus
<1>3. req' \in [Requests -> ReqType] /\ req'[r].pc = p /\ SameClaims /\ OthersStay(r)
  BY <1>1, <1>2, ReqGotoFacts
<1>4. req[r].reply \in [Verifiers -> Replies]
  BY <1>1 DEF TypeOK, ReqType
<1>5. req[r].reply \in [Verifiers -> DepositStatus]
  BY <1>1, <1>4 DEF Final, DepositStatus
<1>6. /\ status' \in [Addrs -> [Verifiers -> DepositStatus]]
      /\ status'[req[r].addr] = req[r].reply
      /\ \A a \in Addrs : a # req[r].addr => status'[a] = status[a]
  BY <1>1, <1>5 DEF TypeOK
<1>7. TypeOK'
  BY <1>1, <1>3, <1>6 DEF TypeOK
<1>8. RequestSound'
  BY <1>1, <1>2, <1>3, RequestMove
<1>9. ClaimSound' /\ ClaimUnique' /\ RowSound' /\ CallbackSound' /\ NotifSound' /\ NotifOnce'
  BY <1>1, <1>3, ClaimsFrame
<1>10. StatusSound'
  <2>1. \A v \in Verifiers : req[r].reply[v] = "Confirmed" => row[v][req[r].addr].conf = "Confirmed"
    BY <1>1, <1>4 DEF IInv, ClaimSound, Claimed, Replies, Verdicts
  <2>2. QED
    BY <1>1, <1>6, <2>1 DEF IInv, StatusSound
<1>11. StartSound'
  BY <1>1, <1>3, StartMove
<1>12. PayingKept'
  BY <1>1, <1>3, PayingMove
<1>13. WakeUp'
  <2> SUFFICES ASSUME NEW a \in Addrs, faults = 0, \A v \in Verifiers : status'[a][v] = "Confirmed"
               PROVE  \/ \E k \in Senders : Started(a, k)
                      \/ \E v \in Verifiers : notif[v][a] \in {"check", "send"}
                      \/ \E q \in Requests : req'[q].addr = a /\ req'[q].pc = "send"
    BY <1>1 DEF WakeUp, AllVerifiersConfirmed, Started
  <2>1. CASE a = req[r].addr
    BY <1>2, <1>3, <1>6, <2>1 DEF SameClaims
  <2>2. CASE a # req[r].addr
    <3>1. \/ \E k \in Senders : Started(a, k)
          \/ \E v \in Verifiers : notif[v][a] \in {"check", "send"}
          \/ \E q \in Requests : req[q].addr = a /\ req[q].pc = "send"
      BY <1>6, <2>2 DEF IInv, WakeUp, AllVerifiersConfirmed
    <3>2. QED
      BY <1>3, <2>2, <3>1 DEF OthersStay
  <2>3. QED
    BY <2>1, <2>2
<1>14. QED
  BY <1>7, <1>8, <1>9, <1>10, <1>11, <1>12, <1>13 DEF IInv

\* StartFlow begins one flow and leaves the others alone.
LEMMA StartFlowFacts ==
  ASSUME TypeOK, NEW a \in Addrs, NEW k \in Senders, StartFlow(a, k)
  PROVE  /\ flow' \in [Addrs -> [Senders -> FlowType]]
         /\ flow'[a][k].pc = "read"
         /\ \A b \in Addrs, l \in Senders : <<b, l>> # <<a, k>> => flow'[b][l] = flow[b][l]
<1>1. flow \in [Addrs -> [Senders -> FlowType]]
  BY DEF TypeOK
<1>2. flow[a][k] \in FlowType
  BY <1>1
<1>3. [flow[a][k] EXCEPT !.pc = "read"] \in FlowType /\ [flow[a][k] EXCEPT !.pc = "read"].pc = "read"
  BY <1>2 DEF FlowType
<1>4. flow' = [flow EXCEPT ![a] = [flow[a] EXCEPT ![k] = [flow[a][k] EXCEPT !.pc = "read"]]]
  BY DEF StartFlow
<1>5. QED
  BY <1>1, <1>3, <1>4

\* The invariant is kept by SendExitSpark.
LEMMA SendExitSparkIInv ==
  ASSUME IInv, NEW r \in Requests, SendExitSpark(r)
  PROVE  IInv'
<1> DEFINE a == req[r].addr
<1>1. /\ TypeOK /\ req[r].pc = "send" /\ a \in Addrs /\ r \in Senders
      /\ StartFlow(a, r) /\ ReqGoto(r, "done")
      /\ UNCHANGED <<feeOn, bridge, status, paying, cache, row, outputs, callback, notif, faults>>
      /\ \A v \in Verifiers : req[r].reply[v] = "Confirmed"
  BY DEF IInv, RequestSound, SendExitSpark, tables, Senders
<1>2. req' \in [Requests -> ReqType] /\ req'[r].pc = "done" /\ SameClaims /\ OthersStay(r)
  BY <1>1, ReqGotoFacts
<1>3. /\ flow' \in [Addrs -> [Senders -> FlowType]]
      /\ flow'[a][r].pc = "read"
      /\ \A b \in Addrs, l \in Senders : <<b, l>> # <<a, r>> => flow'[b][l] = flow[b][l]
  BY <1>1, StartFlowFacts
<1>4. AllRowsConfirmed(a)
  <2>1. \A v \in Verifiers : req[r].reply[v] \in Claimed
    BY <1>1 DEF Claimed, Replies, Verdicts
  <2>2. QED
    BY <1>1, <2>1 DEF IInv, ClaimSound, AllRowsConfirmed, Verdicts
<1>5. a = req'[r].addr
  BY <1>2 DEF SameClaims
<1> HIDE DEF a
<1>6. TypeOK'
  BY <1>1, <1>2, <1>3 DEF TypeOK
<1>7. RequestSound'
  BY <1>1, <1>2, RequestMove
<1>8. ClaimSound' /\ ClaimUnique' /\ RowSound' /\ CallbackSound' /\ NotifSound' /\ NotifOnce'
  BY <1>1, <1>2, ClaimsFrame
<1>9. StatusSound'
  BY <1>1 DEF IInv, StatusSound
<1>10. StartSound'
  <2> SUFFICES ASSUME NEW b \in Addrs, NEW k \in Senders, flow'[b][k].pc # "none"
               PROVE  /\ AllRowsConfirmed(b)
                      /\ k \in Requests => /\ req'[k].pc = "done" /\ req'[k].addr = b
                                           /\ \A v \in Verifiers : req'[k].reply[v] = "Confirmed"
                      /\ k \in Verifiers => notif[k][b] # "idle"
    BY <1>1 DEF StartSound, Started, AllRowsConfirmed
  <2>1. CASE b = a /\ k = r
    <3>1. r \notin Verifiers
      BY ConstantsAssumption
    <3>2. QED
      BY <1>1, <1>2, <1>4, <1>5, <2>1, <3>1 DEF SameClaims
  <2>2. CASE ~(b = a /\ k = r)
    <3>1. flow[b][k].pc # "none"
      BY <1>3, <2>2
    <3>2. /\ AllRowsConfirmed(b)
          /\ k \in Requests => /\ req[k].pc = "done" /\ req[k].addr = b
                               /\ \A v \in Verifiers : req[k].reply[v] = "Confirmed"
          /\ k \in Verifiers => notif[k][b] # "idle"
      BY <3>1 DEF IInv, StartSound, Started
    <3>3. QED
      BY <1>1, <1>2, <3>2 DEF OthersStay
  <2>3. QED
    BY <2>1, <2>2
<1>11. PayingKept'
  <2>1. \A b \in Addrs : \A e : PayingOf(b, e) => PayingOf(b, e)'
    BY <1>1, <1>2 DEF PayingOf, SameClaims, OthersStay
  <2>2. \A b \in Addrs, k \in Senders : flow'[b][k].pc = "pay" => flow'[b][k] = flow[b][k]
    BY <1>3
  <2>3. QED
    BY <1>1, <2>1, <2>2 DEF IInv, PayingKept
<1>12. WakeUp'
  <2> SUFFICES ASSUME NEW b \in Addrs, faults = 0, AllVerifiersConfirmed(b)
               PROVE  \/ \E k \in Senders : flow'[b][k].pc # "none"
                      \/ \E v \in Verifiers : notif[v][b] \in {"check", "send"}
                      \/ \E q \in Requests : req'[q].addr = b /\ req'[q].pc = "send"
    BY <1>1 DEF WakeUp, AllVerifiersConfirmed, Started
  <2>1. CASE b = a
    BY <1>1, <1>3, <2>1
  <2>2. CASE b # a
    <3>1. \/ \E k \in Senders : flow[b][k].pc # "none"
          \/ \E v \in Verifiers : notif[v][b] \in {"check", "send"}
          \/ \E q \in Requests : req[q].addr = b /\ req[q].pc = "send"
      BY DEF IInv, WakeUp, Started
    <3>2. QED
      BY <1>2, <1>3, <1>5, <2>2, <3>1 DEF OthersStay, SameClaims
  <2>3. QED
    BY <2>1, <2>2
<1>13. QED
  BY <1>6, <1>7, <1>8, <1>9, <1>10, <1>11, <1>12 DEF IInv

\* The invariant is kept by UpdateBridgeAddress, which overwrites whatever exit
\* address an earlier request for the address stored.
LEMMA UpdateBridgeAddressIInv ==
  ASSUME IInv, NEW r \in Requests, NEW a \in Addrs, NEW e \in Exits, NEW p \in Payings,
         NEW f \in Fees \cup {None}, UpdateBridgeAddress(r, a, e, p, f)
  PROVE  IInv'
<1>1. /\ TypeOK /\ req[r].pc = "idle" /\ req \in [Requests -> ReqType] /\ req[r] \in ReqType
      /\ bridge' = [bridge EXCEPT ![a] = e]
      /\ UNCHANGED <<feeOn, status, paying, cache, row, outputs, callback, notif, flow, faults>>
      /\ \A v \in Verifiers : req[r].reply[v] = "none"
  BY DEF IInv, TypeOK, RequestSound, UpdateBridgeAddress
<1> DEFINE x == [req[r] EXCEPT !.pc = "paying", !.addr = a, !.to = e, !.paying = p, !.fee = f]
<1>2. req' = [req EXCEPT ![r] = x]
  BY <1>1 DEF UpdateBridgeAddress
<1>3. /\ x \in ReqType /\ x.pc = "paying" /\ x.addr = a /\ x.to = e /\ x.paying = p
      /\ x.reply = req[r].reply
  BY <1>1 DEF ReqType
<1> HIDE DEF x
<1>4. req' \in [Requests -> ReqType] /\ req'[r] = x /\ OthersStay(r)
  BY <1>1, <1>2, <1>3 DEF OthersStay
<1>5. /\ bridge' \in [Addrs -> Exits \cup {None}]
      /\ bridge'[a] = e /\ e # None
      /\ \A b \in Addrs : b # a => bridge'[b] = bridge[b]
  BY <1>1, ConstantsAssumption DEF TypeOK
<1>6. TypeOK'
  BY <1>1, <1>4, <1>5 DEF TypeOK
<1>7. RequestSound'
  <2> SUFFICES ASSUME NEW q \in Requests
               PROVE  /\ req'[q].pc = "idle" => \A v \in Verifiers : req'[q].reply[v] = "none"
                      /\ req'[q].pc # "idle" =>
                           /\ req'[q].addr \in Addrs /\ req'[q].to \in Exits
                           /\ req'[q].paying \in Payings /\ bridge'[req'[q].addr] # None
                      /\ req'[q].pc \in {"set_status", "send"} =>
                           \A v \in Verifiers : req'[q].reply[v] \in Final \ {"err"}
                      /\ req'[q].pc = "send" => \A v \in Verifiers : req'[q].reply[v] = "Confirmed"
    BY DEF RequestSound
  <2>1. CASE q = r
    BY <1>3, <1>4, <1>5, <2>1
  <2>2. CASE q # r
    BY <1>4, <1>5, <2>2 DEF IInv, RequestSound, OthersStay
  <2>3. QED
    BY <2>1, <2>2
<1>8. \A q \in Requests, v \in Verifiers : req'[q].reply[v] \in Claimed => q # r /\ req'[q] = req[q]
  BY <1>1, <1>3, <1>4 DEF Claimed, OthersStay
<1>9. ClaimSound' /\ ClaimUnique'
  BY <1>1, <1>8 DEF IInv, ClaimSound, ClaimUnique
<1>10. RowSound' /\ CallbackSound' /\ NotifSound' /\ NotifOnce'
  BY <1>1, <1>5 DEF IInv, RowSound, CallbackSound, NotifSound, NotifOnce, AllRowsConfirmed
<1>11. StatusSound'
  BY <1>1 DEF IInv, StatusSound
<1>12. StartSound'
  <2> SUFFICES ASSUME NEW b \in Addrs, NEW k \in Senders, flow[b][k].pc # "none"
               PROVE  /\ AllRowsConfirmed(b)
                      /\ k \in Requests => /\ req'[k].pc = "done" /\ req'[k].addr = b
                                           /\ \A v \in Verifiers : req'[k].reply[v] = "Confirmed"
                      /\ k \in Verifiers => notif[k][b] # "idle"
    BY <1>1 DEF StartSound, Started, AllRowsConfirmed
  <2>1. /\ AllRowsConfirmed(b)
        /\ k \in Requests => /\ req[k].pc = "done" /\ req[k].addr = b
                             /\ \A v \in Verifiers : req[k].reply[v] = "Confirmed"
        /\ k \in Verifiers => notif[k][b] # "idle"
    BY DEF IInv, StartSound, Started
  <2>2. QED
    BY <1>1, <1>4, <2>1 DEF OthersStay
<1>13. PayingKept'
  <2> DEFINE After(b, y) ==
               \/ \E z \in Payings : paying'[z] = y
               \/ \E q \in Requests : /\ req'[q].addr = b /\ req'[q].to = y
                                      /\ req'[q].pc \in {"paying", "failed"}
  <2>1. ASSUME NEW b \in Addrs, NEW y, PayingOf(b, y) PROVE After(b, y)
    <3>1. CASE \E z \in Payings : paying[z] = y
      BY <1>1, <3>1
    <3>2. CASE \E q \in Requests : /\ req[q].addr = b /\ req[q].to = y
                                   /\ req[q].pc \in {"paying", "failed"}
      BY <1>1, <1>4, <3>2 DEF OthersStay
    <3>3. QED
      BY <2>1, <3>1, <3>2 DEF PayingOf
  <2>2. After(a, e)
    BY <1>3, <1>4
  <2> HIDE DEF After
  <2>3. ASSUME NEW b \in Addrs, bridge'[b] # None PROVE After(b, bridge'[b])
    <3>1. CASE b = a
      BY <1>5, <2>2, <3>1
    <3>2. CASE b # a
      <4>1. bridge'[b] = bridge[b] /\ PayingOf(b, bridge[b])
        BY <1>5, <2>3, <3>2 DEF IInv, PayingKept
      <4>2. QED
        BY <2>1, <4>1
    <3>3. QED
      BY <3>1, <3>2
  <2>4. ASSUME NEW b \in Addrs, NEW k \in Senders, flow[b][k].pc = "pay"
        PROVE  flow[b][k].to # None /\ After(b, flow[b][k].to)
    BY <2>1, <2>4 DEF IInv, PayingKept
  <2>5. QED
    BY <1>1, <2>3, <2>4 DEF PayingKept, PayingOf, After
<1>14. WakeUp'
  BY <1>1, <1>4 DEF IInv, WakeUp, AllVerifiersConfirmed, Started, OthersStay
<1>15. QED
  BY <1>6, <1>7, <1>9, <1>10, <1>11, <1>12, <1>13, <1>14 DEF IInv

\* The invariant is kept by SendTokens: nothing looks at the outputs but the
\* balance check.
LEMMA SendTokensIInv ==
  ASSUME IInv, NEW a \in Addrs, NEW kind \in {"exact", "other"}, SendTokens(a, kind)
  PROVE  IInv'
<1>1. UNCHANGED <<feeOn, bridge, status, paying, cache, row, req, callback, notif, flow, faults>>
  BY DEF SendTokens, tables
<1>2. TypeOK'
  BY <1>1 DEF IInv, TypeOK, SendTokens
<1>3. RequestSound' /\ ClaimSound' /\ ClaimUnique' /\ RowSound' /\ CallbackSound'
  BY <1>1 DEF IInv, RequestSound, ClaimSound, ClaimUnique, RowSound, CallbackSound
<1>4. NotifSound' /\ NotifOnce' /\ StatusSound' /\ StartSound'
  BY <1>1 DEF IInv, NotifSound, NotifOnce, StatusSound, StartSound, Started, AllRowsConfirmed
<1>5. PayingKept' /\ WakeUp'
  BY <1>1 DEF IInv, PayingKept, PayingOf, WakeUp, Started, AllVerifiersConfirmed
<1>6. QED
  BY <1>2, <1>3, <1>4, <1>5 DEF IInv

-----------------------------------------------------------------------------
(* Steps of a verifier's handler.                                          *)

\* The answer of one verifier to one request changes.
ReplyOnly(r, v, x) ==
  /\ req'[r].reply[v] = x
  /\ \A w \in Verifiers : w # v => req'[r].reply[w] = req[r].reply[w]
  /\ req'[r].pc = req[r].pc /\ req'[r].addr = req[r].addr /\ req'[r].to = req[r].to
  /\ req'[r].paying = req[r].paying /\ req'[r].fee = req[r].fee
  /\ OthersStay(r)

LEMMA SetReplyFacts ==
  ASSUME TypeOK, NEW r \in Requests, NEW v \in Verifiers, NEW x \in Replies, SetReply(r, v, x)
  PROVE  req' \in [Requests -> ReqType] /\ ReplyOnly(r, v, x)
<1>1. req \in [Requests -> ReqType] /\ req[r] \in ReqType
  BY DEF TypeOK
<1> DEFINE y == [req[r].reply EXCEPT ![v] = x]
<1>2. /\ y \in [Verifiers -> Replies] /\ y[v] = x
      /\ \A w \in Verifiers : w # v => y[w] = req[r].reply[w]
  BY <1>1 DEF ReqType
<1>3. req' = [req EXCEPT ![r] = [req[r] EXCEPT !.reply = y]]
  BY DEF SetReply
<1> HIDE DEF y
<1>4. [req[r] EXCEPT !.reply = y] \in ReqType /\ [req[r] EXCEPT !.reply = y].reply = y
  BY <1>1, <1>2 DEF ReqType
<1>5. QED
  BY <1>1, <1>2, <1>3, <1>4 DEF ReplyOnly, OthersStay, ReqType

\* One row of one verifier changes, and it was not decided.
RowOnly(v, a) ==
  /\ row[v][a].conf \notin Verdicts
  /\ \A w \in Verifiers, b \in Addrs : <<w, b>> # <<v, a>> => row'[w][b] = row[w][b]

\* What the gateway relies on survives a step on an undecided row.
LEMMA RowFrame ==
  ASSUME IInv, NEW v \in Verifiers, NEW a \in Addrs, RowOnly(v, a),
         UNCHANGED <<feeOn, bridge, status, notif>>, bridge[a] # None,
         row'[v][a].conf # "absent",
         feeOn /\ row'[v][a].conf \in Verdicts /\ row'[v][a].fee \in BtcFees =>
           row'[v][a].feeStatus = "Confirmed",
         \/ row'[v][a].fee = row[v][a].fee
         \/ row'[v][a].fee # None => \A b \in Addrs : row[v][b].fee # row'[v][a].fee
  PROVE  /\ RowSound' /\ StatusSound' /\ NotifSound' /\ (UNCHANGED callback => NotifOnce')
         /\ \A b \in Addrs : AllRowsConfirmed(b) => AllRowsConfirmed(b)'
<1>1. \A w \in Verifiers, b \in Addrs : row[w][b].conf \in Verdicts => row'[w][b] = row[w][b]
  BY DEF RowOnly
<1>2. \A b \in Addrs : AllRowsConfirmed(b) => AllRowsConfirmed(b)'
  BY <1>1 DEF AllRowsConfirmed, Verdicts
<1>3. StatusSound'
  BY <1>1 DEF IInv, StatusSound, Verdicts
<1>4. NotifSound' /\ (UNCHANGED callback => NotifOnce')
  <2>1. \A w \in Verifiers, b \in Addrs : notif[w][b] # "idle" => row'[w][b] = row[w][b]
    BY <1>1 DEF IInv, NotifSound
  <2>2. NotifSound'
    BY <1>2, <2>1 DEF IInv, NotifSound
  <2>3. UNCHANGED callback => NotifOnce'
    BY <2>1 DEF IInv, NotifOnce
  <2>4. QED
    BY <2>2, <2>3
<1>5. RowSound'
  <2> SUFFICES ASSUME NEW w \in Verifiers, NEW b \in Addrs
               PROVE  /\ IF row'[w][b].conf = "absent" THEN row'[w][b].fee = None
                                                       ELSE bridge[b] # None
                      /\ feeOn /\ row'[w][b].conf \in Verdicts /\ row'[w][b].fee \in BtcFees =>
                           row'[w][b].feeStatus = "Confirmed"
                      /\ \A c \in Addrs : row'[w][b].fee = row'[w][c].fee /\ row'[w][b].fee # None
                                            => b = c
    BY DEF RowSound
  <2>1. \A c \in Addrs : row[w][b].fee = row[w][c].fee /\ row[w][b].fee # None => b = c
    BY DEF IInv, RowSound
  <2>2. CASE w = v /\ b = a
    <3>1. \A c \in Addrs : c # a => row'[v][c] = row[v][c]
      BY DEF RowOnly
    <3>2. QED
      BY <2>1, <2>2, <3>1
  <2>3. CASE ~(w = v /\ b = a)
    <3>1. row'[w][b] = row[w][b]
      BY <2>3 DEF RowOnly
    <3>2. /\ IF row[w][b].conf = "absent" THEN row[w][b].fee = None ELSE bridge[b] # None
          /\ feeOn /\ row[w][b].conf \in Verdicts /\ row[w][b].fee \in BtcFees =>
               row[w][b].feeStatus = "Confirmed"
      BY DEF IInv, RowSound
    <3>3. ASSUME NEW c \in Addrs, row'[w][b].fee = row'[w][c].fee, row'[w][b].fee # None
          PROVE  b = c
      <4>1. CASE w = v /\ c = a
        BY <2>1, <3>1, <3>3, <4>1
      <4>2. CASE ~(w = v /\ c = a)
        <5>1. row'[w][c] = row[w][c]
          BY <4>2 DEF RowOnly
        <5>2. QED
          BY <2>1, <3>1, <3>3, <5>1
      <4>3. QED
        BY <4>1, <4>2
    <3>4. QED
      BY <3>1, <3>2, <3>3
  <2>4. QED
    BY <2>2, <2>3
<1>6. QED
  BY <1>2, <1>3, <1>4, <1>5

\* An answer to a request that still waits moves nothing at the gateway.
LEMMA ReplyFrame ==
  ASSUME IInv, NEW r \in Requests, NEW v \in Verifiers, NEW x \in Replies, ReplyOnly(r, v, x),
         req[r].pc = "watch" \/ req[r].reply[v] \in {"inserted", "fee_checked"},
         UNCHANGED <<bridge, status, paying, notif, flow>>,
         faults' = 0 => faults = 0,
         \A b \in Addrs : AllRowsConfirmed(b) => AllRowsConfirmed(b)'
  PROVE  RequestSound' /\ StartSound' /\ PayingKept' /\ WakeUp'
<1>1. req[r].pc \notin {"idle", "set_status", "send"}
  BY DEF IInv, RequestSound, Final, Verdicts
<1>2. RequestSound'
  <2> SUFFICES ASSUME NEW q \in Requests
               PROVE  /\ req'[q].pc = "idle" => \A w \in Verifiers : req'[q].reply[w] = "none"
                      /\ req'[q].pc # "idle" =>
                           /\ req'[q].addr \in Addrs /\ req'[q].to \in Exits
                           /\ req'[q].paying \in Payings /\ bridge[req'[q].addr] # None
                      /\ req'[q].pc \in {"set_status", "send"} =>
                           \A w \in Verifiers : req'[q].reply[w] \in Final \ {"err"}
                      /\ req'[q].pc = "send" => \A w \in Verifiers : req'[q].reply[w] = "Confirmed"
    BY DEF RequestSound
  <2>1. CASE q = r
    BY <1>1, <2>1 DEF IInv, RequestSound, ReplyOnly
  <2>2. CASE q # r
    BY <2>2 DEF IInv, RequestSound, ReplyOnly, OthersStay
  <2>3. QED
    BY <2>1, <2>2
<1>3. StartSound'
  <2> SUFFICES ASSUME NEW b \in Addrs, NEW k \in Senders, flow[b][k].pc # "none"
               PROVE  /\ AllRowsConfirmed(b)'
                      /\ k \in Requests => /\ req'[k].pc = "done" /\ req'[k].addr = b
                                           /\ \A w \in Verifiers : req'[k].reply[w] = "Confirmed"
                      /\ k \in Verifiers => notif[k][b] # "idle"
    BY DEF StartSound, Started
  <2>1. /\ AllRowsConfirmed(b)
        /\ k \in Requests => /\ req[k].pc = "done" /\ req[k].addr = b
                             /\ \A w \in Verifiers : req[k].reply[w] = "Confirmed"
        /\ k \in Verifiers => notif[k][b] # "idle"
    BY DEF IInv, StartSound, Started
  <2>2. QED
    BY <2>1 DEF ReplyOnly, OthersStay
<1>4. \A q \in Requests : /\ req'[q].pc = req[q].pc /\ req'[q].addr = req[q].addr
                          /\ req'[q].to = req[q].to
  BY DEF ReplyOnly, OthersStay
<1>5. PayingKept'
  BY <1>4 DEF IInv, PayingKept, PayingOf
<1>6. WakeUp'
  BY <1>4 DEF IInv, WakeUp, Started, AllVerifiersConfirmed
<1>7. QED
  BY <1>2, <1>3, <1>5, <1>6

\* A request with an answer in hand has named its address.
LEMMA ClaimAddr ==
  ASSUME IInv, NEW r \in Requests, NEW v \in Verifiers,
         req[r].pc = "watch" \/ req[r].reply[v] \in {"inserted", "fee_checked"}
  PROVE  req[r].addr \in Addrs /\ req[r].to \in Exits /\ bridge[req[r].addr] # None
BY DEF IInv, RequestSound

\* The claims of the other requests, and at the other verifiers, stand.
LEMMA ClaimFrame ==
  ASSUME IInv, NEW r \in Requests, NEW v \in Verifiers, NEW x \in Replies, ReplyOnly(r, v, x),
         UNCHANGED feeOn, req[r].addr \in Addrs, RowOnly(v, req[r].addr) \/ UNCHANGED row,
         \A w \in Verifiers : w # v => callback'[w] = callback[w],
         \A p \in BtcFees : callback'[v][p] # "none" =>
           callback[v][p] # "none" \/ row[v][req[r].addr].fee = p,
         row[v][req[r].addr].conf = "absent" \/ req[r].reply[v] \in Claimed,
         x \in Claimed =>
           LET d == row'[v][req[r].addr] IN
             /\ d.conf # "absent" /\ d.fee = req[r].fee
             /\ x = "inserted" =>
                  d.conf = "Pending" /\ (d.fee \in BtcFees => callback'[v][d.fee] = "none")
             /\ x = "fee_checked" => d.conf = "Pending" /\ d.fee \in SparkFees
             /\ x \in Verdicts => d.conf = x /\ (feeOn => d.fee \notin BtcFees)
  PROVE  ClaimSound' /\ ClaimUnique'
<1> DEFINE a == req[r].addr
<1>1. ASSUME NEW q \in Requests, q # r, req[q].reply[v] \in Claimed, req[q].addr = a
      PROVE  FALSE
  BY <1>1 DEF IInv, ClaimUnique, ClaimSound
<1>2. \A q \in Requests : q # r => req'[q] = req[q]
  BY DEF ReplyOnly, OthersStay
<1>3. ClaimUnique'
  <2> SUFFICES ASSUME NEW q \in Requests, NEW s \in Requests, NEW w \in Verifiers,
                      req'[q].reply[w] \in Claimed, req'[s].reply[w] \in Claimed,
                      req'[q].addr = req'[s].addr
               PROVE  q = s
    BY DEF ClaimUnique
  <2>1. CASE w = v /\ (q = r \/ s = r)
    BY <1>1, <1>2, <2>1 DEF ReplyOnly
  <2>2. CASE w # v \/ (q # r /\ s # r)
    <3>1. req[q].reply[w] \in Claimed /\ req[s].reply[w] \in Claimed /\ req[q].addr = req[s].addr
      BY <1>2, <2>2 DEF ReplyOnly
    <3>2. QED
      BY <3>1 DEF IInv, ClaimUnique
  <2>3. QED
    BY <2>1, <2>2
<1>4. ClaimSound'
  <2> SUFFICES ASSUME NEW q \in Requests, NEW w \in Verifiers, req'[q].reply[w] \in Claimed
               PROVE  LET d == row'[w][req'[q].addr] IN
                        /\ d.conf # "absent" /\ d.fee = req'[q].fee
                        /\ req'[q].reply[w] = "inserted" =>
                             /\ d.conf = "Pending"
                             /\ d.fee \in BtcFees => callback'[w][d.fee] = "none"
                        /\ req'[q].reply[w] = "fee_checked" =>
                             d.conf = "Pending" /\ d.fee \in SparkFees
                        /\ req'[q].reply[w] \in Verdicts =>
                             /\ d.conf = req'[q].reply[w]
                             /\ feeOn => d.fee \notin BtcFees
    BY DEF ClaimSound
  <2>1. CASE q = r /\ w = v
    BY <2>1 DEF ReplyOnly
  <2>2. CASE ~(q = r /\ w = v)
    <3>1. /\ req'[q].reply[w] = req[q].reply[w] /\ req'[q].addr = req[q].addr
          /\ req'[q].fee = req[q].fee
      BY <1>2, <2>2 DEF ReplyOnly
    <3> DEFINE b == req[q].addr
    <3>2. LET d == row[w][b] IN
            /\ d.conf # "absent" /\ d.fee = req[q].fee
            /\ req[q].reply[w] = "inserted" =>
                 d.conf = "Pending" /\ (d.fee \in BtcFees => callback[w][d.fee] = "none")
            /\ req[q].reply[w] = "fee_checked" => d.conf = "Pending" /\ d.fee \in SparkFees
            /\ req[q].reply[w] \in Verdicts =>
                 d.conf = req[q].reply[w] /\ (feeOn => d.fee \notin BtcFees)
      BY <3>1 DEF IInv, ClaimSound
    <3>3. w = v => b # a
      BY <1>1, <2>2, <3>1
    <3>4. b \in Addrs
      BY <3>1 DEF IInv, RequestSound, Claimed
    <3>5. row'[w][b] = row[w][b]
      BY <3>3, <3>4 DEF RowOnly
    <3>6. ASSUME row[w][b].fee \in BtcFees, callback[w][row[w][b].fee] = "none"
          PROVE  callback'[w][row[w][b].fee] = "none"
      <4>1. CASE w # v
        BY <3>6, <4>1
      <4>2. CASE w = v
        <5>1. row[v][b].fee # row[v][a].fee
          <6>1. row[v][b].fee # None
            BY <3>6, <4>2, ConstantsAssumption DEF Fees
          <6>2. QED
            BY <3>3, <3>4, <4>2, <6>1 DEF IInv, RowSound
        <5>2. QED
          BY <3>6, <4>2, <5>1
      <4>3. QED
        BY <4>1, <4>2
    <3> HIDE DEF b
    <3>7. QED
      BY <3>1, <3>2, <3>5, <3>6 DEF b
  <2>3. QED
    BY <2>1, <2>2
<1>5. QED
  BY <1>3, <1>4

\* The invariant is kept by WatchErr.
LEMMA WatchErrIInv ==
  ASSUME IInv, NEW r \in Requests, NEW v \in Verifiers, WatchErr(r, v)
  PROVE  IInv'
<1>1. /\ TypeOK /\ req[r].pc = "watch" /\ SetReply(r, v, "err")
      /\ UNCHANGED <<feeOn, bridge, status, paying, cache, row, outputs, callback, notif, flow>>
      /\ faults' \in 0..MaxFaults /\ faults' # 0
  BY ConstantsAssumption DEF IInv, TypeOK, WatchErr, tables, Fault
<1>2. req' \in [Requests -> ReqType] /\ ReplyOnly(r, v, "err")
  BY <1>1, SetReplyFacts DEF Replies
<1>3. TypeOK'
  BY <1>1, <1>2 DEF TypeOK
<1>4. \A q \in Requests, w \in Verifiers : req'[q].reply[w] \in Claimed =>
        /\ req'[q].reply[w] = req[q].reply[w] /\ req'[q].addr = req[q].addr
        /\ req'[q].fee = req[q].fee
  BY <1>2 DEF ReplyOnly, OthersStay, Claimed
<1>5. ClaimSound' /\ ClaimUnique'
  BY <1>1, <1>4 DEF IInv, ClaimSound, ClaimUnique
<1>6. RowSound' /\ CallbackSound' /\ NotifSound' /\ NotifOnce' /\ StatusSound'
  BY <1>1 
       DEF IInv, RowSound, CallbackSound, NotifSound, NotifOnce, StatusSound, AllRowsConfirmed
<1>7. RequestSound' /\ StartSound' /\ PayingKept' /\ WakeUp'
  BY <1>1, <1>2, ReplyFrame DEF Replies, AllRowsConfirmed
<1>8. QED
  BY <1>3, <1>5, <1>6, <1>7 DEF IInv

\* The invariant is kept by InsertDepositAddrInfo: the unique keys keep rows,
\* fees and requests apart.
LEMMA InsertDepositAddrInfoIInv ==
  ASSUME IInv, NEW r \in Requests, NEW v \in Verifiers, InsertDepositAddrInfo(r, v)
  PROVE  IInv'
<1> DEFINE a == req[r].addr
           f == req[r].fee
           d == [conf |-> "Pending", fee |-> f,
                 feeStatus |-> IF feeOn THEN "Pending" ELSE "Confirmed",
                 token |-> req[r].token, to |-> req[r].to]
<1>1. /\ TypeOK /\ req[r].pc = "watch" /\ req[r].reply[v] = "none"
      /\ UNCHANGED <<feeOn, bridge, status, paying, cache, outputs, callback, notif, flow, faults>>
  BY DEF IInv, InsertDepositAddrInfo
<1>2. a \in Addrs /\ req[r].to \in Exits /\ bridge[a] # None
  BY <1>1, ClaimAddr
<1>3. CASE ~((feeOn => f # None) /\ RowFree(v, a, f))
  <2>1. SetReply(r, v, "err") /\ UNCHANGED row
    BY <1>3 DEF InsertDepositAddrInfo
  <2>2. req' \in [Requests -> ReqType] /\ ReplyOnly(r, v, "err")
    BY <1>1, <2>1, SetReplyFacts DEF Replies
  <2>3. TypeOK'
    BY <1>1, <2>1, <2>2 DEF TypeOK
  <2>4. \A q \in Requests, w \in Verifiers : req'[q].reply[w] \in Claimed =>
          /\ req'[q].reply[w] = req[q].reply[w] /\ req'[q].addr = req[q].addr
          /\ req'[q].fee = req[q].fee
    BY <2>2 DEF ReplyOnly, OthersStay, Claimed
  <2>5. ClaimSound' /\ ClaimUnique'
    BY <1>1, <2>1, <2>4 DEF IInv, ClaimSound, ClaimUnique
  <2>6. RowSound' /\ CallbackSound' /\ NotifSound' /\ NotifOnce' /\ StatusSound'
    BY <1>1, <2>1 
       DEF IInv, RowSound, CallbackSound, NotifSound, NotifOnce, StatusSound, AllRowsConfirmed
  <2>7. RequestSound' /\ StartSound' /\ PayingKept' /\ WakeUp'
    BY <1>1, <2>1, <2>2, ReplyFrame DEF Replies, AllRowsConfirmed
  <2>8. QED
    BY <2>3, <2>5, <2>6, <2>7 DEF IInv
<1>4. CASE (feeOn => f # None) /\ RowFree(v, a, f)
  <2>1. /\ row' = [row EXCEPT ![v][a] = d] /\ SetReply(r, v, "inserted")
        /\ row[v][a].conf = "absent"
        /\ f # None => \A b \in Addrs : row[v][b].fee # f
    BY <1>4 DEF InsertDepositAddrInfo, RowFree
  <2>2. req' \in [Requests -> ReqType] /\ ReplyOnly(r, v, "inserted")
    BY <1>1, <2>1, SetReplyFacts DEF Replies
  <2>3. req[r].fee \in Fees \cup {None} /\ req[r].token \in Tokens
    BY <1>1 DEF TypeOK, ReqType
  <2>4. d \in RowType /\ d.conf = "Pending" /\ d.fee = f
    BY <1>2, <2>3 DEF RowType, Verdicts
  <2> HIDE DEF d
  <2>5. row' \in [Verifiers -> [Addrs -> RowType]] /\ row'[v][a] = d /\ RowOnly(v, a)
    BY <1>1, <1>2, <2>1, <2>4 DEF TypeOK, RowOnly, Verdicts
  <2>6. TypeOK'
    BY <1>1, <2>2, <2>5 DEF TypeOK
  <2>7. RowSound' /\ StatusSound' /\ NotifSound' /\ NotifOnce'
        /\ \A b \in Addrs : AllRowsConfirmed(b) => AllRowsConfirmed(b)'
    BY <1>1, <1>2, <2>1, <2>4, <2>5, RowFrame DEF Verdicts
  <2>8. RequestSound' /\ StartSound' /\ PayingKept' /\ WakeUp'
    BY <1>1, <2>2, <2>7, ReplyFrame DEF Replies
  <2>9. f \in BtcFees => callback[v][f] = "none"
    BY <2>1, ConstantsAssumption DEF IInv, CallbackSound, Fees
  <2>10. ClaimSound' /\ ClaimUnique'
    BY <1>1, <1>2, <2>1, <2>2, <2>4, <2>5, <2>9, ClaimFrame DEF Replies, Verdicts
  <2>11. CallbackSound'
    <3> SUFFICES ASSUME NEW w \in Verifiers, NEW p \in BtcFees, callback[w][p] # "none"
                 PROVE  /\ feeOn
                        /\ \E b \in Addrs :
                             /\ row'[w][b].fee = p
                             /\ callback[w][p] \in {"watched", "balance"} => row'[w][b].conf = "Pending"
                             /\ callback[w][p] = "balance" => row'[w][b].feeStatus = "Confirmed"
                             /\ callback[w][p] = "notify" => row'[w][b].conf \in Verdicts
      BY <1>1 DEF CallbackSound
    <3>1. PICK b \in Addrs :
            /\ row[w][b].fee = p
            /\ callback[w][p] \in {"watched", "balance"} => row[w][b].conf = "Pending"
            /\ callback[w][p] = "balance" => row[w][b].feeStatus = "Confirmed"
            /\ callback[w][p] = "notify" => row[w][b].conf \in Verdicts
      BY DEF IInv, CallbackSound
    <3>2. row[w][b].conf # "absent"
      BY <3>1, ConstantsAssumption DEF IInv, RowSound, Fees
    <3>3. row'[w][b] = row[w][b]
      BY <2>1, <2>5, <3>2 DEF RowOnly
    <3>4. QED
      BY <3>1, <3>3 DEF IInv, CallbackSound
  <2>12. QED
    BY <2>6, <2>7, <2>8, <2>10, <2>11 DEF IInv
<1>5. QED
  BY <1>3, <1>4

\* What the handler's claim says, read off the invariant.
LEMMA ClaimFacts ==
  ASSUME IInv, NEW r \in Requests, NEW v \in Verifiers,
         req[r].reply[v] \in {"inserted", "fee_checked"}
  PROVE  /\ req[r].reply[v] \in Claimed
         /\ req[r].addr \in Addrs /\ bridge[req[r].addr] # None
         /\ row[v][req[r].addr].conf = "Pending" /\ row[v][req[r].addr].fee = req[r].fee
         /\ req[r].reply[v] = "fee_checked" => req[r].fee \in SparkFees
         /\ req[r].reply[v] = "inserted" /\ req[r].fee \in BtcFees => callback[v][req[r].fee] = "none"
<1>1. req[r].reply[v] \in Claimed
  BY DEF Claimed, Replies
<1>2. req[r].addr \in Addrs /\ bridge[req[r].addr] # None
  BY ClaimAddr
<1>3. QED
  BY <1>1, <1>2 DEF IInv, ClaimSound

\* A callback about another row is not disturbed by a step on this one.
LEMMA CallbackFrame ==
  ASSUME IInv, NEW v \in Verifiers, NEW a \in Addrs, RowOnly(v, a), UNCHANGED <<feeOn, callback>>,
         feeOn => row[v][a].fee \notin BtcFees
  PROVE  CallbackSound'
<1> SUFFICES ASSUME NEW w \in Verifiers, NEW p \in BtcFees, callback[w][p] # "none"
             PROVE  /\ feeOn
                    /\ \E b \in Addrs :
                         /\ row'[w][b].fee = p
                         /\ callback[w][p] \in {"watched", "balance"} => row'[w][b].conf = "Pending"
                         /\ callback[w][p] = "balance" => row'[w][b].feeStatus = "Confirmed"
                         /\ callback[w][p] = "notify" => row'[w][b].conf \in Verdicts
  BY DEF CallbackSound
<1>1. PICK b \in Addrs :
        /\ row[w][b].fee = p
        /\ callback[w][p] \in {"watched", "balance"} => row[w][b].conf = "Pending"
        /\ callback[w][p] = "balance" => row[w][b].feeStatus = "Confirmed"
        /\ callback[w][p] = "notify" => row[w][b].conf \in Verdicts
  BY DEF IInv, CallbackSound
<1>2. feeOn
  BY DEF IInv, CallbackSound
<1>3. row'[w][b] = row[w][b]
  BY <1>1, <1>2 DEF RowOnly
<1>4. QED
  BY <1>1, <1>2, <1>3

\* The invariant is kept by WatchBtcFee.
LEMMA WatchBtcFeeIInv ==
  ASSUME IInv, NEW r \in Requests, NEW v \in Verifiers, WatchBtcFee(r, v)
  PROVE  IInv'
<1> DEFINE a == req[r].addr
           f == req[r].fee
<1>1. /\ TypeOK /\ req[r].reply[v] = "inserted" /\ feeOn /\ f \in BtcFees
      /\ SetReply(r, v, "WaitingForConfirmation")
      /\ callback' = [callback EXCEPT ![v][f] = "watched"]
      /\ UNCHANGED <<feeOn, bridge, status, paying, cache, row, outputs, notif, flow, faults>>
  BY DEF IInv, WatchBtcFee, tables
<1>2. /\ req[r].reply[v] \in Claimed /\ a \in Addrs /\ row[v][a].conf = "Pending"
      /\ row[v][a].fee = f
  BY <1>1, ClaimFacts
<1>3. req' \in [Requests -> ReqType] /\ ReplyOnly(r, v, "WaitingForConfirmation")
  BY <1>1, SetReplyFacts DEF Replies
<1>4. /\ callback' \in [Verifiers -> [BtcFees -> {"none", "watched", "balance", "notify",
                                                   "done", "failed"}]]
      /\ callback'[v][f] = "watched"
      /\ \A w \in Verifiers, p \in BtcFees : <<w, p>> # <<v, f>> => callback'[w][p] = callback[w][p]
      /\ \A w \in Verifiers : w # v => callback'[w] = callback[w]
  BY <1>1 DEF TypeOK
<1>5. TypeOK'
  BY <1>1, <1>3, <1>4 DEF TypeOK
<1>6. ClaimSound' /\ ClaimUnique'
  <2>1. \A p \in BtcFees : callback'[v][p] # "none" =>
          callback[v][p] # "none" \/ row[v][req[r].addr].fee = p
    BY <1>2, <1>4
  <2>2. "WaitingForConfirmation" \in Replies /\ "WaitingForConfirmation" \notin Verdicts
    BY DEF Replies, Verdicts
  <2>3. QED
    BY <1>1, <1>2, <1>3, <1>4, <2>1, <2>2, ClaimFrame
<1>7. RowSound' /\ NotifSound' /\ NotifOnce' /\ StatusSound'
  <2>1. callback[v][f] = "none"
    BY <1>1, ClaimFacts
  <2>2. NotifOnce'
    <3>1. \A w \in Verifiers, b \in Addrs : notif[w][b] # "idle" =>
            row[w][b].fee \in BtcFees /\ callback[w][row[w][b].fee] = "done"
      BY DEF IInv, NotifSound, NotifOnce
    <3>2. QED
      BY <1>1, <1>4, <2>1, <3>1 DEF NotifOnce
  <2>3. QED
    BY <1>1, <2>2 DEF IInv, RowSound, NotifSound, StatusSound, AllRowsConfirmed
<1>8. CallbackSound'
  <2> SUFFICES ASSUME NEW w \in Verifiers, NEW p \in BtcFees, callback'[w][p] # "none"
               PROVE  \E b \in Addrs :
                        /\ row[w][b].fee = p
                        /\ callback'[w][p] \in {"watched", "balance"} => row[w][b].conf = "Pending"
                        /\ callback'[w][p] = "balance" => row[w][b].feeStatus = "Confirmed"
                        /\ callback'[w][p] = "notify" => row[w][b].conf \in Verdicts
    BY <1>1 DEF CallbackSound
  <2>1. CASE w = v /\ p = f
    BY <1>2, <1>4, <2>1
  <2>2. CASE ~(w = v /\ p = f)
    BY <1>4, <2>2 DEF IInv, CallbackSound
  <2>3. QED
    BY <2>1, <2>2
<1>9. RequestSound' /\ StartSound' /\ PayingKept' /\ WakeUp'
  BY <1>1, <1>3, ReplyFrame DEF Replies, AllRowsConfirmed
<1>10. QED
  BY <1>5, <1>6, <1>7, <1>8, <1>9 DEF IInv

\* The invariant is kept by VerifyTransfer.
LEMMA VerifyTransferIInv ==
  ASSUME IInv, NEW r \in Requests, NEW v \in Verifiers, NEW s \in Verdicts, VerifyTransfer(r, v, s)
  PROVE  IInv'
<1> DEFINE a == req[r].addr
           f == req[r].fee
<1>1. /\ TypeOK /\ req[r].reply[v] = "inserted" /\ f \in SparkFees
      /\ SetReply(r, v, "fee_checked") /\ row' = [row EXCEPT ![v][a].feeStatus = s]
      /\ UNCHANGED <<feeOn, bridge, status, paying, cache, outputs, callback, notif, flow, faults>>
  BY DEF IInv, VerifyTransfer
<1>2. /\ req[r].reply[v] \in Claimed /\ a \in Addrs /\ row[v][a].conf = "Pending"
      /\ row[v][a].fee = f /\ bridge[a] # None /\ f \notin BtcFees
  BY <1>1, ClaimFacts, ConstantsAssumption
<1>3. req' \in [Requests -> ReqType] /\ ReplyOnly(r, v, "fee_checked")
  BY <1>1, SetReplyFacts DEF Replies
<1> DEFINE d == [row[v][a] EXCEPT !.feeStatus = s]
<1>4. row[v][a] \in RowType
  BY <1>1, <1>2 DEF TypeOK
<1>5. d \in RowType /\ d.conf = "Pending" /\ d.fee = f
  BY <1>2, <1>4 DEF RowType
<1>6. row' = [row EXCEPT ![v] = [row[v] EXCEPT ![a] = d]]
  BY <1>1
<1> HIDE DEF d
<1>7. row' \in [Verifiers -> [Addrs -> RowType]] /\ row'[v][a] = d /\ RowOnly(v, a)
  BY <1>1, <1>2, <1>5, <1>6 DEF TypeOK, RowOnly, Verdicts
<1>8. TypeOK'
  BY <1>1, <1>3, <1>7 DEF TypeOK
<1>9. RowSound' /\ StatusSound' /\ NotifSound' /\ NotifOnce'
      /\ \A b \in Addrs : AllRowsConfirmed(b) => AllRowsConfirmed(b)'
  BY <1>1, <1>2, <1>5, <1>7, RowFrame DEF Verdicts
<1>10. ClaimSound' /\ ClaimUnique'
  BY <1>1, <1>2, <1>3, <1>5, <1>7, ClaimFrame DEF Replies, Verdicts
<1>11. CallbackSound'
  BY <1>1, <1>2, <1>7, CallbackFrame
<1>12. RequestSound' /\ StartSound' /\ PayingKept' /\ WakeUp'
  BY <1>1, <1>3, <1>9, ReplyFrame DEF Replies
<1>13. QED
  BY <1>8, <1>9, <1>10, <1>11, <1>12 DEF IInv

\* The invariant is kept by VerifyBalance.
LEMMA VerifyBalanceIInv ==
  ASSUME IInv, NEW r \in Requests, NEW v \in Verifiers, VerifyBalance(r, v)
  PROVE  IInv'
<1> DEFINE a == req[r].addr
           f == req[r].fee
           x == BalanceVerdict(v, a)
<1>1. /\ TypeOK /\ req[r].reply[v] \in {"inserted", "fee_checked"}
      /\ req[r].reply[v] = "inserted" => ~feeOn
      /\ SetReply(r, v, x) /\ row' = [row EXCEPT ![v][a].conf = x]
      /\ UNCHANGED <<feeOn, bridge, status, paying, cache, outputs, callback, notif, flow, faults>>
  BY DEF IInv, VerifyBalance
<1>2. /\ req[r].reply[v] \in Claimed /\ a \in Addrs /\ row[v][a].conf = "Pending"
      /\ row[v][a].fee = f /\ bridge[a] # None /\ (feeOn => f \notin BtcFees)
  BY <1>1, ClaimFacts, ConstantsAssumption
<1>3. x \in Verdicts /\ x \in Replies /\ x \notin {"absent", "Pending", "inserted", "fee_checked"}
  BY DEF BalanceVerdict, Verdicts, Replies
<1> HIDE DEF x
<1>4. req' \in [Requests -> ReqType] /\ ReplyOnly(r, v, x)
  BY <1>1, <1>3, SetReplyFacts
<1> DEFINE d == [row[v][a] EXCEPT !.conf = x]
<1>5. row[v][a] \in RowType
  BY <1>1, <1>2 DEF TypeOK
<1>6. d \in RowType /\ d.conf = x /\ d.fee = f
  BY <1>2, <1>3, <1>5 DEF RowType
<1>7. row' = [row EXCEPT ![v] = [row[v] EXCEPT ![a] = d]]
  BY <1>1
<1> HIDE DEF d
<1>8. row' \in [Verifiers -> [Addrs -> RowType]] /\ row'[v][a] = d /\ RowOnly(v, a)
  BY <1>1, <1>2, <1>6, <1>7 DEF TypeOK, RowOnly, Verdicts
<1>9. TypeOK'
  BY <1>1, <1>4, <1>8 DEF TypeOK
<1>10. RowSound' /\ StatusSound' /\ NotifSound' /\ NotifOnce'
      /\ \A b \in Addrs : AllRowsConfirmed(b) => AllRowsConfirmed(b)'
  BY <1>1, <1>2, <1>3, <1>6, <1>8, RowFrame
<1>11. ClaimSound' /\ ClaimUnique'
  BY <1>1, <1>2, <1>3, <1>4, <1>6, <1>8, ClaimFrame
<1>12. CallbackSound'
  BY <1>1, <1>2, <1>8, CallbackFrame
<1>13. RequestSound' /\ StartSound' /\ PayingKept' /\ WakeUp'
  BY <1>1, <1>3, <1>4, <1>10, ReplyFrame
<1>14. QED
  BY <1>9, <1>10, <1>11, <1>12, <1>13 DEF IInv

-----------------------------------------------------------------------------
(* Steps of the fee callback.                                              *)

\* A fee that has a callback has one row, and that row has no handler that
\* still looks at it.
LEMMA CallbackFacts ==
  ASSUME IInv, NEW v \in Verifiers, NEW p \in BtcFees, callback[v][p] # "none"
  PROVE  LET a == AddrOfFee(v, p) IN
           /\ feeOn /\ a \in Addrs /\ row[v][a].fee = p
           /\ callback[v][p] \in {"watched", "balance"} => row[v][a].conf = "Pending"
           /\ callback[v][p] = "balance" => row[v][a].feeStatus = "Confirmed"
           /\ callback[v][p] = "notify" => row[v][a].conf \in Verdicts
           /\ bridge[a] # None
           /\ \A r \in Requests : req[r].addr = a =>
                req[r].reply[v] \in {"none", "err", "WaitingForConfirmation"}
<1>1. PICK b \in Addrs :
        /\ row[v][b].fee = p
        /\ callback[v][p] \in {"watched", "balance"} => row[v][b].conf = "Pending"
        /\ callback[v][p] = "balance" => row[v][b].feeStatus = "Confirmed"
        /\ callback[v][p] = "notify" => row[v][b].conf \in Verdicts
  BY DEF IInv, CallbackSound
<1>2. feeOn /\ p # None /\ p \notin SparkFees
  BY ConstantsAssumption DEF IInv, CallbackSound, Fees
<1>3. AddrOfFee(v, p) = b
  <2>1. \A c \in Addrs : row[v][c].fee = p => c = b
    BY <1>1, <1>2 DEF IInv, RowSound
  <2>2. QED
    BY <1>1, <2>1 DEF AddrOfFee
<1>4. bridge[b] # None
  BY <1>1, <1>2 DEF IInv, RowSound
<1>5. ASSUME NEW r \in Requests, req[r].addr = b
      PROVE  req[r].reply[v] \in {"none", "err", "WaitingForConfirmation"}
  <2>1. req[r].reply[v] \in Replies
    BY DEF IInv, TypeOK, ReqType
  <2>2. CASE req[r].reply[v] \in Claimed
    BY <1>1, <1>2, <1>5, <2>1, <2>2 DEF IInv, ClaimSound, Replies
  <2>3. QED
    BY <2>1, <2>2 DEF Claimed
<1>6. QED
  BY <1>1, <1>2, <1>3, <1>4, <1>5

\* What SetCallback changes.
LEMMA SetCallbackFacts ==
  ASSUME TypeOK, NEW v \in Verifiers, NEW p \in BtcFees,
         NEW x \in {"none", "watched", "balance", "notify", "done", "failed"}, SetCallback(v, p, x)
  PROVE  /\ callback' \in [Verifiers -> [BtcFees -> {"none", "watched", "balance", "notify",
                                                     "done", "failed"}]]
         /\ callback'[v][p] = x
         /\ \A w \in Verifiers, q \in BtcFees : <<w, q>> # <<v, p>> => callback'[w][q] = callback[w][q]
BY DEF TypeOK, SetCallback

\* A callback that moves on with its own row keeps the invariant.
LEMMA CallbackMove ==
  ASSUME IInv, TypeOK', NEW v \in Verifiers, NEW p \in BtcFees,
         callback[v][p] \in {"watched", "balance", "notify"}, callback'[v][p] # "none",
         \A w \in Verifiers, q \in BtcFees : <<w, q>> # <<v, p>> => callback'[w][q] = callback[w][q],
         NEW a \in Addrs, a = AddrOfFee(v, p),
         RowOnly(v, a) \/ UNCHANGED row,
         row'[v][a].fee = p, row'[v][a].conf # "absent",
         row'[v][a].conf \in Verdicts => row'[v][a].feeStatus = "Confirmed",
         callback'[v][p] \in {"watched", "balance"} => row'[v][a].conf = "Pending",
         callback'[v][p] = "balance" => row'[v][a].feeStatus = "Confirmed",
         callback'[v][p] = "notify" => row'[v][a].conf \in Verdicts,
         faults' = 0 => faults = 0,
         UNCHANGED <<feeOn, bridge, status, paying, req, notif, flow>>
  PROVE  IInv'
<1>1. /\ feeOn /\ row[v][a].fee = p /\ bridge[a] # None
      /\ \A r \in Requests : req[r].addr = a =>
           req[r].reply[v] \in {"none", "err", "WaitingForConfirmation"}
  BY CallbackFacts
<1>2. \A w \in Verifiers, b \in Addrs : <<w, b>> # <<v, a>> => row'[w][b] = row[w][b]
  BY DEF RowOnly
<1>3. /\ RowSound' /\ StatusSound' /\ NotifSound'
      /\ \A b \in Addrs : AllRowsConfirmed(b) => AllRowsConfirmed(b)'
  <2>1. CASE RowOnly(v, a)
    BY <1>1, <2>1, RowFrame
  <2>2. CASE UNCHANGED row
    BY <2>2 DEF IInv, RowSound, StatusSound, NotifSound, AllRowsConfirmed
  <2>3. QED
    BY <2>1, <2>2
<1>n. NotifOnce'
  <2>1. \A w \in Verifiers, b \in Addrs : notif[w][b] # "idle" =>
          /\ row[w][b].fee \in BtcFees /\ callback[w][row[w][b].fee] = "done"
          /\ row[w][b].conf \in Verdicts
    BY DEF IInv, NotifSound, NotifOnce
  <2>2. \A w \in Verifiers, b \in Addrs : notif[w][b] # "idle" => row'[w][b] = row[w][b]
    BY <2>1 DEF RowOnly
  <2>3. QED
    BY <2>1, <2>2 DEF NotifOnce
<1>4. ClaimSound'
  <2> SUFFICES ASSUME NEW r \in Requests, NEW w \in Verifiers, req[r].reply[w] \in Claimed
               PROVE  LET d == row'[w][req[r].addr] IN
                        /\ d.conf # "absent" /\ d.fee = req[r].fee
                        /\ req[r].reply[w] = "inserted" =>
                             /\ d.conf = "Pending"
                             /\ d.fee \in BtcFees => callback'[w][d.fee] = "none"
                        /\ req[r].reply[w] = "fee_checked" =>
                             d.conf = "Pending" /\ d.fee \in SparkFees
                        /\ req[r].reply[w] \in Verdicts =>
                             d.conf = req[r].reply[w] /\ (feeOn => d.fee \notin BtcFees)
    BY DEF ClaimSound
  <2>1. req[r].addr \in Addrs
    BY DEF IInv, RequestSound, Claimed
  <2>2. LET d == row[w][req[r].addr] IN
          /\ d.conf # "absent" /\ d.fee = req[r].fee
          /\ req[r].reply[w] = "inserted" =>
               d.conf = "Pending" /\ (d.fee \in BtcFees => callback[w][d.fee] = "none")
          /\ req[r].reply[w] = "fee_checked" => d.conf = "Pending" /\ d.fee \in SparkFees
          /\ req[r].reply[w] \in Verdicts =>
               d.conf = req[r].reply[w] /\ (feeOn => d.fee \notin BtcFees)
    BY DEF IInv, ClaimSound
  <2>3. CASE w = v /\ req[r].addr = a
    <3>1. req[r].reply[v] = "WaitingForConfirmation"
      BY <1>1, <2>3 DEF Claimed
    <3>2. QED
      BY <1>1, <2>2, <2>3, <3>1 DEF Verdicts
  <2>4. CASE ~(w = v /\ req[r].addr = a)
    <3>1. row'[w][req[r].addr] = row[w][req[r].addr]
      BY <1>2, <2>1, <2>4
    <3>2. ASSUME row[w][req[r].addr].fee \in BtcFees, callback[w][row[w][req[r].addr].fee] = "none"
          PROVE  callback'[w][row[w][req[r].addr].fee] = "none"
      BY <3>2
    <3>3. QED
      BY <2>2, <3>1, <3>2
  <2>5. QED
    BY <2>3, <2>4
<1>5. CallbackSound'
  <2> SUFFICES ASSUME NEW w \in Verifiers, NEW q \in BtcFees, callback'[w][q] # "none"
               PROVE  \E b \in Addrs :
                        /\ row'[w][b].fee = q
                        /\ callback'[w][q] \in {"watched", "balance"} => row'[w][b].conf = "Pending"
                        /\ callback'[w][q] = "balance" => row'[w][b].feeStatus = "Confirmed"
                        /\ callback'[w][q] = "notify" => row'[w][b].conf \in Verdicts
    BY <1>1 DEF CallbackSound
  <2>1. CASE w = v /\ q = p
    BY <2>1
  <2>2. CASE ~(w = v /\ q = p)
    <3>1. callback'[w][q] = callback[w][q]
      BY <2>2
    <3>2. PICK b \in Addrs :
            /\ row[w][b].fee = q
            /\ callback[w][q] \in {"watched", "balance"} => row[w][b].conf = "Pending"
            /\ callback[w][q] = "balance" => row[w][b].feeStatus = "Confirmed"
            /\ callback[w][q] = "notify" => row[w][b].conf \in Verdicts
      BY <3>1 DEF IInv, CallbackSound
    <3>3. row'[w][b] = row[w][b]
      BY <1>1, <1>2, <2>2, <3>2
    <3>4. QED
      BY <3>1, <3>2, <3>3
  <2>3. QED
    BY <2>1, <2>2
<1>6. RequestSound' /\ ClaimUnique' /\ PayingKept'
  BY DEF IInv, RequestSound, ClaimUnique, PayingKept, PayingOf
<1>7. StartSound'
  BY <1>3 DEF IInv, StartSound, Started
<1>8. WakeUp'
  BY DEF IInv, WakeUp, Started, AllVerifiersConfirmed
<1>9. QED
  BY <1>3, <1>n, <1>4, <1>5, <1>6, <1>7, <1>8 DEF IInv

\* The row of a deposit that is not decided is written.
LEMMA RowWrite ==
  ASSUME TypeOK, NEW v \in Verifiers, NEW a \in Addrs, row[v][a].conf = "Pending",
         NEW d \in RowType, row' = [row EXCEPT ![v] = [row[v] EXCEPT ![a] = d]]
  PROVE  row' \in [Verifiers -> [Addrs -> RowType]] /\ RowOnly(v, a) /\ row'[v][a] = d
BY DEF TypeOK, RowOnly, Verdicts

\* The invariant is kept by FeeNotification.
LEMMA FeeNotificationIInv ==
  ASSUME IInv, NEW v \in Verifiers, NEW p \in BtcFees, NEW s \in Verdicts, FeeNotification(v, p, s)
  PROVE  IInv'
<1> DEFINE a == AddrOfFee(v, p)
           d == [row[v][a] EXCEPT !.feeStatus = s]
<1>1. /\ TypeOK /\ callback[v][p] = "watched"
      /\ row' = [row EXCEPT ![v][a].feeStatus = s]
      /\ UNCHANGED <<feeOn, bridge, status, paying, cache, outputs, req, notif, flow, faults>>
  BY DEF IInv, FeeNotification
<1>2. PICK x \in {"balance", "failed"} :
        SetCallback(v, p, x) /\ (x = "balance" => s = "Confirmed")
  BY DEF FeeNotification
<1>3. a \in Addrs /\ row[v][a].fee = p /\ row[v][a].conf = "Pending"
  BY <1>1, CallbackFacts
<1>4. /\ callback' \in [Verifiers -> [BtcFees -> {"none", "watched", "balance", "notify",
                                                   "done", "failed"}]]
      /\ callback'[v][p] = x
      /\ \A w \in Verifiers, q \in BtcFees : <<w, q>> # <<v, p>> => callback'[w][q] = callback[w][q]
  BY <1>1, <1>2, SetCallbackFacts
<1>5. row' = [row EXCEPT ![v] = [row[v] EXCEPT ![a] = d]]
  BY <1>1
<1>6. /\ row' \in [Verifiers -> [Addrs -> RowType]] /\ RowOnly(v, a)
      /\ row'[v][a].fee = p /\ row'[v][a].feeStatus = s /\ row'[v][a].conf = "Pending"
  <2>1. TypeOK /\ row[v][a] \in RowType
    BY <1>1, <1>3 DEF TypeOK
  <2>2. d \in RowType /\ d.fee = p /\ d.feeStatus = s /\ d.conf = "Pending"
    BY <1>3, <2>1 DEF RowType
  <2> HIDE DEF a, d
  <2>3. row' \in [Verifiers -> [Addrs -> RowType]] /\ RowOnly(v, a) /\ row'[v][a] = d
    BY <1>3, <1>5, <2>1, <2>2, RowWrite
  <2>4. QED
    BY <2>2, <2>3
<1>7. TypeOK'
  BY <1>1, <1>4, <1>6 DEF TypeOK
<1> HIDE DEF a
<1>8. a = AddrOfFee(v, p)
  BY DEF a
<1>9. QED
  BY <1>1, <1>2, <1>3, <1>4, <1>6, <1>7, <1>8, CallbackMove DEF Verdicts

\* The invariant is kept by CallbackVerifyBalance.
LEMMA CallbackVerifyBalanceIInv ==
  ASSUME IInv, NEW v \in Verifiers, NEW p \in BtcFees, CallbackVerifyBalance(v, p)
  PROVE  IInv'
<1> DEFINE a == AddrOfFee(v, p)
           s == BalanceVerdict(v, a)
           d == [row[v][a] EXCEPT !.conf = s]
<1>1. /\ TypeOK /\ callback[v][p] = "balance"
      /\ row' = [row EXCEPT ![v][a].conf = s] /\ SetCallback(v, p, "notify")
      /\ UNCHANGED <<feeOn, bridge, status, paying, cache, outputs, req, notif, flow, faults>>
  BY DEF IInv, CallbackVerifyBalance
<1>2. s \in Verdicts
  BY DEF BalanceVerdict, Verdicts
<1>3. /\ a \in Addrs /\ row[v][a].fee = p /\ row[v][a].conf = "Pending"
      /\ row[v][a].feeStatus = "Confirmed"
  BY <1>1, CallbackFacts
<1>4. /\ callback' \in [Verifiers -> [BtcFees -> {"none", "watched", "balance", "notify",
                                                   "done", "failed"}]]
      /\ callback'[v][p] = "notify"
      /\ \A w \in Verifiers, q \in BtcFees : <<w, q>> # <<v, p>> => callback'[w][q] = callback[w][q]
  BY <1>1, SetCallbackFacts
<1>5. row' = [row EXCEPT ![v] = [row[v] EXCEPT ![a] = d]]
  BY <1>1
<1> HIDE DEF s
<1>6. /\ row' \in [Verifiers -> [Addrs -> RowType]] /\ RowOnly(v, a)
      /\ row'[v][a].fee = p /\ row'[v][a].feeStatus = "Confirmed" /\ row'[v][a].conf = s
  <2>1. TypeOK /\ row[v][a] \in RowType
    BY <1>1, <1>3 DEF TypeOK
  <2>2. d \in RowType /\ d.fee = p /\ d.feeStatus = "Confirmed" /\ d.conf = s
    BY <1>2, <1>3, <2>1 DEF RowType
  <2> HIDE DEF a, d
  <2>3. row' \in [Verifiers -> [Addrs -> RowType]] /\ RowOnly(v, a) /\ row'[v][a] = d
    BY <1>3, <1>5, <2>1, <2>2, RowWrite
  <2>4. QED
    BY <2>2, <2>3
<1>7. TypeOK'
  BY <1>1, <1>4, <1>6 DEF TypeOK
<1> HIDE DEF a
<1>8. a = AddrOfFee(v, p)
  BY DEF a
<1>9. QED
  BY <1>1, <1>2, <1>3, <1>4, <1>6, <1>7, <1>8, CallbackMove DEF Verdicts

\* The invariant is kept by CallbackErr.
LEMMA CallbackErrIInv ==
  ASSUME IInv, NEW v \in Verifiers, NEW p \in BtcFees, CallbackErr(v, p)
  PROVE  IInv'
<1> DEFINE a == AddrOfFee(v, p)
<1>1. /\ TypeOK /\ callback[v][p] \in {"watched", "balance", "notify"}
      /\ SetCallback(v, p, "failed") /\ faults' \in 0..MaxFaults /\ faults' # 0
      /\ UNCHANGED <<feeOn, bridge, status, paying, cache, row, outputs, req, notif, flow>>
  BY ConstantsAssumption DEF IInv, TypeOK, CallbackErr, tables, Fault
<1>2. a \in Addrs /\ row[v][a].fee = p /\ feeOn
  BY <1>1, CallbackFacts
<1>3. /\ callback' \in [Verifiers -> [BtcFees -> {"none", "watched", "balance", "notify",
                                                   "done", "failed"}]]
      /\ callback'[v][p] = "failed"
      /\ \A w \in Verifiers, q \in BtcFees : <<w, q>> # <<v, p>> => callback'[w][q] = callback[w][q]
  BY <1>1, SetCallbackFacts
<1>4. TypeOK'
  BY <1>1, <1>3 DEF TypeOK
<1> HIDE DEF a
<1>5. a = AddrOfFee(v, p)
  BY DEF a
<1>6. row[v][a].conf # "absent" /\ (row[v][a].conf \in Verdicts => row[v][a].feeStatus = "Confirmed")
  BY <1>2, ConstantsAssumption DEF IInv, RowSound, Fees
<1>7. QED
  BY <1>1, <1>2, <1>3, <1>4, <1>5, <1>6, CallbackMove

-----------------------------------------------------------------------------
(* Steps of the notification task and of the exit flow.                    *)

\* What SetNotif changes.
LEMMA SetNotifFacts ==
  ASSUME TypeOK, NEW v \in Verifiers, NEW a \in Addrs,
         NEW x \in {"idle", "status", "check", "send", "done", "failed"},
         notif' = [notif EXCEPT ![v][a] = x]
  PROVE  /\ notif' \in [Verifiers -> [Addrs -> {"idle", "status", "check", "send", "done", "failed"}]]
         /\ notif'[v][a] = x
         /\ \A w \in Verifiers, b \in Addrs : <<w, b>> # <<v, a>> => notif'[w][b] = notif[w][b]
BY DEF TypeOK

\* What no step of a notification or a flow touches.
LEMMA NotifFrame ==
  ASSUME IInv, UNCHANGED <<feeOn, bridge, row, req>>
  PROVE  /\ RequestSound' /\ ClaimUnique' /\ RowSound'
         /\ UNCHANGED callback => ClaimSound' /\ CallbackSound'
         /\ UNCHANGED <<paying, flow>> => PayingKept'
         /\ \A a \in Addrs : AllRowsConfirmed(a)' <=> AllRowsConfirmed(a)
<1>1. RequestSound' /\ ClaimUnique' /\ RowSound'
  BY DEF IInv, RequestSound, ClaimUnique, RowSound
<1>2. UNCHANGED callback => ClaimSound' /\ CallbackSound'
  BY DEF IInv, ClaimSound, CallbackSound
<1>3. UNCHANGED <<paying, flow>> => PayingKept'
  BY DEF IInv, PayingKept, PayingOf
<1>4. \A a \in Addrs : AllRowsConfirmed(a)' <=> AllRowsConfirmed(a)
  BY DEF AllRowsConfirmed
<1>5. QED
  BY <1>1, <1>2, <1>3, <1>4

\* The invariant is kept by CallbackNotifyGateway.
LEMMA CallbackNotifyGatewayIInv ==
  ASSUME IInv, NEW v \in Verifiers, NEW p \in BtcFees, CallbackNotifyGateway(v, p)
  PROVE  IInv'
<1> DEFINE a == AddrOfFee(v, p)
<1>1. /\ TypeOK /\ callback[v][p] = "notify" /\ SetCallback(v, p, "done")
      /\ notif' = [notif EXCEPT ![v][a] = "status"]
      /\ UNCHANGED <<feeOn, bridge, status, paying, cache, row, outputs, req, flow, faults>>
  BY DEF IInv, CallbackNotifyGateway, tables
<1>2. feeOn /\ a \in Addrs /\ row[v][a].fee = p /\ row[v][a].conf \in Verdicts
  BY <1>1, CallbackFacts
<1>3. /\ callback' \in [Verifiers -> [BtcFees -> {"none", "watched", "balance", "notify",
                                                   "done", "failed"}]]
      /\ callback'[v][p] = "done"
      /\ \A w \in Verifiers, q \in BtcFees : <<w, q>> # <<v, p>> => callback'[w][q] = callback[w][q]
  BY <1>1, SetCallbackFacts
<1> HIDE DEF a
<1>4. /\ notif' \in [Verifiers -> [Addrs -> {"idle", "status", "check", "send", "done", "failed"}]]
      /\ notif'[v][a] = "status"
      /\ \A w \in Verifiers, b \in Addrs : <<w, b>> # <<v, a>> => notif'[w][b] = notif[w][b]
  BY <1>1, <1>2, SetNotifFacts
<1>5. TypeOK'
  BY <1>1, <1>3, <1>4 DEF TypeOK
<1>6. RequestSound' /\ ClaimUnique' /\ RowSound' /\ PayingKept'
  BY <1>1, NotifFrame
<1>7. \A w \in Verifiers, q \in BtcFees : callback[w][q] = "none" <=> callback'[w][q] = "none"
  BY <1>1, <1>3
<1>8. ClaimSound'
  BY <1>1, <1>7 DEF IInv, ClaimSound
<1>9. CallbackSound'
  <2>1. \A w \in Verifiers, q \in BtcFees : callback'[w][q] \in {"watched", "balance", "notify"} =>
          callback'[w][q] = callback[w][q]
    BY <1>3
  <2>2. QED
    BY <1>1, <1>7, <2>1 DEF IInv, CallbackSound
<1>10. NotifSound'
  BY <1>1, <1>2, <1>4 DEF IInv, NotifSound, AllRowsConfirmed
<1>n. NotifOnce'
  <2>1. \A w \in Verifiers, b \in Addrs : notif[w][b] # "idle" =>
          row[w][b].fee \in BtcFees /\ callback[w][row[w][b].fee] = "done"
    BY DEF IInv, NotifSound, NotifOnce
  <2>2. \A w \in Verifiers, q \in BtcFees : callback[w][q] = "done" => callback'[w][q] = "done"
    BY <1>1, <1>3
  <2>3. QED
    BY <1>1, <1>2, <1>3, <1>4, <2>1, <2>2 DEF NotifOnce
<1>11. StatusSound'
  BY <1>1 DEF IInv, StatusSound
<1>12. StartSound'
  <2>1. \A w \in Verifiers, b \in Addrs : notif[w][b] # "idle" => notif'[w][b] # "idle"
    BY <1>4
  <2>2. QED
    BY <1>1, <2>1 DEF IInv, StartSound, Started, AllRowsConfirmed
<1>13. WakeUp'
  <2> SUFFICES ASSUME NEW b \in Addrs, faults = 0, AllVerifiersConfirmed(b)
               PROVE  \/ \E k \in Senders : Started(b, k)
                      \/ \E w \in Verifiers : notif'[w][b] \in {"check", "send"}
                      \/ \E q \in Requests : req[q].addr = b /\ req[q].pc = "send"
    BY <1>1 DEF WakeUp, AllVerifiersConfirmed, Started
  <2>1. notif[v][a] = "idle"
    BY <1>1, <1>2 DEF IInv, NotifOnce
  <2>2. \A w \in Verifiers : notif[w][b] \in {"check", "send"} => notif'[w][b] = notif[w][b]
    BY <1>4, <2>1
  <2>3. QED
    BY <2>2 DEF IInv, WakeUp
<1>14. QED
  BY <1>5, <1>6, <1>8, <1>9, <1>10, <1>n, <1>11, <1>12, <1>13 DEF IInv

\* The invariant is kept by UpdateConfirmationStatus.
LEMMA UpdateConfirmationStatusIInv ==
  ASSUME IInv, NEW v \in Verifiers, NEW a \in Addrs, UpdateConfirmationStatus(v, a)
  PROVE  IInv'
<1>1. /\ TypeOK /\ notif[v][a] = "status" /\ notif' = [notif EXCEPT ![v][a] = "check"]
      /\ status' = [status EXCEPT ![a][v] = row[v][a].conf]
      /\ UNCHANGED <<feeOn, bridge, paying, cache, row, outputs, req, callback, flow, faults>>
  BY DEF IInv, UpdateConfirmationStatus, SetNotif
<1>2. row[v][a].conf \in Verdicts /\ row[v][a].fee \in BtcFees /\ feeOn
  BY <1>1 DEF IInv, NotifSound
<1>3. /\ notif' \in [Verifiers -> [Addrs -> {"idle", "status", "check", "send", "done", "failed"}]]
      /\ notif'[v][a] = "check"
      /\ \A w \in Verifiers, b \in Addrs : <<w, b>> # <<v, a>> => notif'[w][b] = notif[w][b]
  BY <1>1, SetNotifFacts
<1>4. /\ status' \in [Addrs -> [Verifiers -> DepositStatus]]
      /\ status'[a][v] = row[v][a].conf
      /\ \A w \in Verifiers, b \in Addrs : <<w, b>> # <<v, a>> => status'[b][w] = status[b][w]
  BY <1>1, <1>2 DEF TypeOK, DepositStatus
<1>5. TypeOK'
  BY <1>1, <1>3, <1>4 DEF TypeOK
<1>6. RequestSound' /\ ClaimUnique' /\ RowSound' /\ PayingKept' /\ ClaimSound' /\ CallbackSound'
  BY <1>1, NotifFrame
<1>7. NotifSound' /\ NotifOnce'
  BY <1>1, <1>2, <1>3 DEF IInv, NotifSound, NotifOnce, AllRowsConfirmed
<1>8. StatusSound'
  BY <1>1, <1>4 DEF IInv, StatusSound
<1>9. StartSound'
  <2>1. \A w \in Verifiers, b \in Addrs : notif[w][b] # "idle" => notif'[w][b] # "idle"
    BY <1>3
  <2>2. QED
    BY <1>1, <2>1 DEF IInv, StartSound, Started, AllRowsConfirmed
<1>10. WakeUp'
  <2> SUFFICES ASSUME NEW b \in Addrs, faults = 0, \A w \in Verifiers : status'[b][w] = "Confirmed"
               PROVE  \/ \E k \in Senders : Started(b, k)
                      \/ \E w \in Verifiers : notif'[w][b] \in {"check", "send"}
                      \/ \E q \in Requests : req[q].addr = b /\ req[q].pc = "send"
    BY <1>1 DEF WakeUp, AllVerifiersConfirmed, Started
  <2>1. CASE b = a
    BY <1>3, <2>1
  <2>2. CASE b # a
    BY <1>3, <1>4, <2>2 DEF IInv, WakeUp, AllVerifiersConfirmed
  <2>3. QED
    BY <2>1, <2>2
<1>11. QED
  BY <1>5, <1>6, <1>7, <1>8, <1>9, <1>10 DEF IInv

\* The invariant is kept by CheckAllVerifiersConfirmed and NotifyErr: the task
\* gives up only when the column is not confirmed, or after a fault.
LEMMA NotifMoveIInv ==
  ASSUME IInv, NEW v \in Verifiers, NEW a \in Addrs,
         CheckAllVerifiersConfirmed(v, a) \/ NotifyErr(v, a)
  PROVE  IInv'
<1>1. PICK x \in {"send", "done", "failed"} :
        /\ notif' = [notif EXCEPT ![v][a] = x]
        /\ x = "send" => AllVerifiersConfirmed(a)
        /\ x # "send" => ~AllVerifiersConfirmed(a) \/ faults' # 0
  <2>1. CASE CheckAllVerifiersConfirmed(v, a)
    BY <2>1 DEF CheckAllVerifiersConfirmed, SetNotif
  <2>2. CASE NotifyErr(v, a)
    BY <2>2, ConstantsAssumption DEF NotifyErr, SetNotif, Fault, IInv, TypeOK
  <2>3. QED
    BY <2>1, <2>2
<1>2. /\ TypeOK /\ notif[v][a] \in {"status", "check", "send"}
      /\ UNCHANGED <<feeOn, bridge, status, paying, cache, row, outputs, req, callback, flow>>
      /\ faults' \in 0..MaxFaults /\ (faults' = 0 => faults = 0)
  BY ConstantsAssumption
     DEF IInv, TypeOK, CheckAllVerifiersConfirmed, NotifyErr, tables, Fault
<1>3. /\ notif' \in [Verifiers -> [Addrs -> {"idle", "status", "check", "send", "done", "failed"}]]
      /\ notif'[v][a] = x
      /\ \A w \in Verifiers, b \in Addrs : <<w, b>> # <<v, a>> => notif'[w][b] = notif[w][b]
  BY <1>1, <1>2, SetNotifFacts
<1>4. TypeOK'
  BY <1>2, <1>3 DEF TypeOK
<1>5. RequestSound' /\ ClaimUnique' /\ RowSound' /\ PayingKept' /\ ClaimSound' /\ CallbackSound'
  BY <1>2, NotifFrame
<1>6. NotifSound' /\ NotifOnce'
  <2>1. AllVerifiersConfirmed(a) => AllRowsConfirmed(a)
    BY DEF IInv, StatusSound, AllVerifiersConfirmed, AllRowsConfirmed
  <2>2. QED
    BY <1>1, <1>2, <1>3, <2>1 DEF IInv, NotifSound, NotifOnce, AllRowsConfirmed
<1>7. StatusSound'
  BY <1>2 DEF IInv, StatusSound
<1>8. StartSound'
  <2>1. \A w \in Verifiers, b \in Addrs : notif[w][b] # "idle" => notif'[w][b] # "idle"
    BY <1>3
  <2>2. QED
    BY <1>2, <2>1 DEF IInv, StartSound, Started, AllRowsConfirmed
<1>9. WakeUp'
  <2> SUFFICES ASSUME NEW b \in Addrs, faults' = 0, AllVerifiersConfirmed(b)
               PROVE  \/ \E k \in Senders : Started(b, k)
                      \/ \E w \in Verifiers : notif'[w][b] \in {"check", "send"}
                      \/ \E q \in Requests : req[q].addr = b /\ req[q].pc = "send"
    BY <1>2 DEF WakeUp, AllVerifiersConfirmed, Started
  <2>1. CASE b = a
    BY <1>1, <1>3, <2>1
  <2>2. CASE b # a
    BY <1>2, <1>3, <2>2 DEF IInv, WakeUp
  <2>3. QED
    BY <2>1, <2>2
<1>10. QED
  BY <1>4, <1>5, <1>6, <1>7, <1>8, <1>9 DEF IInv

\* The invariant is kept by NotifySendExitSpark.
LEMMA NotifySendExitSparkIInv ==
  ASSUME IInv, NEW v \in Verifiers, NEW a \in Addrs, NotifySendExitSpark(v, a)
  PROVE  IInv'
<1>1. /\ TypeOK /\ notif[v][a] = "send" /\ v \in Senders /\ v \notin Requests
      /\ StartFlow(a, v) /\ notif' = [notif EXCEPT ![v][a] = "done"]
      /\ UNCHANGED <<feeOn, bridge, status, paying, cache, row, outputs, req, callback, faults>>
  BY ConstantsAssumption DEF IInv, NotifySendExitSpark, SetNotif, tables, Senders
<1>2. /\ flow' \in [Addrs -> [Senders -> FlowType]]
      /\ flow'[a][v].pc = "read"
      /\ \A b \in Addrs, l \in Senders : <<b, l>> # <<a, v>> => flow'[b][l] = flow[b][l]
  BY <1>1, StartFlowFacts
<1>3. /\ notif' \in [Verifiers -> [Addrs -> {"idle", "status", "check", "send", "done", "failed"}]]
      /\ notif'[v][a] = "done"
      /\ \A w \in Verifiers, b \in Addrs : <<w, b>> # <<v, a>> => notif'[w][b] = notif[w][b]
  BY <1>1, SetNotifFacts
<1>4. TypeOK'
  BY <1>1, <1>2, <1>3 DEF TypeOK
<1>5. RequestSound' /\ ClaimUnique' /\ RowSound' /\ ClaimSound' /\ CallbackSound'
  BY <1>1, NotifFrame
<1>6. NotifSound' /\ NotifOnce'
  BY <1>1, <1>3 DEF IInv, NotifSound, NotifOnce, AllRowsConfirmed
<1>7. StatusSound'
  BY <1>1 DEF IInv, StatusSound
<1>8. StartSound'
  <2> SUFFICES ASSUME NEW b \in Addrs, NEW k \in Senders, flow'[b][k].pc # "none"
               PROVE  /\ AllRowsConfirmed(b)
                      /\ k \in Requests => /\ req[k].pc = "done" /\ req[k].addr = b
                                           /\ \A w \in Verifiers : req[k].reply[w] = "Confirmed"
                      /\ k \in Verifiers => notif'[k][b] # "idle"
    BY <1>1 DEF StartSound, Started, AllRowsConfirmed
  <2>1. CASE b = a /\ k = v
    BY <1>1, <1>3, <2>1 DEF IInv, NotifSound
  <2>2. CASE ~(b = a /\ k = v)
    <3>1. flow[b][k].pc # "none"
      BY <1>2, <2>2
    <3>2. /\ AllRowsConfirmed(b)
          /\ k \in Requests => /\ req[k].pc = "done" /\ req[k].addr = b
                               /\ \A w \in Verifiers : req[k].reply[w] = "Confirmed"
          /\ k \in Verifiers => notif[k][b] # "idle"
      BY <3>1 DEF IInv, StartSound, Started
    <3>3. QED
      BY <1>3, <2>2, <3>2
  <2>3. QED
    BY <2>1, <2>2
<1>9. PayingKept'
  <2>1. \A b \in Addrs, k \in Senders : flow'[b][k].pc = "pay" => flow'[b][k] = flow[b][k]
    BY <1>2
  <2>2. QED
    BY <1>1, <2>1 DEF IInv, PayingKept, PayingOf
<1>10. WakeUp'
  <2> SUFFICES ASSUME NEW b \in Addrs, faults = 0, AllVerifiersConfirmed(b)
               PROVE  \/ \E k \in Senders : flow'[b][k].pc # "none"
                      \/ \E w \in Verifiers : notif'[w][b] \in {"check", "send"}
                      \/ \E q \in Requests : req[q].addr = b /\ req[q].pc = "send"
    BY <1>1 DEF WakeUp, AllVerifiersConfirmed, Started
  <2>1. CASE b = a
    BY <1>1, <1>2, <2>1
  <2>2. CASE b # a
    BY <1>2, <1>3, <2>2 DEF IInv, WakeUp, Started
  <2>3. QED
    BY <2>1, <2>2
<1>11. QED
  BY <1>4, <1>5, <1>6, <1>7, <1>8, <1>9, <1>10 DEF IInv

\* A started flow that moves on keeps the invariant.
LEMMA FlowMove ==
  ASSUME IInv, NEW a \in Addrs, NEW k \in Senders, NEW x \in FlowType,
         flow[a][k].pc # "none", x.pc # "none",
         x.pc = "pay" => x.to # None /\ PayingOf(a, x.to),
         flow' = [flow EXCEPT ![a] = [flow[a] EXCEPT ![k] = x]],
         UNCHANGED <<feeOn, bridge, status, paying, cache, row, outputs, req, callback, notif, faults>>
  PROVE  IInv'
<1>1. flow \in [Addrs -> [Senders -> FlowType]]
  BY DEF IInv, TypeOK
<1>2. /\ flow' \in [Addrs -> [Senders -> FlowType]] /\ flow'[a][k] = x
      /\ \A b \in Addrs, l \in Senders : <<b, l>> # <<a, k>> => flow'[b][l] = flow[b][l]
  BY <1>1
<1>3. TypeOK'
  BY <1>2 DEF IInv, TypeOK
<1>4. RequestSound' /\ ClaimUnique' /\ RowSound' /\ ClaimSound' /\ CallbackSound'
  BY NotifFrame
<1>5. NotifSound' /\ NotifOnce' /\ StatusSound'
  BY DEF IInv, NotifSound, NotifOnce, StatusSound, AllRowsConfirmed
<1>6. \A b \in Addrs, l \in Senders : flow'[b][l].pc # "none" <=> flow[b][l].pc # "none"
  BY <1>2
<1>7. StartSound'
  BY <1>6 DEF IInv, StartSound, Started, AllRowsConfirmed
<1>8. PayingKept'
  <2> SUFFICES ASSUME NEW b \in Addrs
               PROVE  /\ bridge[b] # None => PayingOf(b, bridge[b])
                      /\ \A l \in Senders : flow'[b][l].pc = "pay" =>
                           flow'[b][l].to # None /\ PayingOf(b, flow'[b][l].to)
    BY DEF PayingKept, PayingOf
  <2>1. bridge[b] # None => PayingOf(b, bridge[b])
    BY DEF IInv, PayingKept
  <2>2. ASSUME NEW l \in Senders, flow'[b][l].pc = "pay"
        PROVE  flow'[b][l].to # None /\ PayingOf(b, flow'[b][l].to)
    <3>1. CASE b = a /\ l = k
      BY <1>2, <2>2, <3>1
    <3>2. CASE ~(b = a /\ l = k)
      <4>1. flow'[b][l] = flow[b][l]
        BY <1>2, <3>2
      <4>2. flow[b][l].to # None /\ PayingOf(b, flow[b][l].to)
        BY <2>2, <4>1 DEF IInv, PayingKept
      <4>3. QED
        BY <4>1, <4>2
    <3>3. QED
      BY <3>1, <3>2
  <2>3. QED
    BY <2>1, <2>2
<1>9. WakeUp'
  BY <1>6 DEF IInv, WakeUp, Started, AllVerifiersConfirmed
<1>10. QED
  BY <1>3, <1>4, <1>5, <1>7, <1>8, <1>9 DEF IInv

\* The invariant is kept by FlowReadExitAddress.
LEMMA FlowReadExitAddressIInv ==
  ASSUME IInv, NEW a \in Addrs, NEW k \in Senders, FlowReadExitAddress(a, k)
  PROVE  IInv'
<1> DEFINE x == [flow[a][k] EXCEPT !.pc = "pay", !.to = bridge[a]]
<1>1. /\ flow[a][k].pc = "read" /\ flow[a][k] \in FlowType /\ bridge[a] \in Exits \cup {None}
      /\ UNCHANGED <<feeOn, bridge, status, paying, cache, row, outputs, req, callback, notif, faults>>
  BY DEF FlowReadExitAddress, tables, IInv, TypeOK
<1>2. flow' = [flow EXCEPT ![a] = [flow[a] EXCEPT ![k] = x]]
  BY <1>1 DEF FlowReadExitAddress, FlowType
<1>3. x \in FlowType /\ x.pc = "pay" /\ x.to = bridge[a]
  BY <1>1 DEF FlowType
<1> HIDE DEF x
<1>4. AllRowsConfirmed(a)
  BY <1>1 DEF IInv, StartSound, Started
<1>5. bridge[a] # None /\ PayingOf(a, bridge[a])
  <2>1. PICK v \in Verifiers : TRUE
    BY ConstantsAssumption
  <2>2. row[v][a].conf = "Confirmed"
    BY <1>4 DEF AllRowsConfirmed
  <2>3. QED
    BY <2>2 DEF IInv, RowSound, PayingKept
<1>6. QED
  BY <1>1, <1>2, <1>3, <1>5, FlowMove

\* The invariant is kept by FlowGetPayingUtxo.
LEMMA FlowGetPayingUtxoIInv ==
  ASSUME IInv, NEW a \in Addrs, NEW k \in Senders, FlowGetPayingUtxo(a, k)
  PROVE  IInv'
<1>1. /\ flow[a][k].pc = "pay" /\ flow[a][k] \in FlowType
      /\ UNCHANGED <<feeOn, bridge, status, paying, cache, row, outputs, req, callback, notif, faults>>
  BY DEF FlowGetPayingUtxo, tables, IInv, TypeOK
<1>2. CASE flow' = [flow EXCEPT ![a][k].pc = "failed"]
  <2> DEFINE x == [flow[a][k] EXCEPT !.pc = "failed"]
  <2>1. flow' = [flow EXCEPT ![a] = [flow[a] EXCEPT ![k] = x]]
    BY <1>2
  <2>2. x \in FlowType /\ x.pc = "failed"
    BY <1>1 DEF FlowType
  <2> HIDE DEF x
  <2>3. QED
    BY <1>1, <2>1, <2>2, FlowMove
<1>3. ASSUME NEW p \in Payings,
             flow' = [flow EXCEPT ![a][k].pc = "handed", ![a][k].paying = p]
      PROVE  IInv'
  <2> DEFINE x == [flow[a][k] EXCEPT !.pc = "handed", !.paying = p]
  <2>1. flow' = [flow EXCEPT ![a] = [flow[a] EXCEPT ![k] = x]]
    <3>1. flow \in [Addrs -> [Senders -> FlowType]]
      BY DEF IInv, TypeOK
    <3>2. QED
      BY <1>1, <1>3, <3>1 DEF FlowType
  <2>2. x \in FlowType /\ x.pc = "handed"
    BY <1>1 DEF FlowType
  <2> HIDE DEF x
  <2>3. QED
    BY <1>1, <2>1, <2>2, FlowMove
<1>4. QED
  BY <1>2, <1>3 DEF FlowGetPayingUtxo

\* Every step keeps the invariant.
LEMMA NextIInv == IInv /\ [Next]_vars => IInv'
<1> SUFFICES ASSUME IInv, [Next]_vars PROVE IInv'
  OBVIOUS
<1>1. ASSUME NEW r \in Requests, VerifySparkDeposit(r) PROVE IInv'
  BY <1>1, InsertPayingUtxoIInv, ReadCachedTokenIInv, RebuildWruneMetadataIInv,
     JoinWatchRepliesIInv, SetConfirmationStatusIInv, SendExitSparkIInv DEF VerifySparkDeposit
<1>2. ASSUME NEW r \in Requests, NEW v \in Verifiers, WatchSparkDeposit(r, v) PROVE IInv'
  BY <1>2, InsertDepositAddrInfoIInv, WatchBtcFeeIInv, VerifyTransferIInv, VerifyBalanceIInv
     DEF WatchSparkDeposit
<1>3. ASSUME NEW v \in Verifiers, NEW p \in BtcFees, FeeCallback(v, p) PROVE IInv'
  BY <1>3, CallbackVerifyBalanceIInv, CallbackNotifyGatewayIInv DEF FeeCallback
<1>4. ASSUME NEW v \in Verifiers, NEW a \in Addrs, NotifySparkDeposit(v, a) PROVE IInv'
  BY <1>4, UpdateConfirmationStatusIInv, NotifMoveIInv, NotifySendExitSparkIInv
     DEF NotifySparkDeposit
<1>5. ASSUME NEW a \in Addrs, NEW k \in Senders, ExitSparkFlow(a, k) PROVE IInv'
  BY <1>5, FlowReadExitAddressIInv, FlowGetPayingUtxoIInv DEF ExitSparkFlow
<1>6. CASE UNCHANGED vars
  <2>1. UNCHANGED <<feeOn, bridge, status, paying, cache, row, outputs, req, callback, notif, flow,
                    faults>>
    BY <1>6 DEF vars, tables
  <2>2. TypeOK'
    BY <2>1 DEF IInv, TypeOK
  <2>3. RequestSound' /\ ClaimUnique' /\ RowSound' /\ ClaimSound' /\ CallbackSound' /\ PayingKept'
    BY <2>1, NotifFrame
  <2>4. NotifSound' /\ NotifOnce' /\ StatusSound' /\ StartSound'
    BY <2>1 DEF IInv, NotifSound, NotifOnce, StatusSound, StartSound, Started, AllRowsConfirmed
  <2>5. WakeUp'
    BY <2>1 DEF IInv, WakeUp, Started, AllVerifiersConfirmed
  <2>6. QED
    BY <2>2, <2>3, <2>4, <2>5 DEF IInv
<1>7. QED
  BY <1>1, <1>2, <1>3, <1>4, <1>5, <1>6, SendTokensIInv, UpdateBridgeAddressIInv, RequestErrIInv,
     WatchErrIInv, FeeNotificationIInv, CallbackErrIInv, NotifMoveIInv DEF Next

-----------------------------------------------------------------------------
(* The theorems.                                                           *)

\* The invariant holds in every reachable state.
LEMMA InductiveInvariance == Spec => []IInv
BY InitIInv, NextIInv, PTL DEF Spec

\* The gateway's and the verifiers' rows, the requests, the callbacks and the
\* flows are always well typed.
THEOREM TypeCorrect == Spec => []TypeOK
<1>1. IInv => TypeOK
  BY DEF IInv
<1>2. QED
  BY <1>1, InductiveInvariance, PTL

\* An exit flow runs only with its Bitcoin fee confirmed by every verifier.
THEOREM BtcFeesAreSettled == Spec => []BtcFeeSettled
<1>1. IInv => BtcFeeSettled
  <2> SUFFICES ASSUME IInv, NEW a \in Addrs, NEW k \in Senders, NEW v \in Verifiers,
                      feeOn, Started(a, k), row[v][a].fee \in BtcFees
               PROVE  row[v][a].feeStatus = "Confirmed"
    BY DEF BtcFeeSettled
  <2>1. row[v][a].conf = "Confirmed"
    BY DEF IInv, StartSound, AllRowsConfirmed
  <2>2. QED
    BY <2>1 DEF IInv, RowSound, Verdicts
<1>2. QED
  BY <1>1, InductiveInvariance, PTL

\* Two exit flows of one address only stem from fee callbacks: the unique keys
\* of the verifiers admit one request, and a request that was confirmed at once
\* has no callback.
THEOREM OneExitPerRequest == Spec => []OneExitWithoutCallback
<1>1. IInv => OneExitWithoutCallback
  <2> SUFFICES ASSUME IInv, NEW a \in Addrs, NEW k \in Senders, NEW l \in Senders,
                      Started(a, k), Started(a, l), k # l
               PROVE  k \in Verifiers
    BY DEF OneExitWithoutCallback
  <2> SUFFICES ASSUME k \in Requests PROVE FALSE
    BY DEF Senders
  <2>1. /\ req[k].addr = a /\ \A v \in Verifiers : req[k].reply[v] = "Confirmed"
        /\ "Confirmed" \in Claimed
    BY DEF IInv, StartSound, Claimed, Replies, Verdicts
  <2>2. CASE l \in Requests
    <3>1. req[l].addr = a /\ \A v \in Verifiers : req[l].reply[v] = "Confirmed"
      BY <2>2 DEF IInv, StartSound
    <3>2. PICK v \in Verifiers : TRUE
      BY ConstantsAssumption
    <3>3. QED
      BY <2>1, <2>2, <3>1, <3>2 DEF IInv, ClaimUnique
  <2>3. CASE l \in Verifiers
    <3>1. notif[l][a] # "idle"
      BY <2>3 DEF IInv, StartSound
    <3>2. feeOn /\ row[l][a].fee \in BtcFees
      BY <2>3, <3>1 DEF IInv, NotifSound
    <3>3. feeOn => row[l][a].fee \notin BtcFees
      BY <2>1, <2>3 DEF IInv, ClaimSound, Verdicts
    <3>4. QED
      BY <3>2, <3>3
  <2>4. QED
    BY <2>2, <2>3 DEF Senders
<1>2. QED
  BY <1>1, InductiveInvariance, PTL

\* The flow finds a paying input for the exit address it read, unless the
\* request that stored that address has not stored its input or was refused it.
THEOREM PayingInputsAreFound == Spec => []PayingInputFound
<1>1. IInv => PayingInputFound
  BY DEF IInv, PayingKept, PayingOf, PayingInputFound
<1>2. QED
  BY <1>1, InductiveInvariance, PTL

\* Without a fault no confirmed exit is left behind: the task that writes last
\* reads the whole column.
THEOREM NoExitIsLost == Spec => []NoLostExit
<1>1. IInv => NoLostExit
  BY DEF IInv, WakeUp, NoLostExit, AllVerifiersConfirmed
<1>2. QED
  BY <1>1, InductiveInvariance, PTL

-----------------------------------------------------------------------------
(* SparkExit implements Approval.                                          *)

\* The state of the contract.
Verdict == [v \in Verifiers |-> [a \in Addrs |-> Decision(v, a)]]
Payout == {x \in Addrs \X Senders : Started(x[1], x[2])}

\* Rows that keep their verdict leave the contract's verdicts alone.
LEMMA VerdictKept ==
  ASSUME \A w \in Verifiers, b \in Addrs :
           \/ row'[w][b] = row[w][b]
           \/ row'[w][b].conf \notin Verdicts /\ row[w][b].conf \notin Verdicts
  PROVE  Verdict' = Verdict
<1>1. \A w \in Verifiers, b \in Addrs : Decision(w, b)' = Decision(w, b)
  BY DEF Decision
<1>2. QED
  BY <1>1 DEF Verdict

\* Flows that stay started, or not started, leave the payouts alone.
LEMMA PayoutKept ==
  ASSUME \A b \in Addrs, l \in Senders : (flow'[b][l].pc # "none") = (flow[b][l].pc # "none")
  PROVE  Payout' = Payout
<1>1. Payout' = {x \in Addrs \X Senders : flow'[x[1]][x[2]].pc # "none"}
  BY DEF Payout, Started
<1>2. Payout = {x \in Addrs \X Senders : flow[x[1]][x[2]].pc # "none"}
  BY DEF Payout, Started
<1>3. \A x \in Addrs \X Senders : x[1] \in Addrs /\ x[2] \in Senders
  OBVIOUS
<1>4. QED
  BY <1>1, <1>2, <1>3

\* A step that decides nothing and starts nothing is a stutter.
LEMMA QuietStep ==
  ASSUME UNCHANGED <<row, flow>>
  PROVE  UNCHANGED <<Verdict, Payout>>
BY VerdictKept, PayoutKept

\* A row that is decided is a decision of the contract.
LEMMA DecideStep ==
  ASSUME NEW v \in Verifiers, NEW a \in Addrs, RowOnly(v, a), row'[v][a].conf \in Verdicts,
         UNCHANGED flow
  PROVE  Contract!Next
<1> DEFINE s == row'[v][a].conf
<1>1. Verdict[v][a] = "none"
  BY DEF Verdict, Decision, RowOnly
<1>2. \A w \in Verifiers, b \in Addrs :
        Decision(w, b)' = IF w = v /\ b = a THEN s ELSE Decision(w, b)
  BY DEF Decision, RowOnly
<1>3. Verdict' = [Verdict EXCEPT ![v][a] = s]
  BY <1>2 DEF Verdict
<1>4. Payout' = Payout
  BY PayoutKept
<1>5. s \in {"Confirmed", "Failed"}
  BY DEF Verdicts
<1> HIDE DEF s
<1>6. Contract!Decide(v, a, s)
  BY <1>1, <1>3, <1>4 DEF Contract!Decide, Verdict, Payout
<1>7. QED
  BY <1>5, <1>6 DEF Contract!Next

\* A flow is started only with every verifier's row confirmed.
LEMMA PayStep ==
  ASSUME TypeOK, NEW a \in Addrs, NEW k \in Senders, AllRowsConfirmed(a), StartFlow(a, k),
         UNCHANGED row
  PROVE  Contract!Next
<1>1. /\ flow'[a][k].pc = "read"
      /\ \A b \in Addrs, l \in Senders : <<b, l>> # <<a, k>> => flow'[b][l] = flow[b][l]
  BY StartFlowFacts
<1>2. Payout' = {x \in Addrs \X Senders : flow'[x[1]][x[2]].pc # "none"}
  BY DEF Payout, Started
<1>3. Payout = {x \in Addrs \X Senders : flow[x[1]][x[2]].pc # "none"}
  BY DEF Payout, Started
<1>4. \A x \in Addrs \X Senders :
        /\ x[1] \in Addrs /\ x[2] \in Senders
        /\ x = <<a, k>> <=> (x[1] = a /\ x[2] = k)
  OBVIOUS
<1>5. <<a, k>> \in Addrs \X Senders
  OBVIOUS
<1>6. Payout' = Payout \cup {<<a, k>>}
  BY <1>1, <1>2, <1>3, <1>4, <1>5
<1>7. Verdict' = Verdict
  BY VerdictKept
<1>8. \A v \in Verifiers : Verdict[v][a] = "Confirmed"
  BY DEF Verdict, Decision, AllRowsConfirmed, Verdicts
<1>9. Contract!Pay(a, k)
  BY <1>6, <1>7, <1>8 DEF Contract!Pay, Verdict, Payout
<1>10. QED
  BY <1>9 DEF Contract!Next

\* The request and its handlers at the verifiers.
LEMMA RequestApproved ==
  ASSUME IInv, NEW r \in Requests, VerifySparkDeposit(r)
  PROVE  [Contract!Next]_<<Verdict, Payout>>
<1>1. CASE SendExitSpark(r)
  <2>1. /\ req[r].pc = "send" /\ StartFlow(req[r].addr, r) /\ UNCHANGED row /\ r \in Senders
    BY <1>1 DEF SendExitSpark, tables, Senders
  <2>2. req[r].addr \in Addrs /\ \A v \in Verifiers : req[r].reply[v] = "Confirmed"
    BY <2>1 DEF IInv, RequestSound
  <2>3. \A v \in Verifiers : req[r].reply[v] \in Claimed
    BY <2>2 DEF Claimed, Replies, Verdicts
  <2>4. ASSUME NEW v \in Verifiers PROVE row[v][req[r].addr].conf = "Confirmed"
    <3>1. req[r].reply[v] \in Verdicts
      BY <2>2 DEF Verdicts
    <3>2. row[v][req[r].addr].conf = req[r].reply[v]
      BY <2>3, <3>1 DEF IInv, ClaimSound
    <3>3. QED
      BY <2>2, <3>2
  <2>5. AllRowsConfirmed(req[r].addr)
    BY <2>4 DEF AllRowsConfirmed
  <2>6. QED
    BY <2>1, <2>2, <2>5, PayStep DEF IInv
<1>2. CASE ~SendExitSpark(r)
  <2>1. UNCHANGED <<row, flow>>
    BY <1>2 DEF VerifySparkDeposit, InsertPayingUtxo, ReadCachedToken, RebuildWruneMetadata,
       JoinWatchReplies, SetConfirmationStatus, tables
  <2>2. QED
    BY <2>1, QuietStep
<1>3. QED
  BY <1>1, <1>2

\* The verifier decides in its handler, and once.
LEMMA HandlerApproved ==
  ASSUME IInv, NEW r \in Requests, NEW v \in Verifiers, WatchSparkDeposit(r, v)
  PROVE  [Contract!Next]_<<Verdict, Payout>>
<1> DEFINE a == req[r].addr
<1>1. row \in [Verifiers -> [Addrs -> RowType]]
  BY DEF IInv, TypeOK
<1>2. CASE InsertDepositAddrInfo(r, v)
  <2>1. a \in Addrs /\ UNCHANGED flow
    BY <1>2, ClaimAddr DEF InsertDepositAddrInfo
  <2>2. CASE UNCHANGED row
    BY <2>1, <2>2, QuietStep
  <2>3. CASE ~ UNCHANGED row
    <3> DEFINE d == [conf |-> "Pending", fee |-> req[r].fee,
                     feeStatus |-> IF feeOn THEN "Pending" ELSE "Confirmed",
                     token |-> req[r].token, to |-> req[r].to]
    <3>1. row[v][a].conf = "absent" /\ row' = [row EXCEPT ![v][a] = d] /\ d.conf = "Pending"
      BY <1>2, <2>3 DEF InsertDepositAddrInfo, RowFree
    <3> HIDE DEF d
    <3>2. \A w \in Verifiers, b \in Addrs :
            \/ row'[w][b] = row[w][b]
            \/ row'[w][b].conf \notin Verdicts /\ row[w][b].conf \notin Verdicts
      BY <1>1, <2>1, <3>1 DEF Verdicts
    <3>3. QED
      BY <2>1, <3>2, VerdictKept, PayoutKept
  <2>4. QED
    BY <2>2, <2>3
<1>3. CASE WatchBtcFee(r, v)
  BY <1>3, QuietStep DEF WatchBtcFee, tables
<1>4. ASSUME NEW s \in Verdicts, VerifyTransfer(r, v, s) PROVE [Contract!Next]_<<Verdict, Payout>>
  <2>1. /\ a \in Addrs /\ row[v][a].conf = "Pending" /\ UNCHANGED flow
        /\ row' = [row EXCEPT ![v] = [row[v] EXCEPT ![a] = [row[v][a] EXCEPT !.feeStatus = s]]]
    BY <1>4, ClaimFacts DEF VerifyTransfer
  <2>2. row[v][a] \in RowType
    BY <1>1, <2>1
  <2>3. [row[v][a] EXCEPT !.feeStatus = s].conf = "Pending"
    BY <2>1, <2>2 DEF RowType
  <2>4. \A w \in Verifiers, b \in Addrs :
          \/ row'[w][b] = row[w][b]
          \/ row'[w][b].conf \notin Verdicts /\ row[w][b].conf \notin Verdicts
    BY <1>1, <2>1, <2>3 DEF Verdicts
  <2>5. QED
    BY <2>1, <2>4, VerdictKept, PayoutKept
<1>5. CASE VerifyBalance(r, v)
  <2> DEFINE x == BalanceVerdict(v, a)
             d == [row[v][a] EXCEPT !.conf = x]
  <2>1. /\ a \in Addrs /\ row[v][a].conf = "Pending" /\ UNCHANGED flow
        /\ row' = [row EXCEPT ![v] = [row[v] EXCEPT ![a] = d]]
    BY <1>5, ClaimFacts DEF VerifyBalance
  <2>2. row[v][a] \in RowType /\ x \in Verdicts
    BY <1>1, <2>1 DEF BalanceVerdict, Verdicts
  <2> HIDE DEF x
  <2>3. d \in RowType /\ d.conf = x
    BY <2>2 DEF RowType
  <2> HIDE DEF d
  <2>4. RowOnly(v, a) /\ row'[v][a] = d
    BY <2>1, <2>3, RowWrite DEF IInv
  <2>5. QED
    BY <2>1, <2>2, <2>3, <2>4, DecideStep
<1>6. QED
  BY <1>2, <1>3, <1>4, <1>5 DEF WatchSparkDeposit

\* The verifier decides in the fee callback, and once.
LEMMA CallbackApproved ==
  ASSUME IInv, NEW v \in Verifiers, NEW p \in BtcFees,
         FeeCallback(v, p) \/ \E s \in Verdicts : FeeNotification(v, p, s)
  PROVE  [Contract!Next]_<<Verdict, Payout>>
<1> DEFINE a == AddrOfFee(v, p)
<1>1. row \in [Verifiers -> [Addrs -> RowType]] /\ TypeOK
  BY DEF IInv, TypeOK
<1>2. CASE CallbackNotifyGateway(v, p)
  BY <1>2, QuietStep DEF CallbackNotifyGateway, tables
<1>3. CASE CallbackVerifyBalance(v, p)
  <2> DEFINE x == BalanceVerdict(v, a)
             d == [row[v][a] EXCEPT !.conf = x]
  <2>1. callback[v][p] = "balance" /\ UNCHANGED flow
    BY <1>3 DEF CallbackVerifyBalance
  <2>2. a \in Addrs /\ row[v][a].conf = "Pending"
    BY <2>1, CallbackFacts
  <2>3. row' = [row EXCEPT ![v] = [row[v] EXCEPT ![a] = d]]
    BY <1>3 DEF CallbackVerifyBalance
  <2>4. row[v][a] \in RowType /\ x \in Verdicts
    BY <1>1, <2>2 DEF BalanceVerdict, Verdicts
  <2> HIDE DEF x, a
  <2>5. d \in RowType /\ d.conf = x
    BY <2>4 DEF RowType
  <2> HIDE DEF d
  <2>6. RowOnly(v, a) /\ row'[v][a] = d
    BY <1>1, <2>2, <2>3, <2>5, RowWrite
  <2>7. QED
    BY <2>1, <2>2, <2>4, <2>5, <2>6, DecideStep
<1>4. ASSUME NEW s \in Verdicts, FeeNotification(v, p, s) PROVE [Contract!Next]_<<Verdict, Payout>>
  <2> DEFINE d == [row[v][a] EXCEPT !.feeStatus = s]
  <2>1. callback[v][p] = "watched" /\ UNCHANGED flow
    BY <1>4 DEF FeeNotification
  <2>2. a \in Addrs /\ row[v][a].conf = "Pending"
    BY <2>1, CallbackFacts
  <2>3. row' = [row EXCEPT ![v] = [row[v] EXCEPT ![a] = d]]
    BY <1>4 DEF FeeNotification
  <2>4. row[v][a] \in RowType
    BY <1>1, <2>2
  <2> HIDE DEF a
  <2>5. d \in RowType /\ d.conf = "Pending"
    BY <2>2, <2>4 DEF RowType
  <2> HIDE DEF d
  <2>6. RowOnly(v, a) /\ row'[v][a] = d
    BY <1>1, <2>2, <2>3, <2>5, RowWrite
  <2>7. \A w \in Verifiers, b \in Addrs :
          \/ row'[w][b] = row[w][b]
          \/ row'[w][b].conf \notin Verdicts /\ row[w][b].conf \notin Verdicts
    BY <2>5, <2>6 DEF RowOnly, Verdicts
  <2>8. QED
    BY <2>1, <2>7, VerdictKept, PayoutKept
<1>5. QED
  BY <1>2, <1>3, <1>4 DEF FeeCallback

\* The notification and the flow.
LEMMA NotifApproved ==
  ASSUME IInv, NEW v \in Verifiers, NEW a \in Addrs, NotifySparkDeposit(v, a)
  PROVE  [Contract!Next]_<<Verdict, Payout>>
<1>1. CASE NotifySendExitSpark(v, a)
  <2>1. notif[v][a] = "send" /\ StartFlow(a, v) /\ UNCHANGED row /\ v \in Senders
    BY <1>1 DEF NotifySendExitSpark, tables, Senders
  <2>2. AllRowsConfirmed(a)
    BY <2>1 DEF IInv, NotifSound
  <2>3. QED
    BY <2>1, <2>2, PayStep DEF IInv
<1>2. CASE UpdateConfirmationStatus(v, a) \/ CheckAllVerifiersConfirmed(v, a)
  BY <1>2, QuietStep DEF UpdateConfirmationStatus, CheckAllVerifiersConfirmed, tables
<1>3. QED
  BY <1>1, <1>2 DEF NotifySparkDeposit

\* A running flow is already paid for.
LEMMA FlowApproved ==
  ASSUME IInv, NEW a \in Addrs, NEW k \in Senders, ExitSparkFlow(a, k)
  PROVE  UNCHANGED <<Verdict, Payout>>
<1>1. flow \in [Addrs -> [Senders -> FlowType]] /\ flow[a][k].pc \in {"read", "pay"} /\ UNCHANGED row
  BY DEF IInv, TypeOK, ExitSparkFlow, FlowReadExitAddress, FlowGetPayingUtxo, tables
<1>2. \A b \in Addrs, l \in Senders : (flow'[b][l].pc # "none") = (flow[b][l].pc # "none")
  <2>1. CASE FlowReadExitAddress(a, k)
    <3>1. flow' = [flow EXCEPT ![a][k].pc = "pay", ![a][k].to = bridge[a]]
      BY <2>1 DEF FlowReadExitAddress
    <3>2. QED
      BY <1>1, <3>1 DEF FlowType
  <2>2. CASE flow' = [flow EXCEPT ![a][k].pc = "failed"]
    BY <1>1, <2>2 DEF FlowType
  <2>3. ASSUME NEW p \in Payings, flow' = [flow EXCEPT ![a][k].pc = "handed", ![a][k].paying = p]
        PROVE  \A b \in Addrs, l \in Senders : (flow'[b][l].pc # "none") = (flow[b][l].pc # "none")
    BY <1>1, <2>3 DEF FlowType
  <2>4. QED
    BY <2>1, <2>2, <2>3 DEF ExitSparkFlow, FlowGetPayingUtxo
<1>3. QED
  BY <1>1, <1>2, VerdictKept, PayoutKept

\* The exit direction implements the approval contract: a verifier decides
\* once, and an exit starts only when every verifier decided for it.
THEOREM ImplementsApproval == Spec => ExitsApproved
<1>1. Init => Contract!Init
  <2> SUFFICES ASSUME Init PROVE Contract!Init
    OBVIOUS
  <2>1. \A v \in Verifiers, a \in Addrs : Decision(v, a) = "none"
    BY DEF Init, Decision, Verdicts
  <2>2. Payout = {}
    <3>1. \A x \in Addrs \X Senders : x[1] \in Addrs /\ x[2] \in Senders
      OBVIOUS
    <3>2. \A x \in Addrs \X Senders : ~Started(x[1], x[2])
      BY <3>1 DEF Init, Started
    <3>3. QED
      BY <3>2 DEF Payout
  <2>3. QED
    BY <2>1, <2>2 DEF Contract!Init, Contract!Undecided, Payout
<1>2. IInv /\ [Next]_vars => [Contract!Next]_<<Verdict, Payout>>
  <2> SUFFICES ASSUME IInv, [Next]_vars PROVE [Contract!Next]_<<Verdict, Payout>>
    OBVIOUS
  <2>1. CASE UNCHANGED <<row, flow>>
    BY <2>1, QuietStep
  <2>2. QED
    BY <2>1, RequestApproved, HandlerApproved, CallbackApproved, NotifApproved, FlowApproved
       DEF Next, vars, tables, SendTokens, UpdateBridgeAddress, RequestErr, WatchErr, CallbackErr,
           NotifyErr
<1>3. QED
  BY <1>1, <1>2, InductiveInvariance, PTL
     DEF Spec, ExitsApproved, Contract!Spec, Verdict, Payout

=============================================================================
