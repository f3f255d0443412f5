----------------------------- MODULE SparkExit -----------------------------
(***************************************************************************)
(* The Spark -> Runes direction up to the start of the exit flow: an exit  *)
(* request for a Spark deposit address is handed to every verifier, which  *)
(* checks the fee payment and the token balance, at once or after the      *)
(* Bitcoin indexer's callback about the fee; the request, or the           *)
(* notification that finds every verifier confirmed, starts the exit flow, *)
(* which reads where to pay and the user's paying input.                   *)
(*   gateway/crates/deposit_verification/src/aggregator.rs                 *)
(*   gateway/crates/flow_processor/src/routes/exit_spark_flow.rs           *)
(*   verifier/crates/server/src/handlers/{watch_spark_deposit,             *)
(*     notify_runes_deposit}.rs                                            *)
(*   spark_balance_checker/crates/server/src/handlers/                     *)
(* The selection of vault UTXOs and the Bitcoin transaction are RuneVault. *)
(***************************************************************************)
EXTENDS Naturals

CONSTANTS
  Verifiers,   \* the configured verifiers
  Addrs,       \* issued Spark deposit addresses of one rune
  Exits,       \* Bitcoin exit addresses users may name
  Payings,     \* paying inputs (txid:vout) users may name
  BtcFees,     \* fee payments made by a Bitcoin outpoint
  SparkFees,   \* fee payments made by a Spark transfer
  Requests,    \* exit requests (POST /api/user/exit-spark)
  None,        \* SQL NULL / no value
  MaxFaults    \* bound: injected errors

Fees == BtcFees \cup SparkFees
Senders == Requests \cup Verifiers   \* who may start an exit flow

ASSUME ConstantsAssumption ==
  /\ Verifiers # {}
  /\ BtcFees \cap SparkFees = {}
  /\ Requests \cap Verifiers = {}
  /\ None \notin Exits \cup Payings \cup Fees \cup Addrs
  /\ MaxFaults \in Nat

VARIABLES
  feeOn,       \* server_config.fee.is_some(), the same at every verifier
  bridge,      \* gateway deposit_address.bridge_address
  status,      \* gateway deposit_address.confirmation_status
  paying,      \* gateway paying_utxo: paying input -> btc_exit_address
  cache,       \* gateway rune_metadata_map: the token of the rune
  row,         \* verifier deposit_address rows
  outputs,     \* Spark: the outputs of the minted token at an address
  req,         \* the exit requests
  callback,    \* the fee payments the verifiers have at the indexer
  notif,       \* the notification task of each verifier and address
  flow,        \* the exit flow each sender started for an address
  faults       \* errors injected so far

tables == <<bridge, status, paying, cache, row>>
vars == <<feeOn, tables, outputs, req, callback, notif, flow, faults>>

(* "minted" is the token the bridge flow created; a token identifier built *)
(* without the rune's metadata (an unreachable metadata service) is        *)
(* another one.                                                            *)
Tokens == {"minted", "fallback"}
Verdicts == {"Confirmed", "Failed"}
DepositStatus == Verdicts \cup {"Created", "WaitingForConfirmation"}
Replies == {"none", "inserted", "fee_checked", "err", "WaitingForConfirmation"}
             \cup Verdicts
Final == {"err", "WaitingForConfirmation"} \cup Verdicts

RowType == [conf : {"absent", "Pending"} \cup Verdicts, fee : Fees \cup {None},
            feeStatus : {"Pending"} \cup Verdicts, token : Tokens, to : Exits \cup {None}]
ReqType == [pc : {"idle", "paying", "read", "token", "watch", "set_status", "send",
                  "done", "failed"},
            addr : Addrs \cup {None}, to : Exits \cup {None},
            paying : Payings \cup {None}, fee : Fees \cup {None}, token : Tokens,
            reply : [Verifiers -> Replies]]
FlowType == [pc : {"none", "read", "pay", "handed", "failed"}, to : Exits \cup {None},
             paying : Payings \cup {None}]

TypeOK ==
  /\ feeOn \in BOOLEAN
  /\ bridge \in [Addrs -> Exits \cup {None}]
  /\ status \in [Addrs -> [Verifiers -> DepositStatus]]
  /\ paying \in [Payings -> Exits \cup {None}]
  /\ cache \in Tokens \cup {None}
  /\ row \in [Verifiers -> [Addrs -> RowType]]
  /\ outputs \in [Addrs -> {"none", "exact", "other"}]
  /\ req \in [Requests -> ReqType]
  /\ callback \in [Verifiers -> [BtcFees -> {"none", "watched", "balance", "notify",
                                             "done", "failed"}]]
  /\ notif \in [Verifiers -> [Addrs -> {"idle", "status", "check", "send", "done",
                                        "failed"}]]
  /\ flow \in [Addrs -> [Senders -> FlowType]]
  /\ faults \in 0..MaxFaults

(* Every address is issued and its rune has a token, whose metadata the    *)
(* bridge flow may have failed to cache (it only logs that).               *)
Init ==
  /\ feeOn \in BOOLEAN
  /\ bridge = [a \in Addrs |-> None]
  /\ status = [a \in Addrs |-> [v \in Verifiers |-> "Created"]]
  /\ paying = [p \in Payings |-> None]
  /\ cache \in {"minted", None}
  /\ row = [v \in Verifiers |-> [a \in Addrs |->
              [conf |-> "absent", fee |-> None, feeStatus |-> "Pending",
               token |-> "minted", to |-> None]]]
  /\ outputs = [a \in Addrs |-> "none"]
  /\ req = [r \in Requests |->
              [pc |-> "idle", addr |-> None, to |-> None, paying |-> None,
               fee |-> None, token |-> "minted",
               reply |-> [v \in Verifiers |-> "none"]]]
  /\ callback = [v \in Verifiers |-> [p \in BtcFees |-> "none"]]
  /\ notif = [v \in Verifiers |-> [a \in Addrs |-> "idle"]]
  /\ flow = [a \in Addrs |-> [k \in Senders |->
              [pc |-> "none", to |-> None, paying |-> None]]]
  /\ faults = 0

Fault == /\ faults < MaxFaults
         /\ faults' = faults + 1

\* The user sends the tokens: one output of the amount asked for, or an
\* output of another amount, or a second output.
SendTokens(a, kind) ==
  /\ \/ outputs[a] = "none" /\ kind \in {"exact", "other"}
     \/ outputs[a] = "exact" /\ kind = "other"
  /\ outputs' = [outputs EXCEPT ![a] = kind]
  /\ UNCHANGED <<feeOn, tables, req, callback, notif, flow, faults>>

-----------------------------------------------------------------------------
(* verify_spark_deposit: one exit request at the gateway.                  *)

ReqGoto(r, p) == req' = [req EXCEPT ![r].pc = p]

\* update_bridge_address_by_deposit_address, before anything is checked.
UpdateBridgeAddress(r, a, e, p, f) ==
  /\ req[r].pc = "idle"
  /\ req' = [req EXCEPT ![r] = [@ EXCEPT !.pc = "paying", !.addr = a, !.to = e,
                                         !.paying = p, !.fee = f]]
  /\ bridge' = [bridge EXCEPT ![a] = e]
  /\ UNCHANGED <<feeOn, status, paying, cache, row, outputs, callback, notif,
                 flow, faults>>

\* Bug: an upsert on the paying input.
UpsertPayingUtxo(r) ==
  /\ req[r].pc = "paying"
  /\ paying' = [paying EXCEPT ![req[r].paying] = req[r].to]
  /\ ReqGoto(r, "read")
  /\ UNCHANGED <<feeOn, bridge, status, cache, row, outputs, callback, notif,
                 flow, faults>>

\* insert_paying_utxo: its primary key is the outpoint of the input.
InsertPayingUtxo(r) ==
  /\ req[r].pc = "paying"
  /\ IF paying[req[r].paying] = None
       THEN /\ paying' = [paying EXCEPT ![req[r].paying] = req[r].to]
            /\ ReqGoto(r, "read")
       ELSE /\ ReqGoto(r, "failed")
            /\ UNCHANGED paying
  /\ UNCHANGED <<feeOn, bridge, status, cache, row, outputs, callback, notif,
                 flow, faults>>

\* The rows of the address, its user, the rune's issuer and the issuer's key
\* are all there; the cached metadata names the token.
ReadCachedToken(r) ==
  /\ req[r].pc = "read"
  /\ IF cache # None
       THEN req' = [req EXCEPT ![r].pc = "watch", ![r].token = cache]
       ELSE ReqGoto(r, "token")
  /\ UNCHANGED <<feeOn, tables, outputs, callback, notif, flow, faults>>

\* rebuild_wrune_metadata: fetches the rune's metadata, goes on without it
\* when the fetch fails, and overwrites the cache.
RebuildWruneMetadata(r, token) ==
  /\ req[r].pc = "token"
  /\ \/ token = "minted" /\ UNCHANGED faults
     \/ token = "fallback" /\ Fault
  /\ cache' = token
  /\ req' = [req EXCEPT ![r].pc = "watch", ![r].token = token]
  /\ UNCHANGED <<feeOn, bridge, status, paying, row, outputs, callback, notif, flow>>

\* join_all: every verifier has answered; one error fails the request, and no
\* verifier forgets the deposit.
JoinWatchReplies(r) ==
  /\ req[r].pc = "watch"
  /\ \A v \in Verifiers : req[r].reply[v] \in Final
  /\ ReqGoto(r, IF \A v \in Verifiers : req[r].reply[v] # "err"
                  THEN "set_status" ELSE "failed")
  /\ UNCHANGED <<feeOn, tables, outputs, callback, notif, flow, faults>>

\* set_confirmation_status_by_deposit_address writes every verifier's answer
\* over whatever the column holds by now.
SetConfirmationStatus(r) ==
  /\ req[r].pc = "set_status"
  /\ status' = [status EXCEPT ![req[r].addr] = req[r].reply]
  /\ ReqGoto(r, IF \A v \in Verifiers : req[r].reply[v] = "Confirmed"
                  THEN "send" ELSE "done")
  /\ UNCHANGED <<feeOn, bridge, paying, cache, row, outputs, callback, notif,
                 flow, faults>>

StartFlow(a, k) == flow' = [flow EXCEPT ![a][k].pc = "read"]

SendExitSpark(r) ==
  /\ req[r].pc = "send"
  /\ StartFlow(req[r].addr, r)
  /\ ReqGoto(r, "done")
  /\ UNCHANGED <<feeOn, tables, outputs, callback, notif, faults>>

\* Any `?` of the handler, or the gateway stops.
RequestErr(r) ==
  /\ req[r].pc \notin {"idle", "done", "failed"}
  /\ Fault
  /\ ReqGoto(r, "failed")
  /\ UNCHANGED <<feeOn, tables, outputs, callback, notif, flow>>

-----------------------------------------------------------------------------
(* watch_spark_deposit: the call of request r at verifier v.               *)

SetReply(r, v, x) == req' = [req EXCEPT ![r].reply[v] = x]

\* Bug: a call that names the row's own fee payment passes as a retry.
RowFreeOrRetried(v, a, f) == row[v][a].conf = "absent" \/ row[v][a].fee = f

\* The verifier's INSERT: the primary key is the nonce (the address), and a
\* fee payment is used once.
RowFree(v, a, f) ==
  /\ row[v][a].conf = "absent"
  /\ f # None => \A b \in Addrs : row[v][b].fee # f

\* The fee is required when configured; the deposit row is inserted.
InsertDepositAddrInfo(r, v) ==
  LET a == req[r].addr
      f == req[r].fee
  IN
  /\ req[r].pc = "watch"
  /\ req[r].reply[v] = "none"
  /\ IF (feeOn => f # None) /\ RowFree(v, a, f)
       THEN /\ row' = [row EXCEPT ![v][a] =
                         [conf |-> "Pending", fee |-> f,
                          feeStatus |-> IF feeOn THEN "Pending" ELSE "Confirmed",
                          token |-> req[r].token, to |-> req[r].to]]
            /\ SetReply(r, v, "inserted")
       ELSE /\ SetReply(r, v, "err")
            /\ UNCHANGED row
  /\ UNCHANGED <<feeOn, bridge, status, paying, cache, outputs, callback, notif,
                 flow, faults>>

\* Bug: the verifier's Pending is stored as it came.
WatchBtcFeePending(r, v) ==
  /\ req[r].reply[v] = "inserted"
  /\ feeOn /\ req[r].fee \in BtcFees
  /\ callback' = [callback EXCEPT ![v][req[r].fee] = "watched"]
  /\ SetReply(r, v, "Pending")
  /\ UNCHANGED <<feeOn, tables, outputs, notif, flow, faults>>

\* A fee paid on Bitcoin is given to the indexer and the answer is Pending,
\* which the gateway's client turns into WaitingForConfirmation.
WatchBtcFee(r, v) ==
  /\ req[r].reply[v] = "inserted"
  /\ feeOn /\ req[r].fee \in BtcFees
  /\ callback' = [callback EXCEPT ![v][req[r].fee] = "watched"]
  /\ SetReply(r, v, "WaitingForConfirmation")
  /\ UNCHANGED <<feeOn, tables, outputs, notif, flow, faults>>

\* verify_transfer and set_fee_status_by_payment for a fee paid on Spark. A
\* failed payment is recorded, and the handler goes on.
VerifyTransfer(r, v, s) ==
  /\ req[r].reply[v] = "inserted"
  /\ feeOn /\ req[r].fee \in SparkFees
  /\ row' = [row EXCEPT ![v][req[r].addr].feeStatus = s]
  /\ SetReply(r, v, "fee_checked")
  /\ UNCHANGED <<feeOn, bridge, status, paying, cache, outputs, callback, notif,
                 flow, faults>>

\* verify_balance: exactly one output, of exactly the amount of the address.
BalanceVerdict(v, a) ==
  IF row[v][a].token = "minted" /\ outputs[a] = "exact" THEN "Confirmed" ELSE "Failed"

\* verify_spark_deposit at the verifier: balance, row, answer.
VerifyBalance(r, v) ==
  LET a == req[r].addr IN
  /\ \/ req[r].reply[v] = "inserted" /\ ~feeOn
     \/ req[r].reply[v] = "fee_checked"
  /\ row' = [row EXCEPT ![v][a].conf = BalanceVerdict(v, a)]
  /\ SetReply(r, v, BalanceVerdict(v, a))
  /\ UNCHANGED <<feeOn, bridge, status, paying, cache, outputs, callback, notif,
                 flow, faults>>

\* The call fails before, inside or after the handler: what the handler has
\* stored by then stays.
WatchErr(r, v) ==
  /\ req[r].pc = "watch"
  /\ req[r].reply[v] # "err"
  /\ Fault
  /\ SetReply(r, v, "err")
  /\ UNCHANGED <<feeOn, tables, outputs, callback, notif, flow>>

-----------------------------------------------------------------------------
(* handle_fee_notification: the indexer's callback about a Bitcoin fee.    *)

AddrOfFee(v, p) == CHOOSE a \in Addrs : row[v][a].fee = p
SetCallback(v, p, x) == callback' = [callback EXCEPT ![v][p] = x]

\* Bug: the row is looked up by the payment alone, confirmed or not.
FeeNotificationUnchecked(v, p, s) ==
  /\ callback[v][p] = "watched"
  /\ row' = [row EXCEPT ![v][AddrOfFee(v, p)].feeStatus = s]
  /\ SetCallback(v, p, "balance")
  /\ UNCHANGED <<feeOn, bridge, status, paying, cache, outputs, req, notif,
                 flow, faults>>

\* set_fee_status_by_payment, then the row is read again by its confirmed
\* payment: a failed fee ends the callback here and nobody is told.
FeeNotification(v, p, s) ==
  /\ callback[v][p] = "watched"
  /\ row' = [row EXCEPT ![v][AddrOfFee(v, p)].feeStatus = s]
  /\ SetCallback(v, p, IF s = "Confirmed" THEN "balance" ELSE "failed")
  /\ UNCHANGED <<feeOn, bridge, status, paying, cache, outputs, req, notif,
                 flow, faults>>

CallbackVerifyBalance(v, p) ==
  LET a == AddrOfFee(v, p) IN
  /\ callback[v][p] = "balance"
  /\ row' = [row EXCEPT ![v][a].conf = BalanceVerdict(v, a)]
  /\ SetCallback(v, p, "notify")
  /\ UNCHANGED <<feeOn, bridge, status, paying, cache, outputs, req, notif,
                 flow, faults>>

\* notify_spark_deposit: the gateway answers 200 and spawns the task.
CallbackNotifyGateway(v, p) ==
  LET a == AddrOfFee(v, p) IN
  /\ callback[v][p] = "notify"
  /\ SetCallback(v, p, "done")
  /\ notif' = [notif EXCEPT ![v][a] = "status"]
  /\ UNCHANGED <<feeOn, tables, outputs, req, flow, faults>>

\* Any `?` of the callback; the indexer does not repeat it.
CallbackErr(v, p) ==
  /\ callback[v][p] \in {"watched", "balance", "notify"}
  /\ Fault
  /\ SetCallback(v, p, "failed")
  /\ UNCHANGED <<feeOn, tables, outputs, req, notif, flow>>

-----------------------------------------------------------------------------
(* notify_spark_deposit: the spawned task at the gateway.                  *)

SetNotif(v, a, x) == notif' = [notif EXCEPT ![v][a] = x]

\* Bug: the check uses the column as it was before the task's own write.
UpdateStatusStaleCheck(v, a) ==
  /\ notif[v][a] = "status"
  /\ status' = [status EXCEPT ![a][v] = row[v][a].conf]
  /\ SetNotif(v, a, IF \A w \in Verifiers : status[a][w] = "Confirmed"
                      THEN "send" ELSE "done")
  /\ UNCHANGED <<feeOn, bridge, paying, cache, row, outputs, req, callback,
                 flow, faults>>

\* update_confirmation_status_by_deposit_address, in one transaction.
UpdateConfirmationStatus(v, a) ==
  /\ notif[v][a] = "status"
  /\ status' = [status EXCEPT ![a][v] = row[v][a].conf]
  /\ SetNotif(v, a, "check")
  /\ UNCHANGED <<feeOn, bridge, paying, cache, row, outputs, req, callback,
                 flow, faults>>

\* Bug: the task only looks at the verdict it brought.
OwnVerdictConfirmed(a) == \E v \in Verifiers : status[a][v] = "Confirmed"

AllVerifiersConfirmed(a) == \A v \in Verifiers : status[a][v] = "Confirmed"

CheckAllVerifiersConfirmed(v, a) ==
  /\ notif[v][a] = "check"
  /\ SetNotif(v, a, IF AllVerifiersConfirmed(a) THEN "send" ELSE "done")
  /\ UNCHANGED <<feeOn, tables, outputs, req, callback, flow, faults>>

NotifySendExitSpark(v, a) ==
  /\ notif[v][a] = "send"
  /\ StartFlow(a, v)
  /\ SetNotif(v, a, "done")
  /\ UNCHANGED <<feeOn, tables, outputs, req, callback, faults>>

\* Any `?` of the spawned task, whose result nobody reads.
NotifyErr(v, a) ==
  /\ notif[v][a] \in {"status", "check", "send"}
  /\ Fault
  /\ SetNotif(v, a, "failed")
  /\ UNCHANGED <<feeOn, tables, outputs, req, callback, flow>>

-----------------------------------------------------------------------------
(* exit_spark_flow, up to the selection of UTXOs.                          *)

\* get_row_by_deposit_address: the bridge address as it is now.
FlowReadExitAddress(a, k) ==
  /\ flow[a][k].pc = "read"
  /\ flow' = [flow EXCEPT ![a][k].pc = "pay", ![a][k].to = bridge[a]]
  /\ UNCHANGED <<feeOn, tables, outputs, req, callback, notif, faults>>

\* get_paying_utxo_by_btc_exit_address: any row with that exit address.
FlowGetPayingUtxo(a, k) ==
  LET found == {p \in Payings : paying[p] = flow[a][k].to} IN
  /\ flow[a][k].pc = "pay"
  /\ \/ /\ found = {}
        /\ flow' = [flow EXCEPT ![a][k].pc = "failed"]
     \/ \E p \in found :
          flow' = [flow EXCEPT ![a][k].pc = "handed", ![a][k].paying = p]
  /\ UNCHANGED <<feeOn, tables, outputs, req, callback, notif, faults>>

-----------------------------------------------------------------------------
VerifySparkDeposit(r) ==
  \/ InsertPayingUtxo(r)
  \/ ReadCachedToken(r)
  \/ \E token \in Tokens : RebuildWruneMetadata(r, token)
  \/ JoinWatchReplies(r)
  \/ SetConfirmationStatus(r)
  \/ SendExitSpark(r)

WatchSparkDeposit(r, v) ==
  \/ InsertDepositAddrInfo(r, v)
  \/ WatchBtcFee(r, v)
  \/ \E s \in Verdicts : VerifyTransfer(r, v, s)
  \/ VerifyBalance(r, v)

FeeCallback(v, p) == CallbackVerifyBalance(v, p) \/ CallbackNotifyGateway(v, p)

NotifySparkDeposit(v, a) ==
  \/ UpdateConfirmationStatus(v, a)
  \/ CheckAllVerifiersConfirmed(v, a)
  \/ NotifySendExitSpark(v, a)

ExitSparkFlow(a, k) == FlowReadExitAddress(a, k) \/ FlowGetPayingUtxo(a, k)

Next ==
  \/ \E a \in Addrs, kind \in {"exact", "other"} : SendTokens(a, kind)
  \/ \E r \in Requests, a \in Addrs, e \in Exits, p \in Payings, f \in Fees \cup {None} :
       UpdateBridgeAddress(r, a, e, p, f)
  \/ \E r \in Requests : VerifySparkDeposit(r) \/ RequestErr(r)
  \/ \E r \in Requests, v \in Verifiers : WatchSparkDeposit(r, v) \/ WatchErr(r, v)
  \/ \E v \in Verifiers, p \in BtcFees, s \in Verdicts : FeeNotification(v, p, s)
  \/ \E v \in Verifiers, p \in BtcFees : FeeCallback(v, p) \/ CallbackErr(v, p)
  \/ \E v \in Verifiers, a \in Addrs : NotifySparkDeposit(v, a) \/ NotifyErr(v, a)
  \/ \E a \in Addrs, k \in Senders : ExitSparkFlow(a, k)

Spec == Init /\ [][Next]_vars

-----------------------------------------------------------------------------
(* Properties.                                                             *)

Started(a, k) == flow[a][k].pc # "none"

\* What a verifier's row says about a deposit.
Decision(v, a) == IF row[v][a].conf \in Verdicts THEN row[v][a].conf ELSE "none"

\* The exit direction implements the approval contract: verify_spark_deposit
\* of the verifier decides once per address, in its handler or in the fee
\* callback, and an exit flow starts only when every verifier's own row says
\* Confirmed, although the gateway only sees answers and notifications that
\* overwrite each other.
Contract == INSTANCE Approval WITH
  Deposits <- Addrs, Payouts <- Senders,
  verdict <- [v \in Verifiers |-> [a \in Addrs |-> Decision(v, a)]],
  paid <- {x \in Addrs \X Senders : Started(x[1], x[2])}
ExitsApproved == Contract!Spec

\* A fee paid on Bitcoin is settled before the deposit is looked at: an exit
\* flow only runs with the fee confirmed by every verifier. (For a fee paid on
\* Spark the handler goes on after a failed payment, and this does not hold.)
BtcFeeSettled ==
  \A a \in Addrs, k \in Senders, v \in Verifiers :
    feeOn /\ Started(a, k) /\ row[v][a].fee \in BtcFees => row[v][a].feeStatus = "Confirmed"

\* Without the fee callback in between, the verifiers' unique keys admit one
\* request per address, so the deposit is paid out at most once: two exit flows
\* of one address only stem from two verifiers' fee callbacks.
OneExitWithoutCallback ==
  \A a \in Addrs, k, l \in Senders :
    Started(a, k) /\ Started(a, l) /\ k # l => k \in Verifiers /\ l \in Verifiers

\* The exit flow misses its paying input only when a later request for the
\* address overwrote the exit address and was then refused its own input.
PayingInputFound ==
  \A a \in Addrs, k \in Senders :
    flow[a][k].pc = "pay" =>
      \/ \E p \in Payings : paying[p] = flow[a][k].to
      \/ \E r \in Requests : /\ req[r].addr = a /\ req[r].to = flow[a][k].to
                             /\ req[r].pc \in {"paying", "failed"}

\* No wake-up is lost: when a request has recorded its answers, the column
\* says Confirmed for every verifier and no task is left that could act on it,
\* the exit has been started. Each task writes, then reads the row again, so
\* the one that writes last sees all the verdicts.
NoLostExit ==
  \A a \in Addrs :
    (/\ \A v \in Verifiers : status[a][v] = "Confirmed" /\ notif[v][a] \in {"idle", "done"}
     /\ \A r \in Requests : req[r].addr = a => req[r].pc \in {"done", "failed"}
     /\ faults = 0)
    => \E k \in Senders : Started(a, k)

-----------------------------------------------------------------------------
(* The inductive invariant behind the properties above.                    *)

\* The answers of a verifier whose handler owns the row of the address.
Claimed == Replies \ {"none", "err"}
AllRowsConfirmed(a) == \A v \in Verifiers : row[v][a].conf = "Confirmed"

\* A request names an address before it asks any verifier, and goes on only
\* with the answers that allow it.
RequestSound ==
  \A r \in Requests :
    /\ req[r].pc = "idle" => \A v \in Verifiers : req[r].reply[v] = "none"
    /\ req[r].pc # "idle" => /\ req[r].addr \in Addrs /\ req[r].to \in Exits
                             /\ req[r].paying \in Payings /\ bridge[req[r].addr] # None
    /\ req[r].pc \in {"set_status", "send"} =>
         \A v \in Verifiers : req[r].reply[v] \in Final \ {"err"}
    /\ req[r].pc = "send" => \A v \in Verifiers : req[r].reply[v] = "Confirmed"

\* The handler of a request has a row of its own, undecided until it answers
\* itself; it leaves a Bitcoin fee to the callback.
ClaimSound ==
  \A r \in Requests, v \in Verifiers :
    LET d == row[v][req[r].addr] IN
    req[r].reply[v] \in Claimed =>
      /\ d.conf # "absent" /\ d.fee = req[r].fee
      /\ req[r].reply[v] = "inserted" =>
           d.conf = "Pending" /\ (d.fee \in BtcFees => callback[v][d.fee] = "none")
      /\ req[r].reply[v] = "fee_checked" => d.conf = "Pending" /\ d.fee \in SparkFees
      /\ req[r].reply[v] \in Verdicts =>
           d.conf = req[r].reply[v] /\ (feeOn => d.fee \notin BtcFees)

\* The primary key admits one request per address and verifier.
ClaimUnique ==
  \A r, q \in Requests, v \in Verifiers :
    /\ req[r].reply[v] \in Claimed /\ req[q].reply[v] \in Claimed
    /\ req[r].addr = req[q].addr
    => r = q

\* A fee payment is used once, and a decided deposit has its Bitcoin fee.
RowSound ==
  \A v \in Verifiers, a \in Addrs :
    /\ IF row[v][a].conf = "absent" THEN row[v][a].fee = None ELSE bridge[a] # None
    /\ feeOn /\ row[v][a].conf \in Verdicts /\ row[v][a].fee \in BtcFees =>
         row[v][a].feeStatus = "Confirmed"
    /\ \A b \in Addrs : row[v][a].fee = row[v][b].fee /\ row[v][a].fee # None => a = b

\* A fee callback is about a row with that fee, at the stage of the callback.
CallbackSound ==
  \A v \in Verifiers, p \in BtcFees :
    callback[v][p] # "none" =>
      /\ feeOn
      /\ \E a \in Addrs :
           /\ row[v][a].fee = p
           /\ callback[v][p] \in {"watched", "balance"} => row[v][a].conf = "Pending"
           /\ callback[v][p] = "balance" => row[v][a].feeStatus = "Confirmed"
           /\ callback[v][p] = "notify" => row[v][a].conf \in Verdicts

\* A notification follows a decision in the callback of a Bitcoin fee.
NotifSound ==
  \A v \in Verifiers, a \in Addrs :
    /\ notif[v][a] # "idle" => /\ feeOn /\ row[v][a].fee \in BtcFees
                               /\ row[v][a].conf \in Verdicts
    /\ notif[v][a] = "send" => AllRowsConfirmed(a)

\* The indexer calls once, so a deposit is notified once.
NotifOnce ==
  \A v \in Verifiers, a \in Addrs :
    notif[v][a] # "idle" => callback[v][row[v][a].fee] = "done"

\* The gateway's column says Confirmed only where the verifier's row does.
StatusSound ==
  \A a \in Addrs, v \in Verifiers :
    status[a][v] = "Confirmed" => row[v][a].conf = "Confirmed"

\* A flow is started by a request all verifiers confirmed, or by a notification.
StartSound ==
  \A a \in Addrs, k \in Senders :
    Started(a, k) =>
      /\ AllRowsConfirmed(a)
      /\ k \in Requests => /\ req[k].pc = "done" /\ req[k].addr = a
                           /\ \A v \in Verifiers : req[k].reply[v] = "Confirmed"
      /\ k \in Verifiers => notif[k][a] # "idle"

\* Whoever set the exit address e of a stores its paying input next, or fails.
PayingOf(a, e) ==
  \/ \E p \in Payings : paying[p] = e
  \/ \E r \in Requests : /\ req[r].addr = a /\ req[r].to = e
                         /\ req[r].pc \in {"paying", "failed"}
PayingKept ==
  \A a \in Addrs :
    /\ bridge[a] # None => PayingOf(a, bridge[a])
    /\ \A k \in Senders :
         flow[a][k].pc = "pay" => flow[a][k].to # None /\ PayingOf(a, flow[a][k].to)

\* Somebody is on the way to start the exit of a confirmed address.
WakeUp ==
  \A a \in Addrs :
    faults = 0 /\ AllVerifiersConfirmed(a) =>
      \/ \E k \in Senders : Started(a, k)
      \/ \E v \in Verifiers : notif[v][a] \in {"check", "send"}
      \/ \E r \in Requests : req[r].addr = a /\ req[r].pc = "send"

IInv ==
  /\ TypeOK /\ RequestSound /\ ClaimSound /\ ClaimUnique /\ RowSound /\ CallbackSound
  /\ NotifSound /\ NotifOnce /\ StatusSound /\ StartSound /\ PayingKept /\ WakeUp
=============================================================================
