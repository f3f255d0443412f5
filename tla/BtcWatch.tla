------------------------------ MODULE BtcWatch ------------------------------
(***************************************************************************)
(* One verifier and its Bitcoin indexer: the verifier's handler for a      *)
(* runes deposit stores a row and asks the indexer to watch the fee        *)
(* payment or the deposit; the indexer's loop looks every pending request  *)
(* up, stores its verdict and calls the verifier back; the verifier's      *)
(* callback handler goes on to watch the deposit, or tells the gateway.    *)
(*   btc_indexer/crates/indexer/src/{indexer,callback_client}.rs           *)
(*   btc_indexer/crates/indexer_client/src/clients/{titan,maestro}         *)
(*   btc_indexer/crates/server/src/handlers/watch.rs                       *)
(*   verifier/crates/server/src/handlers/{watch_runes_deposit,             *)
(*     notify_runes_deposit}.rs                                            *)
(* The chain is external: blocks are mined, and at most Delta of them are  *)
(* replaced by a longer branch. The address an outpoint pays to is not     *)
(* part of the state, because no handler compares it.                      *)
(***************************************************************************)
EXTENDS Naturals

CONSTANTS
  Deposits,    \* runes deposits, each with its own outpoint and nonce
  Fees,        \* outpoints of fee payments
  FeeOf,       \* the fee outpoint a deposit's request may name, or None
  Delta,       \* confirmation_block_height_delta
  MaxTip,      \* bound: the height of the chain
  MaxFaults,   \* bound: injected errors
  None

ASSUME ConstantsAssumption ==
  /\ FeeOf \in [Deposits -> Fees \cup {None}]
  /\ \A c, d \in Deposits : FeeOf[c] = FeeOf[d] => c = d \/ FeeOf[c] = None
  /\ Deposits \cap Fees = {}
  /\ Delta \in Nat \ {0} /\ MaxTip \in Nat /\ MaxFaults \in Nat
  /\ None \notin Deposits \cup Fees

Outs == Deposits \cup Fees
Verdicts == {"Confirmed", "Failed"}

VARIABLES
  client,      \* which indexer_client is configured: "titan" or "maestro"
  feeOn,       \* whether the verifier charges a fee
  tip,         \* height of the chain
  seen,        \* what the chain knows of an outpoint
  height,      \* the block of a mined outpoint
  ok,          \* whether the outpoint carries the amount it was watched for
  wr,          \* btc_indexer.requests: status of the watch request
  late,        \* whether validation_timeout has passed since created_at
  pass,        \* process_watch_requests
  row,         \* verifier.deposit_address
  handler,     \* watch_runes_deposit of each deposit
  told,        \* what the gateway was told
  faults

chain == <<tip, seen, height>>
config == <<client, feeOn, ok>>
vars == <<config, chain, wr, late, pass, row, handler, told, faults>>

Idle == [pc |-> "sleep", todo |-> {}, cur |-> None, tip |-> 0,
         verdict |-> "Pending", sats |-> FALSE]

PassType ==
  [pc : {"sleep", "next", "lookup", "update", "send", "watch", "notify"},
   todo : SUBSET Outs, cur : Outs \cup {None}, tip : 0..MaxTip,
   verdict : {"Pending"} \cup Verdicts, sats : BOOLEAN]
RowType == [conf : {"absent", "Pending"} \cup Verdicts, fee : {"Pending"} \cup Verdicts,
            mode : {"none", "btc", "spark"}]

TypeOK ==
  /\ client \in {"titan", "maestro"} /\ feeOn \in BOOLEAN /\ ok \in [Outs -> BOOLEAN]
  /\ tip \in 0..MaxTip
  /\ seen \in [Outs -> {"unseen", "mempool", "mined"}]
  /\ height \in [Outs -> 0..MaxTip]
  /\ wr \in [Outs -> {"absent", "Pending"} \cup Verdicts]
  /\ late \in [Outs -> BOOLEAN]
  /\ pass \in PassType
  /\ row \in [Deposits -> RowType]
  /\ handler \in [Deposits -> {"idle", "call", "watch", "done", "failed"}]
  /\ told \in [Deposits -> {"none"} \cup Verdicts]
  /\ faults \in 0..MaxFaults

Init ==
  /\ client \in {"titan", "maestro"} /\ feeOn \in BOOLEAN /\ ok \in [Outs -> BOOLEAN]
  /\ tip = 0
  /\ seen = [o \in Outs |-> "unseen"]
  /\ height = [o \in Outs |-> 0]
  /\ wr = [o \in Outs |-> "absent"]
  /\ late = [o \in Outs |-> FALSE]
  /\ pass = Idle
  /\ row = [d \in Deposits |-> [conf |-> "absent", fee |-> "Pending", mode |-> "none"]]
  /\ handler = [d \in Deposits |-> "idle"]
  /\ told = [d \in Deposits |-> "none"]
  /\ faults = 0

Fault == /\ faults < MaxFaults
         /\ faults' = faults + 1

-----------------------------------------------------------------------------
(* The chain and the clock (external).                                     *)

Broadcast(o) ==
  /\ seen[o] = "unseen"
  /\ seen' = [seen EXCEPT ![o] = "mempool"]
  /\ UNCHANGED <<config, tip, height, wr, late, pass, row, handler, told, faults>>

\* A block with any of the waiting transactions.
MineBlock(mined) ==
  /\ tip < MaxTip
  /\ \A o \in mined : seen[o] = "mempool"
  /\ tip' = tip + 1
  /\ seen' = [o \in Outs |-> IF o \in mined THEN "mined" ELSE seen[o]]
  /\ height' = [o \in Outs |-> IF o \in mined THEN tip + 1 ELSE height[o]]
  /\ UNCHANGED <<config, wr, late, pass, row, handler, told, faults>>

\* The last k blocks are replaced by k + 1 others; their transactions return
\* to the mempool.
Reorg(k) ==
  /\ k <= tip /\ tip < MaxTip
  /\ tip' = tip + 1
  /\ seen' = [o \in Outs |-> IF seen[o] = "mined" /\ height[o] > tip - k
                               THEN "mempool" ELSE seen[o]]
  /\ height' = [o \in Outs |-> IF height[o] > tip - k THEN 0 ELSE height[o]]
  /\ UNCHANGED <<config, wr, late, pass, row, handler, told, faults>>

\* validation_timeout_millis passes since the request was created.
Expire(o) ==
  /\ wr[o] = "Pending" /\ ~late[o]
  /\ late' = [late EXCEPT ![o] = TRUE]
  /\ UNCHANGED <<config, chain, wr, pass, row, handler, told, faults>>

-----------------------------------------------------------------------------
(* watch_runes_deposit at the verifier.                                    *)

\* insert_watch_request at the indexer.
AddRequest(o) == wr' = [wr EXCEPT ![o] = "Pending"]

\* The row is inserted (once per nonce); without a configured fee its fee
\* status starts as Confirmed.
InsertDepositAddrInfo(d, m) ==
  /\ handler[d] = "idle"
  /\ (m = "none") <=> ~feeOn
  /\ m = "btc" => FeeOf[d] # None
  /\ row' = [row EXCEPT ![d] = [conf |-> "Pending", mode |-> m,
                                fee |-> IF feeOn THEN "Pending" ELSE "Confirmed"]]
  /\ handler' = [handler EXCEPT ![d] = IF m = "none" THEN "watch" ELSE "call"]
  /\ UNCHANGED <<config, chain, wr, late, pass, told, faults>>

\* Bug: the deposit is watched at once, beside its fee.
WatchBtcFeeAndDeposit(d) ==
  /\ handler[d] = "call" /\ row[d].mode = "btc"
  /\ wr' = [wr EXCEPT ![FeeOf[d]] = "Pending", ![d] = "Pending"]
  /\ handler' = [handler EXCEPT ![d] = "done"]
  /\ UNCHANGED <<config, chain, late, pass, row, told, faults>>

\* A fee paid on Bitcoin is watched first, by a request without a rune.
WatchBtcFee(d) ==
  /\ handler[d] = "call" /\ row[d].mode = "btc"
  /\ AddRequest(FeeOf[d])
  /\ handler' = [handler EXCEPT ![d] = "done"]
  /\ UNCHANGED <<config, chain, late, pass, row, told, faults>>

\* A fee paid on Spark is verified at once; the row is then read by its
\* confirmed payment, so a failed one ends the request.
VerifySparkFee(d, s) ==
  /\ handler[d] = "call" /\ row[d].mode = "spark"
  /\ row' = [row EXCEPT ![d].fee = s]
  /\ handler' = [handler EXCEPT ![d] = IF s = "Confirmed" THEN "watch" ELSE "failed"]
  /\ UNCHANGED <<config, chain, wr, late, pass, told, faults>>

WatchDeposit(d) ==
  /\ handler[d] = "watch"
  /\ AddRequest(d)
  /\ handler' = [handler EXCEPT ![d] = "done"]
  /\ UNCHANGED <<config, chain, late, pass, row, told, faults>>

\* Any `?` of the handler: the row stays, nothing watches it, and the primary
\* key refuses a second attempt.
HandlerErr(d) ==
  /\ handler[d] \in {"call", "watch"}
  /\ Fault
  /\ handler' = [handler EXCEPT ![d] = "failed"]
  /\ UNCHANGED <<config, chain, wr, late, pass, row, told>>

-----------------------------------------------------------------------------
(* process_watch_requests at the indexer.                                  *)

\* Bug: an error ends run's loop.
EndLoop == pass' = [Idle EXCEPT !.pc = "ended"]

\* run logs an error of the pass and sleeps.
EndPass == pass' = Idle
Continue == pass' = [Idle EXCEPT !.pc = "next", !.todo = pass.todo]

\* get_all_unprocessed_watch_requests: in no particular order.
StartPass ==
  /\ pass.pc = "sleep"
  /\ pass' = [Idle EXCEPT !.pc = "next", !.todo = {o \in Outs : wr[o] = "Pending"}]
  /\ UNCHANGED <<config, chain, wr, late, row, handler, told, faults>>

\* get_blockchain_info for the next request, or the end of the loop.
NextRequest ==
  /\ pass.pc = "next"
  /\ \/ pass.todo = {} /\ EndPass
     \/ \E o \in pass.todo :
          pass' = [pass EXCEPT !.pc = "lookup", !.todo = @ \ {o}, !.cur = o, !.tip = tip]
  /\ UNCHANGED <<config, chain, wr, late, row, handler, told, faults>>

\* Titan fails on a transaction without a block; Maestro on an unknown one.
LookupFails(o) ==
  \/ client = "titan" /\ seen[o] = "mempool"
  \/ client = "maestro" /\ seen[o] = "unseen"

\* An error of the client ends the pass: the requests behind it wait.
LookupErr ==
  /\ pass.pc = "lookup"
  /\ LookupFails(pass.cur)
  /\ EndPass
  /\ UNCHANGED <<config, chain, wr, late, row, handler, told, faults>>

\* Titan answers None for an unknown transaction and for a failed request;
\* the request then fails once it is late.
LookupNone ==
  /\ pass.pc = "lookup"
  /\ client = "titan"
  /\ \/ seen[pass.cur] = "unseen" /\ UNCHANGED faults
     \/ seen[pass.cur] # "unseen" /\ Fault
  /\ IF late[pass.cur]
       THEN pass' = [pass EXCEPT !.pc = "update", !.verdict = "Failed", !.sats = FALSE]
       ELSE Continue
  /\ UNCHANGED <<config, chain, wr, late, row, handler, told>>

\* Bug: more than Delta blocks are asked for.
OneMoreConfirmation(o) ==
  /\ seen[o] = "mined"
  /\ pass.tip > height[o] + Delta

\* Bug: the confirmation depth is not looked at.
MinedIsEnough(o) == seen[o] = "mined"

\* tip.saturating_sub(height) >= confirmation_block_height_delta, with the tip
\* read before the outpoint; Maestro reports a mempool transaction with the
\* height of the next block.
Confirmations(o) ==
  /\ seen[o] = "mined"
  /\ pass.tip >= height[o] + Delta

\* validate_deposit_transaction.
LookupSome ==
  LET o == pass.cur IN
  /\ pass.pc = "lookup"
  /\ seen[o] = "mined" \/ (client = "maestro" /\ seen[o] = "mempool")
  /\ IF Confirmations(o)
       THEN pass' = [pass EXCEPT !.pc = "update", !.sats = TRUE,
                       !.verdict = IF ok[o] THEN "Confirmed" ELSE "Failed"]
       ELSE Continue
  /\ UNCHANGED <<config, chain, wr, late, row, handler, told, faults>>

\* update_watch_request_status, before the callback.
UpdateWatchRequestStatus ==
  /\ pass.pc = "update"
  /\ wr' = [wr EXCEPT ![pass.cur] = pass.verdict]
  /\ pass' = [pass EXCEPT !.pc = "send"]
  /\ UNCHANGED <<config, chain, late, row, handler, told, faults>>

\* Any error of the pass, or the indexer stops and starts again. A verdict
\* already stored is not looked at again.
PassErr ==
  /\ pass.pc # "sleep"
  /\ Fault
  /\ EndPass
  /\ UNCHANGED <<config, chain, wr, late, row, handler, told>>

-----------------------------------------------------------------------------
(* The callback, handled by notify_runes_deposit at the verifier while the *)
(* indexer waits for the answer.                                           *)

\* A verdict without the sats of the output (a timeout) is refused with a
\* validation error, which ends the pass.
CallbackRefused ==
  /\ pass.pc = "send" /\ ~pass.sats
  /\ EndPass
  /\ UNCHANGED <<config, chain, wr, late, row, handler, told, faults>>

\* get_deposit_addr_info_by_confirmed_fee_payment: the row of the payment.
PayerOf(f) == CHOOSE d \in Deposits : FeeOf[d] = f

\* handle_fee_notification: the fee's status, and the row by its confirmed
\* payment; a failed fee is an error.
FeeCallback ==
  LET d == PayerOf(pass.cur) IN
  /\ pass.pc = "send" /\ pass.sats /\ pass.cur \in Fees
  /\ row' = [row EXCEPT ![d].fee = pass.verdict]
  /\ IF pass.verdict = "Confirmed" THEN pass' = [pass EXCEPT !.pc = "watch"] ELSE EndPass
  /\ UNCHANGED <<config, chain, wr, late, handler, told, faults>>

FeeCallbackWatch ==
  LET d == PayerOf(pass.cur) IN
  /\ pass.pc = "watch"
  /\ AddRequest(d)
  /\ Continue
  /\ UNCHANGED <<config, chain, late, row, handler, told, faults>>

\* set_confirmation_status_by_out_point, for rows whose fee is confirmed only.
DepositCallback ==
  LET d == pass.cur IN
  /\ pass.pc = "send" /\ pass.sats /\ pass.cur \in Deposits
  /\ row' = IF row[d].fee = "Confirmed" THEN [row EXCEPT ![d].conf = pass.verdict] ELSE row
  /\ pass' = [pass EXCEPT !.pc = "notify"]
  /\ UNCHANGED <<config, chain, wr, late, handler, told, faults>>

\* Bug: only confirmed deposits are passed on.
NotifyConfirmed ==
  /\ pass.pc = "notify"
  /\ told' = IF pass.verdict = "Confirmed" THEN [told EXCEPT ![pass.cur] = "Confirmed"] ELSE told
  /\ Continue
  /\ UNCHANGED <<config, chain, wr, late, row, handler, faults>>

\* notify_runes_deposit of the gateway, whether or not a row was updated.
NotifyGateway ==
  /\ pass.pc = "notify"
  /\ told' = [told EXCEPT ![pass.cur] = pass.verdict]
  /\ Continue
  /\ UNCHANGED <<config, chain, wr, late, row, handler, faults>>

-----------------------------------------------------------------------------
Chain ==
  \/ \E o \in Outs : Broadcast(o) \/ Expire(o)
  \/ \E mined \in SUBSET Outs : MineBlock(mined)
  \/ \E k \in 1..Delta : Reorg(k)

WatchRunesDeposit(d) ==
  \/ \E m \in {"none", "btc", "spark"} : InsertDepositAddrInfo(d, m)
  \/ WatchBtcFee(d)
  \/ \E s \in Verdicts : VerifySparkFee(d, s)
  \/ WatchDeposit(d)

Indexer ==
  \/ StartPass \/ NextRequest
  \/ LookupErr \/ LookupNone \/ LookupSome
  \/ UpdateWatchRequestStatus
  \/ CallbackRefused
  \/ FeeCallback \/ FeeCallbackWatch
  \/ DepositCallback \/ NotifyGateway

Next ==
  \/ Chain
  \/ \E d \in Deposits : WatchRunesDeposit(d) \/ HandlerErr(d)
  \/ Indexer
  \/ PassErr

Spec == Init /\ [][Next]_vars

\* The indexer's loop runs for ever (an error is logged and the loop goes on).
FairSpec == Spec /\ WF_vars(Indexer)

-----------------------------------------------------------------------------
(* Properties.                                                             *)

\* A verdict that reaches the gateway is right for good: Confirmed means the
\* deposit is mined with the promised amount, its fee was paid, and no
\* reorganisation of up to Delta blocks takes either back; Failed means the
\* amount is wrong (never that a lookup failed or timed out).
ReportSound ==
  \A d \in Deposits :
    /\ told[d] = "Confirmed" =>
         /\ seen[d] = "mined" /\ ok[d]
         /\ row[d].fee = "Confirmed"
         /\ row[d].mode = "btc" => (seen[FeeOf[d]] = "mined" /\ ok[FeeOf[d]])
    /\ told[d] = "Failed" => ~ok[d]

\* notify_runes_deposit tells the gateway even when its UPDATE, which requires
\* a confirmed fee, hit no row: still, the verifier's row always says what the
\* gateway was told, because a deposit is only watched after its fee.
RowMatchesReport ==
  \A d \in Deposits : told[d] # "none" => row[d].conf = told[d]

\* The indexer stores a verdict before it calls back and never calls twice.
\* Without an error in between, what it stored reaches the gateway, or leads
\* to the deposit's own request; only a late request's failure is swallowed
\* by the verifier.
NoVerdictLost ==
  faults = 0 =>
    \A d \in Deposits :
      /\ (wr[d] \in Verdicts /\ pass.cur # d) =>
           told[d] = wr[d] \/ (wr[d] = "Failed" /\ late[d])
      /\ (row[d].mode = "btc" /\ wr[FeeOf[d]] = "Confirmed" /\ pass.cur # FeeOf[d]) =>
           wr[d] # "absent"

\* A deep deposit is reported: once its fee and itself are deep enough in the
\* chain the loop decides both requests in turn and the gateway is told,
\* unless an error swallowed a verdict, a request had timed out, or the
\* indexer's client keeps failing on another outpoint, which ends every pass.
Deep(o) == seen[o] = "mined" /\ tip >= height[o] + Delta
Ready(d) ==
  /\ handler[d] = "done" /\ Deep(d)
  /\ row[d].mode = "btc" => (Deep(FeeOf[d]) /\ ok[FeeOf[d]])
Lapsed == \E o \in Outs : wr[o] = "Failed" /\ late[o]
Blocked == \E o \in Outs : wr[o] = "Pending" /\ LookupFails(o)
DeepDepositReported ==
  \A d \in Deposits :
    Ready(d) ~> (told[d] # "none" \/ faults > 0 \/ Lapsed \/ Blocked)

-----------------------------------------------------------------------------
(* The inductive invariant behind the safety properties.                   *)

\* What the indexer says about an outpoint whose amount it has looked at.
Truth(o) == IF ok[o] THEN "Confirmed" ELSE "Failed"

\* A verdict stems from a deep outpoint, or from a request that was late.
VerdictSound ==
  IF pass.sats THEN Deep(pass.cur) /\ pass.verdict = Truth(pass.cur)
  ELSE pass.verdict = "Failed" /\ late[pass.cur]

\* The loop: the tip it read is not ahead of the chain, what it has still to do
\* is pending, and the request in hand is pending until its verdict is stored.
PassSound ==
  /\ pass.tip <= tip
  /\ \A o \in pass.todo : wr[o] = "Pending"
  /\ IF pass.pc \in {"sleep", "next"} THEN pass.cur = None
     ELSE pass.cur \in Outs \ pass.todo
  /\ pass.pc \in {"lookup", "update"} => wr[pass.cur] = "Pending"
  /\ pass.pc \in {"update", "send", "watch", "notify"} =>
       VerdictSound /\ pass.verdict \in Verdicts
  /\ pass.pc \in {"send", "watch", "notify"} => wr[pass.cur] = pass.verdict
  /\ pass.pc = "watch" =>
       /\ pass.sats /\ pass.cur \in Fees /\ pass.verdict = "Confirmed"
       /\ \A d \in Deposits : FeeOf[d] = pass.cur => row[d].fee = "Confirmed"
  /\ pass.pc = "notify" =>
       pass.sats /\ pass.cur \in Deposits /\ row[pass.cur].conf = pass.verdict

\* A deposit is watched only after its fee, and its handler has then ended.
FeeFirst ==
  \A d \in Deposits :
    /\ wr[d] # "absent" =>
         /\ handler[d] = "done" /\ row[d].fee = "Confirmed"
         /\ row[d].mode = "btc" => (Deep(FeeOf[d]) /\ ok[FeeOf[d]])
    /\ handler[d] = "watch" => row[d].fee = "Confirmed" /\ row[d].mode # "btc"
    /\ row[d].mode = "btc" => FeeOf[d] # None

\* A watched fee belongs to a deposit whose handler watched it.
FeeOwned ==
  \A f \in Fees : wr[f] # "absent" =>
    \E d \in Deposits : FeeOf[d] = f /\ row[d].mode = "btc" /\ handler[d] = "done"

ToldSound ==
  \A d \in Deposits : told[d] # "none" =>
    wr[d] # "absent" /\ Deep(d) /\ told[d] = Truth(d) /\ row[d].conf = told[d]

IInv == TypeOK /\ PassSound /\ FeeFirst /\ FeeOwned /\ ToldSound /\ NoVerdictLost
=============================================================================
