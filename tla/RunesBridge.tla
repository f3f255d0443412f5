---------------------------- MODULE RunesBridge ----------------------------
(***************************************************************************)
(* The gateway's Runes -> Spark direction: a bridge request for a deposit  *)
(* address is handed to every verifier, each verifier later notifies the   *)
(* gateway of its verdict on the outpoint, and the notification that finds *)
(* every verifier confirmed runs the bridge flow that creates the wRune    *)
(* token of the rune if needed and mints.                                  *)
(*                                                                         *)
(* Every database statement and every remote call of a handler is a step   *)
(* of its own, because the handlers of concurrent requests, the spawned    *)
(* notification tasks and the spawned flows interleave at each await.      *)
(*   gateway/crates/deposit_verification/src/aggregator.rs                 *)
(*   gateway/crates/flow_processor/src/routes/bridge_runes_flow.rs         *)
(*   gateway/crates/local_db_store/src/schemas/{deposit_address,           *)
(*     utxo_storage,user_identifier,dkg_share}.rs                          *)
(***************************************************************************)
EXTENDS Naturals

CONSTANTS
  Verifiers,   \* the configured verifiers
  Addrs,       \* issued Bitcoin deposit addresses (one fresh nonce each)
  Outpoints,   \* Bitcoin outpoints users may name in a bridge request
  Bridges,     \* Spark addresses users may ask the tokens to be sent to
  Requests,    \* bridge requests (POST /api/user/bridge-runes)
  Runes,       \* rune ids
  RuneOf,      \* the rune of each deposit address (user_identifier.rune_id)
  Shares,      \* finalized DKG shares, ordered by their id
  IssuedFor,   \* the rune each share already issues a token for, or None
  None,        \* SQL NULL / no row
  MaxFaults    \* bound: injected errors (a failing call, a lost response)

ASSUME ConstantsAssumption ==
  /\ Verifiers # {}
  /\ Shares \subseteq Nat
  /\ RuneOf \in [Addrs -> Runes]
  /\ IssuedFor \in [Shares -> Runes \cup {None}]
  /\ MaxFaults \in Nat
  /\ None \notin Addrs \cup Outpoints \cup Bridges \cup Shares \cup Runes

VARIABLES
  issued,      \* deposit_address: the addresses that have a row
  bridge,      \* deposit_address.bridge_address
  status,      \* deposit_address.confirmation_status
  utxoAddr,    \* utxo.btc_address (None: no row for the outpoint)
  utxoStatus,  \* utxo.status
  issuerOf,    \* user_identifier rows with is_issuer: share -> rune
  watch,       \* verifier.deposit_address: nonce (address) -> outpoint
  verdict,     \* what each verifier concluded about an outpoint
  tokens,      \* Spark: issuers whose Create transaction was committed
  req,         \* the bridge requests in flight
  task,        \* the notification task of each verifier and outpoint
  faults       \* errors injected so far

storage == <<issued, bridge, status, utxoAddr, utxoStatus, issuerOf>>
vars == <<storage, watch, verdict, tokens, req, task, faults>>

DepositStatus == {"Created", "WaitingForConfirmation", "Confirmed", "Failed"}
UtxoStatus == {"Pending", "Confirmed"}

ReqPC == {"idle", "read", "watch", "set_status", "insert_utxo", "done", "failed"}
TaskPC == {"idle", "sats", "get_utxo", "status", "check", "confirm",
           "flow", "issuer", "pick", "insert_issuer", "create", "reread", "mint",
           "done", "minted", "failed"}

ReqType == [pc : ReqPC, addr : Addrs \cup {None}, outpoint : Outpoints \cup {None},
            reply : [Verifiers -> {"none", "ok", "err"}]]
TaskType == [pc : TaskPC, addr : Addrs \cup {None}, share : Shares \cup {None},
             to : Bridges \cup {None}]

TypeOK ==
  /\ issued \subseteq Addrs
  /\ bridge \in [Addrs -> Bridges \cup {None}]
  /\ status \in [Addrs -> [Verifiers -> DepositStatus]]
  /\ utxoAddr \in [Outpoints -> Addrs \cup {None}]
  /\ utxoStatus \in [Outpoints -> UtxoStatus]
  /\ issuerOf \in [Shares -> Runes \cup {None}]
  /\ watch \in [Verifiers -> [Addrs -> Outpoints \cup {None}]]
  /\ verdict \in [Verifiers -> [Outpoints -> {"none", "Confirmed", "Failed"}]]
  /\ tokens \subseteq Shares
  /\ req \in [Requests -> ReqType]
  /\ task \in [Verifiers -> [Outpoints -> TaskType]]
  /\ faults \in 0..MaxFaults

(***************************************************************************)
(* Every address has been issued: its row is inserted with status Created  *)
(* for every verifier and without a bridge address. Earlier bridges may    *)
(* have left tokens behind (IssuedFor).                                    *)
(***************************************************************************)
Init ==
  /\ issued = Addrs
  /\ bridge = [a \in Addrs |-> None]
  /\ status = [a \in Addrs |-> [v \in Verifiers |-> "Created"]]
  /\ utxoAddr = [o \in Outpoints |-> None]
  /\ utxoStatus = [o \in Outpoints |-> "Pending"]
  /\ issuerOf = IssuedFor
  /\ watch = [v \in Verifiers |-> [a \in Addrs |-> None]]
  /\ verdict = [v \in Verifiers |-> [o \in Outpoints |-> "none"]]
  /\ tokens = {s \in Shares : IssuedFor[s] # None}
  /\ req = [r \in Requests |->
              [pc |-> "idle", addr |-> None, outpoint |-> None,
               reply |-> [v \in Verifiers |-> "none"]]]
  /\ task = [v \in Verifiers |-> [o \in Outpoints |->
              [pc |-> "idle", addr |-> None, share |-> None, to |-> None]]]
  /\ faults = 0

Fault == /\ faults < MaxFaults
         /\ faults' = faults + 1

-----------------------------------------------------------------------------
(* verify_runes_deposit: one bridge request.                               *)

ReqGoto(r, p) == req' = [req EXCEPT ![r].pc = p]

\* update_bridge_address_by_deposit_address: an UPDATE that does not check
\* whether a row was hit, and runs before anything about the request is known.
UpdateBridgeAddress(r, a, o, b) ==
  /\ req[r].pc = "idle"
  /\ req' = [req EXCEPT ![r].pc = "read", ![r].addr = a, ![r].outpoint = o]
  /\ bridge' = IF a \in issued THEN [bridge EXCEPT ![a] = b] ELSE bridge
  /\ UNCHANGED <<issued, status, utxoAddr, utxoStatus, issuerOf,
                 watch, verdict, tokens, task, faults>>

\* get_row_by_deposit_address and get_row_by_dkg_id; NotFound ends the request.
ReadDepositRow(r) ==
  /\ req[r].pc = "read"
  /\ ReqGoto(r, IF req[r].addr \in issued THEN "watch" ELSE "failed")
  /\ UNCHANGED <<storage, watch, verdict, tokens, task, faults>>

\* Bug: the verifier's table does not declare the outpoint UNIQUE.
NonceFree(v, a, o) == watch[v][a] = None

\* The verifier's INSERT fails on its primary key (the nonce of the address)
\* and on its UNIQUE outpoint.
WatchRowFree(v, a, o) ==
  /\ watch[v][a] = None
  /\ \A b \in Addrs : watch[v][b] # o

\* Verifier v handles the watch call of request r and answers.
WatchRunesDeposit(r, v) ==
  LET a == req[r].addr
      o == req[r].outpoint
  IN
  /\ req[r].pc = "watch"
  /\ req[r].reply[v] = "none"
  /\ IF WatchRowFree(v, a, o)
       THEN /\ watch' = [watch EXCEPT ![v][a] = o]
            /\ req' = [req EXCEPT ![r].reply[v] = "ok"]
       ELSE /\ req' = [req EXCEPT ![r].reply[v] = "err"]
            /\ UNCHANGED watch
  /\ UNCHANGED <<storage, verdict, tokens, task, faults>>

\* The call fails: it never reaches the verifier, or the verifier registers
\* the deposit and only its answer is lost.
WatchRunesDepositErr(r, v) ==
  LET a == req[r].addr
      o == req[r].outpoint
  IN
  /\ req[r].pc = "watch"
  /\ req[r].reply[v] = "none"
  /\ Fault
  /\ req' = [req EXCEPT ![r].reply[v] = "err"]
  /\ \/ UNCHANGED watch
     \/ /\ WatchRowFree(v, a, o)
        /\ watch' = [watch EXCEPT ![v][a] = o]
  /\ UNCHANGED <<storage, verdict, tokens, task>>

\* join_all collects every answer; one error fails the request, and no
\* verifier is told to stop watching.
JoinWatchReplies(r) ==
  /\ req[r].pc = "watch"
  /\ \A v \in Verifiers : req[r].reply[v] # "none"
  /\ ReqGoto(r, IF \A v \in Verifiers : req[r].reply[v] = "ok"
                  THEN "set_status" ELSE "failed")
  /\ UNCHANGED <<storage, watch, verdict, tokens, task, faults>>

\* Bug: the column is filled with the status of the UTXO table.
SetPendingStatus(r) ==
  LET a == req[r].addr IN
  /\ req[r].pc = "set_status"
  /\ status' = IF a \in issued
                 THEN [status EXCEPT ![a] = [v \in Verifiers |-> "Pending"]]
                 ELSE status
  /\ ReqGoto(r, "insert_utxo")
  /\ UNCHANGED <<issued, bridge, utxoAddr, utxoStatus, issuerOf,
                 watch, verdict, tokens, task, faults>>

\* set_confirmation_status_by_deposit_address overwrites the whole column.
SetConfirmationStatus(r) ==
  LET a == req[r].addr IN
  /\ req[r].pc = "set_status"
  /\ status' = IF a \in issued
                 THEN [status EXCEPT ![a] =
                         [v \in Verifiers |-> "WaitingForConfirmation"]]
                 ELSE status
  /\ ReqGoto(r, "insert_utxo")
  /\ UNCHANGED <<issued, bridge, utxoAddr, utxoStatus, issuerOf,
                 watch, verdict, tokens, task, faults>>

\* insert_utxo: an upsert on the outpoint that overwrites address and status;
\* the foreign key refuses it when the deposit row was deleted meanwhile.
InsertUtxo(r) ==
  LET a == req[r].addr
      o == req[r].outpoint
  IN
  /\ req[r].pc = "insert_utxo"
  /\ IF a \in issued
       THEN /\ utxoAddr' = [utxoAddr EXCEPT ![o] = a]
            /\ utxoStatus' = [utxoStatus EXCEPT ![o] = "Pending"]
            /\ ReqGoto(r, "done")
       ELSE /\ ReqGoto(r, "failed")
            /\ UNCHANGED <<utxoAddr, utxoStatus>>
  /\ UNCHANGED <<issued, bridge, status, issuerOf,
                 watch, verdict, tokens, task, faults>>

\* Any `?` of the handler: a database error, or the process stops.
RequestErr(r) ==
  /\ req[r].pc \in {"read", "watch", "set_status", "insert_utxo"}
  /\ Fault
  /\ ReqGoto(r, "failed")
  /\ UNCHANGED <<storage, watch, verdict, tokens, task>>

\* Bug: the DELETE only looks for a confirmed UTXO.
DeleteUnconfirmedDeposit(a) ==
  /\ a \in issued
  /\ \A o \in Outpoints : ~(utxoAddr[o] = a /\ utxoStatus[o] = "Confirmed")
  /\ issued' = issued \ {a}
  /\ UNCHANGED <<bridge, status, utxoAddr, utxoStatus, issuerOf,
                 watch, verdict, tokens, req, task, faults>>

\* delete_pending_deposit: one DELETE guarded by NOT EXISTS (utxo row).
DeletePendingDeposit(a) ==
  /\ a \in issued
  /\ \A o \in Outpoints : utxoAddr[o] # a
  /\ issued' = issued \ {a}
  /\ UNCHANGED <<bridge, status, utxoAddr, utxoStatus, issuerOf,
                 watch, verdict, tokens, req, task, faults>>

-----------------------------------------------------------------------------
(* notify_runes_deposit: one spawned task per notification.                *)

TaskGoto(v, o, p) == task' = [task EXCEPT ![v][o].pc = p]

\* Verifier v settles the deposit it watches on outpoint o and posts its
\* verdict once; the gateway spawns the task. The call may also be lost.
NotifyRunesDeposit(v, o, s) ==
  /\ \E a \in Addrs : watch[v][a] = o
  /\ verdict[v][o] = "none"
  /\ verdict' = [verdict EXCEPT ![v][o] = s]
  /\ \/ /\ TaskGoto(v, o, "sats")
        /\ UNCHANGED faults
     \/ /\ Fault
        /\ TaskGoto(v, o, "failed")
  /\ UNCHANGED <<storage, watch, tokens, req>>

\* update_sats_fee_amount: NotFound while the outpoint has no row, and the
\* notification is dropped (the handler already answered 200).
UpdateSatsFeeAmount(v, o) ==
  /\ task[v][o].pc = "sats"
  /\ TaskGoto(v, o, IF utxoAddr[o] # None THEN "get_utxo" ELSE "failed")
  /\ UNCHANGED <<storage, watch, verdict, tokens, req, faults>>

GetUtxo(v, o) ==
  /\ task[v][o].pc = "get_utxo"
  /\ task' = [task EXCEPT ![v][o].pc = "status", ![v][o].addr = utxoAddr[o]]
  /\ UNCHANGED <<storage, watch, verdict, tokens, req, faults>>

\* Bug: the map is rebuilt with the notifying verifier's verdict alone.
UpdateOwnStatusOnly(v, o) ==
  LET a == task[v][o].addr IN
  /\ task[v][o].pc = "status"
  /\ a \in issued
  /\ status' = [status EXCEPT ![a] =
                  [w \in Verifiers |-> IF w = v THEN verdict[v][o]
                                       ELSE "WaitingForConfirmation"]]
  /\ TaskGoto(v, o, "check")
  /\ UNCHANGED <<issued, bridge, utxoAddr, utxoStatus, issuerOf,
                 watch, verdict, tokens, req, faults>>

\* update_confirmation_status_by_deposit_address: SELECT ... FOR UPDATE and
\* UPDATE in one transaction.
UpdateConfirmationStatus(v, o) ==
  LET a == task[v][o].addr IN
  /\ task[v][o].pc = "status"
  /\ IF a \in issued
       THEN /\ status' = [status EXCEPT ![a][v] = verdict[v][o]]
            /\ TaskGoto(v, o, "check")
       ELSE /\ TaskGoto(v, o, "failed")
            /\ UNCHANGED status
  /\ UNCHANGED <<issued, bridge, utxoAddr, utxoStatus, issuerOf,
                 watch, verdict, tokens, req, faults>>

\* Bug: any confirmation is enough.
AnyVerifierConfirmed(a) == \E v \in Verifiers : status[a][v] = "Confirmed"

AllVerifiersConfirmed(a) == \A v \in Verifiers : status[a][v] = "Confirmed"

\* The row is read again, after the transaction above: another task may have
\* written its verdict in between.
CheckAllVerifiersConfirmed(v, o) ==
  LET a == task[v][o].addr IN
  /\ task[v][o].pc = "check"
  /\ TaskGoto(v, o, IF a \notin issued THEN "failed"
                    ELSE IF AllVerifiersConfirmed(a) THEN "confirm" ELSE "done")
  /\ UNCHANGED <<storage, watch, verdict, tokens, req, faults>>

\* update_status(outpoint, Confirmed), whatever the status was.
ConfirmUtxo(v, o) ==
  /\ task[v][o].pc = "confirm"
  /\ utxoStatus' = [utxoStatus EXCEPT ![o] = "Confirmed"]
  /\ TaskGoto(v, o, "flow")
  /\ UNCHANGED <<issued, bridge, status, utxoAddr, issuerOf,
                 watch, verdict, tokens, req, faults>>

-----------------------------------------------------------------------------
(* bridge_runes_flow: the flow the task sends and waits for.               *)

\* get_row_by_deposit_address, get_row_by_dkg_id.
FlowReadDepositRow(v, o) ==
  /\ task[v][o].pc = "flow"
  /\ TaskGoto(v, o, IF task[v][o].addr \in issued THEN "issuer" ELSE "failed")
  /\ UNCHANGED <<storage, watch, verdict, tokens, req, faults>>

IssuersOf(rune) == {s \in Shares : issuerOf[s] = rune}

\* get_issuer_ids: any issuer row of the rune, or none.
GetIssuerIds(v, o) ==
  LET rune == RuneOf[task[v][o].addr] IN
  /\ task[v][o].pc = "issuer"
  /\ \/ /\ IssuersOf(rune) = {}
        /\ TaskGoto(v, o, "pick")
     \/ \E s \in IssuersOf(rune) :
          task' = [task EXCEPT ![v][o].pc = "reread", ![v][o].share = s]
  /\ UNCHANGED <<storage, watch, verdict, tokens, req, faults>>

UnusedShares == {s \in Shares : issuerOf[s] = None}

\* get_random_unused_dkg_share, the SELECT: the unused share with the greatest
\* id; none left is DkgPregenFailed. No lock is taken.
PickUnusedShare(v, o) ==
  /\ task[v][o].pc = "pick"
  /\ \/ /\ UnusedShares = {}
        /\ TaskGoto(v, o, "failed")
     \/ \E s \in UnusedShares :
          /\ \A u \in UnusedShares : u <= s
          /\ task' = [task EXCEPT ![v][o].pc = "insert_issuer", ![v][o].share = s]
  /\ UNCHANGED <<storage, watch, verdict, tokens, req, faults>>

\* get_random_unused_dkg_share, the INSERT: its primary key is the share.
InsertIssuerRow(v, o) ==
  LET s == task[v][o].share IN
  /\ task[v][o].pc = "insert_issuer"
  /\ IF issuerOf[s] = None
       THEN /\ issuerOf' = [issuerOf EXCEPT ![s] = RuneOf[task[v][o].addr]]
            /\ TaskGoto(v, o, "create")
       ELSE /\ TaskGoto(v, o, "failed")
            /\ UNCHANGED issuerOf
  /\ UNCHANGED <<issued, bridge, status, utxoAddr, utxoStatus,
                 watch, verdict, tokens, req, faults>>

\* send_spark_transaction(Create) succeeds.
CreateToken(v, o) ==
  /\ task[v][o].pc = "create"
  /\ tokens' = tokens \cup {task[v][o].share}
  /\ TaskGoto(v, o, "reread")
  /\ UNCHANGED <<storage, watch, verdict, req, faults>>

\* The row is read a second time, for the bridge address and the amount.
RereadDepositRow(v, o) ==
  LET a == task[v][o].addr IN
  /\ task[v][o].pc = "reread"
  /\ IF a \in issued /\ bridge[a] # None
       THEN task' = [task EXCEPT ![v][o].pc = "mint", ![v][o].to = bridge[a]]
       ELSE TaskGoto(v, o, "failed")
  /\ UNCHANGED <<storage, watch, verdict, tokens, req, faults>>

\* send_spark_transaction(Mint); Spark refuses a token that was not created.
MintToken(v, o) ==
  /\ task[v][o].pc = "mint"
  /\ TaskGoto(v, o, IF task[v][o].share \in tokens THEN "minted" ELSE "failed")
  /\ UNCHANGED <<storage, watch, verdict, tokens, req, faults>>

\* Any `?` of the task or its flow: a database error, a failed Spark or FROST
\* call, or the process stops.
TaskErr(v, o) ==
  /\ task[v][o].pc \notin {"idle", "done", "minted", "failed"}
  /\ Fault
  /\ TaskGoto(v, o, "failed")
  /\ UNCHANGED <<storage, watch, verdict, tokens, req>>

-----------------------------------------------------------------------------
VerifyRunesDeposit(r) ==
  \/ ReadDepositRow(r)
  \/ \E v \in Verifiers : WatchRunesDeposit(r, v)
  \/ JoinWatchReplies(r)
  \/ SetConfirmationStatus(r)
  \/ InsertUtxo(r)

NotifyTask(v, o) ==
  \/ UpdateSatsFeeAmount(v, o)
  \/ GetUtxo(v, o)
  \/ UpdateConfirmationStatus(v, o)
  \/ CheckAllVerifiersConfirmed(v, o)
  \/ ConfirmUtxo(v, o)

BridgeRunesFlow(v, o) ==
  \/ FlowReadDepositRow(v, o)
  \/ GetIssuerIds(v, o)
  \/ PickUnusedShare(v, o)
  \/ InsertIssuerRow(v, o)
  \/ CreateToken(v, o)
  \/ RereadDepositRow(v, o)
  \/ MintToken(v, o)

Next ==
  \/ \E r \in Requests, a \in Addrs, o \in Outpoints, b \in Bridges :
       UpdateBridgeAddress(r, a, o, b)
  \/ \E r \in Requests : VerifyRunesDeposit(r) \/ RequestErr(r)
  \/ \E r \in Requests, v \in Verifiers : WatchRunesDepositErr(r, v)
  \/ \E a \in Addrs : DeletePendingDeposit(a)
  \/ \E v \in Verifiers, o \in Outpoints, s \in {"Confirmed", "Failed"} :
       NotifyRunesDeposit(v, o, s)
  \/ \E v \in Verifiers, o \in Outpoints :
       NotifyTask(v, o) \/ BridgeRunesFlow(v, o) \/ TaskErr(v, o)

Spec == Init /\ [][Next]_vars

\* The runtime polls every ready future, and every verifier settles what it
\* watches. Users are under no obligation.
Fairness ==
  /\ \A r \in Requests : WF_vars(VerifyRunesDeposit(r))
  /\ \A v \in Verifiers, o \in Outpoints :
       /\ WF_vars(NotifyTask(v, o) \/ BridgeRunesFlow(v, o))
       /\ WF_vars(\E s \in {"Confirmed", "Failed"} : NotifyRunesDeposit(v, o, s))

FairSpec == Spec /\ Fairness

-----------------------------------------------------------------------------
(* Properties.                                                             *)

Minted(v, o) == task[v][o].pc = "minted"
InFlow(t) == t.pc \in {"confirm", "flow", "issuer", "pick",
               "insert_issuer", "create", "reread", "mint", "minted"}

\* Every mint is backed: when a flow has minted for a deposit address, every
\* verifier watches the flow's outpoint for exactly that address and has
\* confirmed it, and the token minted is one issued for the address's rune.
\* The gateway only keeps a status per address and maps a notification to an
\* address through the outpoint, so this rests on the verifiers' unique keys.
MintBacked ==
  \A v \in Verifiers, o \in Outpoints :
    Minted(v, o) =>
      LET a == task[v][o].addr IN
      /\ utxoAddr[o] = a
      /\ utxoStatus[o] = "Confirmed"
      /\ \A w \in Verifiers : watch[w][a] = o /\ verdict[w][o] = "Confirmed"
      /\ issuerOf[task[v][o].share] = RuneOf[a]

\* Deleting a pending bridge never pulls the row from under a notification
\* task or a flow: once a task knows its address, the row is there.
RowOutlivesTask ==
  \A v \in Verifiers, o \in Outpoints :
    task[v][o].addr # None => task[v][o].addr \in issued

\* A step that keeps recorded outpoints, their confirmation, and verdicts.
UtxosKept ==
  \A o \in Outpoints :
    utxoAddr[o] # None =>
      /\ utxoAddr'[o] = utxoAddr[o]
      /\ utxoStatus[o] = "Confirmed" => utxoStatus'[o] = "Confirmed"
VerdictsKept ==
  \A a \in Addrs, v \in Verifiers :
    status[a][v] \in {"Confirmed", "Failed"} => status'[a][v] = status[a][v]

\* insert_utxo and set_confirmation_status overwrite without looking, yet a
\* second or a late bridge request can never move a recorded outpoint to
\* another address, take back its confirmation, or erase a verifier's verdict
\* from the row.
NothingIsReset == [][UtxosKept /\ VerdictsKept]_vars

\* The Runes direction implements the approval contract: a verifier's verdict
\* on an outpoint is final, and the bridge flow mints for an outpoint only when
\* every verifier confirmed that outpoint, although the gateway stores verdicts
\* per deposit address and maps outpoints to addresses by a row that insert_utxo
\* overwrites.
Contract == INSTANCE Approval WITH
  Deposits <- Outpoints, Payouts <- Verifiers,
  paid <- {x \in Outpoints \X Verifiers : Minted(x[2], x[1])}
MintsApproved == Contract!Spec

\* No flow of the rune is about to create a token, and its issuers have one.
TokenSettled(rune) ==
  /\ IssuersOf(rune) # {}
  /\ IssuersOf(rune) \subseteq tokens
  /\ \A v \in Verifiers, o \in Outpoints :
       task[v][o].pc \in {"pick", "insert_issuer", "create"}
         => RuneOf[task[v][o].addr] # rune

\* A deposit of a rune that already has its token, recorded before any
\* verifier reported on it, ends in a mint unless some verifier rejects it or
\* a call fails.
RecordedDepositMinted ==
  \A o \in Outpoints, a \in Addrs :
    (/\ utxoAddr[o] = a
     /\ \A v \in Verifiers : verdict[v][o] = "none"
     /\ TokenSettled(RuneOf[a]))
    ~> \/ \E v \in Verifiers : Minted(v, o)
       \/ \E v \in Verifiers : verdict[v][o] = "Failed"
       \/ faults > 0

-----------------------------------------------------------------------------
(* The strengthening that makes MintBacked, RowOutlivesTask and            *)
(* NothingIsReset inductive.                                               *)

\* An outpoint is watched for one address at most by each verifier.
WatchUnique ==
  \A v \in Verifiers, a, b \in Addrs :
    watch[v][a] = watch[v][b] /\ watch[v][a] # None => a = b

\* An accepted watch call left the verifier's row.
ReplySound ==
  \A r \in Requests :
    /\ req[r].pc # "idle" => req[r].addr \in Addrs /\ req[r].outpoint \in Outpoints
    /\ \A v \in Verifiers :
         /\ req[r].pc \in {"idle", "read"} => req[r].reply[v] = "none"
         /\ req[r].reply[v] = "ok" => watch[v][req[r].addr] = req[r].outpoint

\* One verifier accepts at most one request for an address.
ReplyExclusive ==
  \A q, r \in Requests, v \in Verifiers :
    req[q].reply[v] = "ok" /\ req[r].reply[v] = "ok" /\ req[q].addr = req[r].addr
      => q = r

\* A request only gets past the join with every verifier's acceptance.
JoinedMeansAccepted ==
  \A r \in Requests :
    req[r].pc \in {"set_status", "insert_utxo", "done"}
      => \A v \in Verifiers : req[r].reply[v] = "ok"

\* A UTXO row stems from a finished request, and keeps its deposit row alive.
UtxoFromRequest ==
  \A o \in Outpoints :
    utxoAddr[o] # None =>
      /\ utxoAddr[o] \in issued
      /\ \E r \in Requests : /\ req[r].pc = "done"
                             /\ req[r].addr = utxoAddr[o]
                             /\ req[r].outpoint = o

\* A verdict in a deposit row is the one the verifier gave on its outpoint.
StatusSound ==
  \A a \in Addrs, v \in Verifiers :
    status[a][v] \in {"Confirmed", "Failed"} =>
      \E o \in Outpoints : utxoAddr[o] = a /\ verdict[v][o] = status[a][v]

\* What a task remembers is still what the tables say.
TaskOK(v, o, t) ==
  /\ t.pc # "idle" => verdict[v][o] # "none"
  /\ t.pc = "get_utxo" => utxoAddr[o] # None
  /\ t.pc \in {"status", "check"} \/ InFlow(t) => t.addr # None
  /\ t.addr # None => utxoAddr[o] = t.addr
  /\ InFlow(t) => \A w \in Verifiers : verdict[w][o] = "Confirmed"
  /\ InFlow(t) /\ t.pc # "confirm" => utxoStatus[o] = "Confirmed"
  /\ t.pc = "insert_issuer" => t.share # None
  /\ t.pc \in {"create", "reread", "mint", "minted"} =>
       t.share # None /\ issuerOf[t.share] = RuneOf[t.addr]

TaskSound ==
  \A v \in Verifiers, o \in Outpoints : TaskOK(v, o, task[v][o])

IInv ==
  /\ TypeOK
  /\ WatchUnique
  /\ ReplySound
  /\ ReplyExclusive
  /\ JoinedMeansAccepted
  /\ UtxoFromRequest
  /\ StatusSound
  /\ TaskSound

-----------------------------------------------------------------------------
(* What the integration guide says and the code does not keep.             *)

\* INTEGRATION_GUIDE.md:115: after the verifiers approve, the gateway "then
\* sends a Spark mint transaction": one deposit, one mint.
MintAtMostOnce ==
  \A o \in Outpoints, v, w \in Verifiers :
    Minted(v, o) /\ Minted(w, o) => v = w

\* INTEGRATION_GUIDE.md:277: "Rerunning a bridge for the same rune_id reuses
\* the existing wRune token (same Spark ticker and identifier)".
OneTokenPerRune ==
  \A s, t \in tokens : issuerOf[s] = issuerOf[t] => s = t
=============================================================================
