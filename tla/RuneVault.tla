----------------------------- MODULE RuneVault -----------------------------
(***************************************************************************)
(* The runes the bridge holds on Bitcoin: the UTXO table, the chain, and   *)
(* the exit flows that select rows, spend them in a transaction and record *)
(* the change. Deposits come in through the Runes direction, of which only *)
(* its writes to the table are kept here.                                  *)
(*   gateway/crates/flow_processor/src/routes/exit_spark_flow.rs           *)
(*   gateway/crates/local_db_store/src/schemas/utxo_storage.rs             *)
(*   gateway/crates/rune_transfer/src/transfer.rs                          *)
(*                                                                         *)
(* All UTXOs hold the same rune. An outpoint is <<txid, vout>>; the bridge *)
(* address that received it is named by the transaction it was made for.   *)
(***************************************************************************)
EXTENDS Functions

CONSTANTS
  Verifiers,  \* the configured verifiers
  Deposits,   \* deposit transactions of users
  Claimed,    \* the amount each deposit is meant to bring (deposit_address.amount)
  Sent,       \* amounts users may really send
  Exits,      \* runs of exit_spark_flow, each with its own transaction
  Target,     \* the amount of each exit (deposit_address.amount)
  None,
  MaxU64,     \* bound: the sums of amounts that fit their type
  MaxFaults   \* bound: injected errors

Txids == Deposits \cup Exits
Outpoints == Txids \X (0..2)

ASSUME VaultAssumption ==
  /\ Verifiers # {}
  /\ Deposits \cap Exits = {}
  /\ None \notin Txids
  /\ Claimed \in [Deposits -> Nat \ {0}]
  /\ Sent \subseteq Nat
  /\ Target \in [Exits -> Nat \ {0}]
  /\ MaxU64 \in Nat
  /\ MaxFaults \in Nat

VARIABLES
  row,      \* gateway.utxo
  note,     \* the notification tasks of each deposit and verifier
  chain,    \* Bitcoin: what became of each output
  runes,    \* Bitcoin: the runes each output received
  flow,     \* the exit flows
  faults

vars == <<row, note, chain, runes, flow, faults>>

Selectable == {"Pending", "Confirmed"}
RowType == [st : {"none", "Spent"} \cup Selectable, amt : Nat,
            addr : Txids \cup {None}, sats : BOOLEAN]
\* scan: rows the SELECT has yet to visit; locks: rows it locked; inputs:
\* what was marked as spent, worth total. valid: the signatures fit the
\* outputs; sure: all rows were confirmed when selected.
FlowType == [pc : {"idle", "scan", "sign", "broadcast", "change", "done", "short", "failed"},
             scan : SUBSET Outpoints, locks : SUBSET Outpoints, inputs : SUBSET Outpoints,
             total : Nat, valid : BOOLEAN, sure : BOOLEAN]

TypeOK ==
  /\ row \in [Outpoints -> RowType]
  /\ note \in [Deposits -> [Verifiers -> {"none", "noted", "checked", "done"}]]
  /\ chain \in [Outpoints -> {"none", "unspent", "spent"}]
  /\ runes \in [Outpoints -> Nat]
  /\ flow \in [Exits -> FlowType]
  /\ faults \in 0..MaxFaults

Init ==
  /\ row = [o \in Outpoints |-> [st |-> "none", amt |-> 0, addr |-> None, sats |-> FALSE]]
  /\ note = [d \in Deposits |-> [v \in Verifiers |-> "none"]]
  /\ chain = [o \in Outpoints |-> "none"]
  /\ runes = [o \in Outpoints |-> 0]
  /\ flow = [x \in Exits |-> [pc |-> "idle", scan |-> {}, locks |-> {}, inputs |-> {},
                              total |-> 0, valid |-> FALSE, sure |-> FALSE]]
  /\ faults = 0

Fault == /\ faults < MaxFaults
         /\ faults' = faults + 1

\* A writer waits for the row's lock.
Unlocked(o) == \A x \in Exits : o \notin flow[x].locks

-----------------------------------------------------------------------------
(* Deposits: the user's transaction and the Runes direction's writes.      *)

In(d) == <<d, 0>>

\* The user's transaction is mined, with the amount asked for or another.
MineDeposit(d, n) ==
  /\ chain[In(d)] = "none"
  /\ chain' = [chain EXCEPT ![In(d)] = "unspent"]
  /\ runes' = [runes EXCEPT ![In(d)] = n]
  /\ UNCHANGED <<row, note, flow, faults>>

\* Bug: the row is given the status of the deposit's confirmation.
InsertWaitingDeposit(d) ==
  /\ row[In(d)].st = "none"
  /\ row' = [row EXCEPT ![In(d)] = [st |-> "WaitingForConfirmation",
               amt |-> Claimed[d], addr |-> d, sats |-> FALSE]]
  /\ UNCHANGED <<note, chain, runes, flow, faults>>

\* verify_runes_deposit ends with insert_utxo: Pending, with the amount the
\* address was issued for and no sats amount yet. RunesBridge!NothingIsReset
\* is why no second request gets this far.
InsertDeposit(d) ==
  /\ row[In(d)].st = "none"
  /\ row' = [row EXCEPT ![In(d)] =
               [st |-> "Pending", amt |-> Claimed[d], addr |-> d, sats |-> FALSE]]
  /\ UNCHANGED <<note, chain, runes, flow, faults>>

\* A verifier reports on the mined deposit; update_sats_fee_amount runs before
\* the verdict is looked at, a rejection included.
NotifyDeposit(d, v) ==
  /\ chain[In(d)] # "none"
  /\ note[d][v] = "none"
  /\ row[In(d)].st # "none"
  /\ Unlocked(In(d))
  /\ row' = [row EXCEPT ![In(d)].sats = TRUE]
  /\ note' = [note EXCEPT ![d][v] = "noted"]
  /\ UNCHANGED <<chain, runes, flow, faults>>

\* The indexer compares the amount received with the one expected.
Accepted(d) == runes[In(d)] = Claimed[d]

\* The task reads the deposit row and finds every verifier confirmed.
CheckDeposit(d, v) ==
  /\ note[d][v] = "noted"
  /\ note' = [note EXCEPT ![d][v] =
                IF Accepted(d) /\ \A w \in Verifiers : note[d][w] # "none"
                  THEN "checked" ELSE "done"]
  /\ UNCHANGED <<row, chain, runes, flow, faults>>

\* Bug: a rejected deposit is confirmed all the same.
ConfirmNoted(d, v) ==
  /\ note[d][v] \in {"noted", "checked"}
  /\ Unlocked(In(d))
  /\ row' = [row EXCEPT ![In(d)].st = "Confirmed"]
  /\ note' = [note EXCEPT ![d][v] = "done"]
  /\ UNCHANGED <<chain, runes, flow, faults>>

\* update_status(Confirmed): it waits for the row's lock and then writes,
\* whatever the status has become.
ConfirmDeposit(d, v) ==
  /\ note[d][v] = "checked"
  /\ Unlocked(In(d))
  /\ row' = [row EXCEPT ![In(d)].st = "Confirmed"]
  /\ note' = [note EXCEPT ![d][v] = "done"]
  /\ UNCHANGED <<chain, runes, flow, faults>>

-----------------------------------------------------------------------------
(* select_utxos_for_amount: one transaction.                               *)

Goto(x, p) == flow' = [flow EXCEPT ![x].pc = p]

\* get_candidate_utxos_for_update starts: its snapshot are all rows that are
\* confirmed or pending.
BeginSelect(x) ==
  /\ flow[x].pc = "idle"
  /\ flow' = [flow EXCEPT ![x].pc = "scan",
                          ![x].scan = {o \in Outpoints : row[o].st \in Selectable}]
  /\ UNCHANGED <<row, note, chain, runes, faults>>

\* Bug: FOR UPDATE is missing, nothing is locked or looked at again.
VisitWithoutLock(x) ==
  /\ flow[x].pc = "scan"
  /\ \E o \in flow[x].scan :
       /\ \A p \in flow[x].scan : row[o].amt <= row[p].amt
       /\ flow' = [flow EXCEPT ![x].scan = @ \ {o}, ![x].locks = @ \cup {o}]
  /\ UNCHANGED <<row, note, chain, runes, faults>>

\* ORDER BY rune_amount FOR UPDATE SKIP LOCKED visits the snapshot in order,
\* row by row. A row another transaction holds is skipped; one that was
\* changed since is looked at again.
VisitRow(x) ==
  /\ flow[x].pc = "scan"
  /\ \E o \in flow[x].scan :
       /\ \A p \in flow[x].scan : row[o].amt <= row[p].amt
       /\ flow' = [flow EXCEPT ![x].scan = @ \ {o},
                     ![x].locks = IF Unlocked(o) /\ row[o].st \in Selectable
                                    THEN @ \cup {o} ELSE @]
  /\ UNCHANGED <<row, note, chain, runes, faults>>

Total(S) == SumFunction([o \in S |-> row[o].amt])

\* The loop takes rows in order until the target is reached: S is a prefix of
\* the order that reaches it, and without its last row does not.
Greedy(S, candidates, target) ==
  /\ \A o \in S, p \in candidates \ S : row[o].amt <= row[p].amt
  /\ Total(S) >= target
  /\ \E last \in S :
       /\ \A o \in S : row[o].amt <= row[last].amt
       /\ Total(S \ {last}) < target

\* Who can spend an output: the bridge address the deposit or the change was
\* sent to. Output 1 of an exit belongs to the user.
Owner(o) == IF o[1] \in Deposits \/ o[2] = 2 THEN o[1] ELSE None

\* Enough: mark_utxos_as_spent and commit. The sats amount and the address of
\* the returned rows are what the inputs will be signed with.
CommitSelection(x) ==
  /\ flow[x].pc = "scan"
  /\ flow[x].scan = {}
  /\ \E S \in SUBSET flow[x].locks :
       /\ Greedy(S, flow[x].locks, Target[x])
       /\ Total(S) \in 0..MaxU64
       /\ row' = [o \in Outpoints |-> IF o \in S THEN [row[o] EXCEPT !.st = "Spent"] ELSE row[o]]
       /\ flow' = [flow EXCEPT ![x] =
            [pc |-> "sign", scan |-> {}, locks |-> {}, inputs |-> S, total |-> Total(S),
             valid |-> \A o \in S : row[o].sats /\ row[o].addr = Owner(o),
             sure |-> \A o \in S : row[o].st = "Confirmed"]]
  /\ UNCHANGED <<note, chain, runes, faults>>

\* Bug: the transaction is neither committed nor rolled back.
RollbackForgotten(x) ==
  /\ flow[x].pc = "scan"
  /\ flow[x].scan = {}
  /\ Total(flow[x].locks) < Target[x]
  /\ Goto(x, "short")
  /\ UNCHANGED <<row, note, chain, runes, faults>>

\* Not enough funds: rollback.
RollbackSelection(x) ==
  /\ flow[x].pc = "scan"
  /\ flow[x].scan = {}
  /\ Total(flow[x].locks) < Target[x]
  /\ flow' = [flow EXCEPT ![x].pc = "short", ![x].locks = {}]
  /\ UNCHANGED <<row, note, chain, runes, faults>>

-----------------------------------------------------------------------------
(* The rest of exit_spark_flow.                                            *)

Change(x) == flow[x].total - Target[x]

\* The change address is stored if there is change, the transaction built, and
\* each input signed by the key of its row's address.
SignInputs(x) ==
  /\ flow[x].pc = "sign"
  /\ Goto(x, "broadcast")
  /\ UNCHANGED <<row, note, chain, runes, faults>>

Least(a, b) == IF a <= b THEN a ELSE b

\* What the outputs receive: output 0 is the runestone, whose edicts give
\* output 1 the exit amount and output 2 the change as far as the inputs go;
\* what is left over goes to output 1.
Allocation(x) ==
  LET pool == SumFunction([o \in flow[x].inputs |-> runes[o]])
      second == Least(Change(x), pool - Least(Target[x], pool))
  IN [first |-> pool - second, second |-> second]

Mineable(x) ==
  /\ flow[x].valid
  /\ \A o \in flow[x].inputs : chain[o] = "unspent"

\* The transaction is mined.
Mine(x) ==
  LET to == Allocation(x) IN
  /\ to.first \in 0..MaxU64 /\ to.second \in 0..MaxU64
  /\ chain' = [o \in Outpoints |->
                 CASE o \in flow[x].inputs -> "spent"
                   [] o = <<x, 1>> -> "unspent"
                   [] o = <<x, 2>> /\ Change(x) > 0 -> "unspent"
                   [] OTHER -> chain[o]]
  /\ runes' = [runes EXCEPT ![<<x, 1>>] = to.first, ![<<x, 2>>] = to.second]

\* broadcast_transaction: the node takes it, or refuses a bad signature, a
\* missing or a spent input. The answer may be lost.
Broadcast(x) ==
  /\ flow[x].pc = "broadcast"
  /\ \/ /\ Mineable(x)
        /\ Mine(x)
        /\ \/ /\ Goto(x, IF Change(x) > 0 THEN "change" ELSE "done")
              /\ UNCHANGED faults
           \/ /\ Goto(x, "failed")
              /\ Fault
     \/ /\ ~Mineable(x)
        /\ Goto(x, "failed")
        /\ UNCHANGED <<chain, runes, faults>>
  /\ UNCHANGED <<row, note>>

\* insert_utxo(OutPoint::new(txid, 1)), Confirmed, with the change address.
InsertChange(x) ==
  /\ flow[x].pc = "change"
  /\ row' = [row EXCEPT ![<<x, 1>>] =
               [st |-> "Confirmed", amt |-> Change(x), addr |-> x, sats |-> TRUE]]
  /\ Goto(x, "done")
  /\ UNCHANGED <<note, chain, runes, faults>>

\* Any `?`: a database error, a failed signature, a paying input that the node
\* refuses, or the process stops. An
\* open transaction is rolled back; what was committed stays.
FlowErr(x) ==
  /\ flow[x].pc \in {"scan", "sign", "broadcast", "change"}
  /\ Fault
  /\ flow' = [flow EXCEPT ![x].pc = "failed", ![x].scan = {}, ![x].locks = {}]
  /\ UNCHANGED <<row, note, chain, runes>>

-----------------------------------------------------------------------------
ExitFlow(x) ==
  \/ VisitRow(x)
  \/ CommitSelection(x)
  \/ RollbackSelection(x)
  \/ SignInputs(x)
  \/ Broadcast(x)
  \/ InsertChange(x)

Next ==
  \/ \E d \in Deposits, n \in Sent : MineDeposit(d, n)
  \/ \E d \in Deposits : InsertDeposit(d)
  \/ \E d \in Deposits, v \in Verifiers :
       NotifyDeposit(d, v) \/ CheckDeposit(d, v) \/ ConfirmDeposit(d, v)
  \/ \E x \in Exits : BeginSelect(x) \/ ExitFlow(x) \/ FlowErr(x)

Spec == Init /\ [][Next]_vars

\* The runtime polls flows and tasks; exits once requested are started.
FairSpec ==
  /\ Spec
  /\ \A x \in Exits : WF_vars(BeginSelect(x) \/ ExitFlow(x))
  /\ \A d \in Deposits, v \in Verifiers : WF_vars(CheckDeposit(d, v) \/ ConfirmDeposit(d, v))

-----------------------------------------------------------------------------
(* Properties.                                                             *)

\* A notification has confirmed the deposit behind the row.
PutBack(o) ==
  \E d \in Deposits : /\ o = In(d)
                      /\ Accepted(d)
                      /\ \E v \in Verifiers : note[d][v] = "done"

\* Two exits are given the same row only in one way: the row is a deposit that
\* a notification has confirmed, so that update_status may have put it back
\* after the first exit took it. In particular concurrent selections never
\* share a row, and neither a change row nor a deposit still unreported or
\* rejected is ever given out twice.
TakenOnce ==
  \A x, y \in Exits : x # y => \A o \in flow[x].inputs \cap flow[y].inputs : PutBack(o)

\* An exit whose rows were all confirmed when it selected them and whose
\* transaction was mined delivers exactly the exit amount to the user and
\* exactly the rest to the bridge's change address, whatever was recorded,
\* confirmed or spent in the meantime.
SureExitDelivers ==
  \A x \in Exits :
    chain[<<x, 1>>] # "none" /\ flow[x].sure =>
      /\ runes[<<x, 1>>] = Target[x]
      /\ runes[<<x, 2>>] = Change(x)

\* Row locks never hold up a confirmation for good: every task that is about to
\* confirm a deposit does so.
ConfirmationGetsThrough ==
  \A d \in Deposits, v \in Verifiers : note[d][v] = "checked" ~> note[d][v] = "done"

-----------------------------------------------------------------------------
(* The strengthening that makes TakenOnce and SureExitDelivers inductive.  *)

\* Row locks are exclusive, held only by an open transaction, and keep the
\* row selectable.
LocksHold ==
  \A x \in Exits :
    /\ flow[x].pc # "scan" => flow[x].locks = {}
    /\ \A o \in flow[x].locks : row[o].st \in Selectable
    /\ \A y \in Exits : x # y => flow[x].locks \cap flow[y].locks = {}

\* What the notifications found out stays true.
NotesHold ==
  \A d \in Deposits, v \in Verifiers :
    /\ note[d][v] # "none" => chain[In(d)] # "none" /\ row[In(d)].st # "none"
    /\ note[d][v] = "checked" => Accepted(d)

\* A row is a deposit with its claimed amount, confirmed only if it arrived,
\* or what InsertChange wrote.
RowOf(o) ==
  \/ \E d \in Deposits :
       /\ o = In(d) /\ row[o].addr = d
       /\ row[o].st = "Confirmed" => Accepted(d) /\ chain[o] # "none"
                                     /\ \E v \in Verifiers : note[d][v] = "done"
       /\ row[o].amt = Claimed[d]
  \/ \E x \in Exits : o = <<x, 1>> /\ row[o].addr = x /\ flow[x].pc = "done"
RowsHold == \A o \in Outpoints : row[o].st # "none" => RowOf(o)

\* A row that was taken is spent, unless a notification has put it back.
InputsOf(x) ==
  /\ flow[x].pc \in {"idle", "scan", "short"} => flow[x].inputs = {}
  /\ \A o \in flow[x].inputs :
       row[o].st # "none" /\ (row[o].st = "Spent" \/ PutBack(o))
InputsHold == \A x \in Exits : InputsOf(x)

\* What a flow knows of its inputs is true.
SumOf(x) ==
  /\ flow[x].inputs # {} => flow[x].total = Total(flow[x].inputs)
  /\ flow[x].pc \in {"sign", "broadcast", "change"} => flow[x].inputs # {}
  /\ flow[x].inputs # {} => flow[x].total >= Target[x]
  /\ flow[x].valid => \A o \in flow[x].inputs : row[o].addr = Owner(o)
  /\ flow[x].sure /\ flow[x].valid =>
       \A o \in flow[x].inputs : \E d \in Deposits : o = In(d) /\ Accepted(d) /\ chain[o] # "none"
  /\ chain[<<x, 1>>] # "none" => flow[x].pc \in {"change", "done", "failed"} /\ flow[x].valid
SumsHold == \A x \in Exits : SumOf(x)

IInv ==
  /\ TypeOK /\ LocksHold /\ NotesHold /\ RowsHold /\ InputsHold /\ SumsHold
  /\ TakenOnce /\ SureExitDelivers

-----------------------------------------------------------------------------
(* What a comment says and the code does not keep.                         *)

\* exit_spark_flow.rs:164-165: output 1 is called the "Change utxo" and its
\* address the "Change utxo address": a recorded output pays the address of
\* its row.
RowsNameOwnOutputs ==
  \A o \in Outpoints :
    row[o].st # "none" /\ chain[o] # "none" => row[o].addr = Owner(o)
=============================================================================
