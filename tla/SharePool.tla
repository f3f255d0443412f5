----------------------------- MODULE SharePool -----------------------------
(***************************************************************************)
(* How the gateway hands out deposit addresses. The pre-generation thread  *)
(* keeps a stock of finished DKG shares; a request travels through the     *)
(* flow processor's queue to a flow of its own, which takes a share for    *)
(* its user and rune (or finds the one taken earlier) and stores a deposit *)
(* address derived from it. The flow that creates the wRune token of a     *)
(* rune draws on the same stock. Shutting the flow processor down waits    *)
(* for its flows a bounded number of times and then aborts them.           *)
(*   gateway/crates/dkg_pregen/src/dkg_pregen_thread.rs                    *)
(*   gateway/crates/flow_processor/src/{flow_sender,flow_processor,        *)
(*     flow_router}.rs, routes/{btc,spark}_addr_issuing.rs,                *)
(*     routes/amount_utils.rs                                              *)
(*   gateway/crates/local_db_store/src/schemas/{dkg_share,                 *)
(*     user_identifier,deposit_address}.rs                                 *)
(***************************************************************************)
EXTENDS Naturals, Sequences, FiniteSets

CONSTANTS
  Requests,     \* address requests: [id, kind, user, rune, amount]
  ShareIds,     \* the ids the database may draw; bound: DKG shares created
  MinThreshold, \* dkg_pregen.min_threshold
  Retries,      \* flow_processor.cancellation_retries
  Capacity,     \* of the two channels (1000 in the code)
  Divisibility, \* the decimals of every rune
  MaxAmount,    \* u64::MAX
  None,         \* SQL NULL / no row
  MaxFaults     \* bound: injected errors and restarts

Kinds == {"btc", "spark"}
Runes == {r.rune : r \in Requests}
Users == {r.user : r \in Requests}
Rows == [rune : Runes, issuer : BOOLEAN, external : Users \cup {None}]

ASSUME ConstantsAssumption ==
  /\ \A r \in Requests : r.kind \in Kinds /\ r.amount \in 0..MaxAmount
  /\ None \notin Rows \cup Users
  /\ ShareIds \subseteq Nat /\ IsFiniteSet(ShareIds)
  /\ {MinThreshold, Retries, Divisibility, MaxAmount, MaxFaults} \subseteq Nat
  /\ Capacity \in Nat \ {0}

VARIABLES
  share,     \* dkg_share: "free" (no row), "unfinished" or "DkgFinalized"
  owner,     \* user_identifier: [rune, issuer, external], or None
  addresses, \* deposit_address: the set of rows
  toStart,   \* shares the update under way has still to insert
  running,   \* shares whose key generation is under way
  queue,     \* tx_receiver: requests sent and not yet received
  flows,     \* FlowProcessor.flows
  finished,  \* flow_receiver: flows that announced their end
  proc,      \* the run loop: "running", "draining" or "stopped"
  retry,     \* rounds of the draining loop so far
  flow,      \* per request: where its flow is, its share, its answer
  faults

pool == <<share, owner, toStart, running>>
runtime == <<queue, flows, finished, proc, retry>>
vars == <<pool, addresses, runtime, flow, faults>>

Init ==
  /\ share = [s \in ShareIds |-> "free"]
  /\ owner = [s \in ShareIds |-> None]
  /\ addresses = {}
  /\ toStart = 0
  /\ running = {}
  /\ queue = <<>>
  /\ flows = {}
  /\ finished = {}
  /\ proc = "running"
  /\ retry = 0
  /\ flow = [r \in Requests |-> [pc |-> "idle", share |-> None, answer |-> "none"]]
  /\ faults = 0

Fault == /\ faults < MaxFaults
         /\ faults' = faults + 1

-----------------------------------------------------------------------------
(* The pre-generation thread.                                              *)

Unused == {s \in ShareIds : share[s] # "free" /\ owner[s] = None}
UnusedFinalized == {s \in Unused : share[s] = "DkgFinalized"}
FreeIds == {s \in ShareIds : share[s] = "free"}

SaturatingSub(m, n) == IF n < m THEN m - n ELSE 0

\* Bug: the rows of failed key generations count as stock.
UpdateDecisionAll == SaturatingSub(MinThreshold, Cardinality(Unused))

\* get_update_decision looks at the finished shares only.
UpdateDecision == SaturatingSub(MinThreshold, Cardinality(UnusedFinalized))

\* Bug: the next tick does not wait for the tasks of the last update.
PerformUpdateAgain ==
  /\ toStart = 0
  /\ UpdateDecision > 0
  /\ UpdateDecision <= Cardinality(FreeIds)
  /\ toStart' = UpdateDecision
  /\ UNCHANGED <<share, owner, running, addresses, runtime, flow, faults>>

\* perform_update: count, decide, spawn; join_all keeps the loop from the next
\* tick until every spawned task has ended.
PerformUpdate ==
  /\ toStart = 0 /\ running = {}
  /\ UpdateDecision > 0
  /\ UpdateDecision <= Cardinality(FreeIds)
  /\ toStart' = UpdateDecision
  /\ UNCHANGED <<share, owner, running, addresses, runtime, flow, faults>>

\* generate_dkg_share_entity: the row of a new share.
GenerateDkgShareEntity ==
  /\ toStart > 0
  /\ toStart' = toStart - 1
  /\ \/ \E s \in FreeIds :
          /\ \A t \in FreeIds : s <= t
          /\ share' = [share EXCEPT ![s] = "unfinished"]
          /\ running' = running \cup {s}
          /\ UNCHANGED faults
     \/ Fault /\ UNCHANGED <<share, running>>
  /\ UNCHANGED <<owner, addresses, runtime, flow>>

\* run_dkg_flow; one that fails leaves its row behind, never finished.
RunDkgFlow(s) ==
  /\ s \in running
  /\ running' = running \ {s}
  /\ \/ /\ share' = [share EXCEPT ![s] = "DkgFinalized"]
        /\ UNCHANGED faults
     \/ Fault /\ UNCHANGED share
  /\ UNCHANGED <<owner, toStart, addresses, runtime, flow>>

-----------------------------------------------------------------------------
(* FlowSender and the run loop of the flow processor.                      *)

Goto(r, p) == flow' = [flow EXCEPT ![r].pc = p]
Ended == {"idle", "ended"}

\* A handler calls send_message.
Call(r) ==
  /\ flow[r].pc = "idle"
  /\ Goto(r, "sending")
  /\ UNCHANGED <<pool, addresses, runtime, faults>>

\* Bug: somebody keeps the receiver when the processor stops.
SendMessageWaits(r) ==
  /\ flow[r].pc = "sending"
  /\ proc # "stopped" /\ Len(queue) < Capacity
  /\ queue' = Append(queue, r)
  /\ Goto(r, "queued")
  /\ UNCHANGED <<pool, addresses, flows, finished, proc, retry, faults>>

\* tx_sender.send waits while the channel is full, and fails once the
\* processor, which owns the receiver, is gone.
SendMessage(r) ==
  /\ flow[r].pc = "sending"
  /\ \/ /\ proc # "stopped" /\ Len(queue) < Capacity
        /\ queue' = Append(queue, r)
        /\ Goto(r, "queued")
     \/ /\ proc = "stopped"
        /\ flow' = [flow EXCEPT ![r].pc = "ended", ![r].answer = "error"]
        /\ UNCHANGED queue
  /\ UNCHANGED <<pool, addresses, flows, finished, proc, retry, faults>>

\* Bug: the handle of the spawned flow is not kept.
SpawnUntracked ==
  /\ proc = "running"
  /\ queue # <<>>
  /\ queue' = Tail(queue)
  /\ Goto(Head(queue), "lookup")
  /\ UNCHANGED <<pool, addresses, flows, finished, proc, retry, faults>>

\* A message is received: its flow is spawned and its handle kept.
ReceiveMessage ==
  /\ proc = "running"
  /\ queue # <<>>
  /\ queue' = Tail(queue)
  /\ flows' = flows \cup {Head(queue)}
  /\ Goto(Head(queue), "lookup")
  /\ UNCHANGED <<pool, addresses, finished, proc, retry, faults>>

\* A finished flow is removed from the map.
ReceiveFinished ==
  /\ proc = "running"
  /\ \E r \in finished :
       /\ flows' = flows \ {r}
       /\ finished' = finished \ {r}
  /\ UNCHANGED <<pool, addresses, queue, proc, retry, flow, faults>>

\* FlowSender::shutdown cancels the token and, from whatever other branches of
\* select! were ready, the loop gets to this one: no message is received any more.
Shutdown ==
  /\ proc = "running"
  /\ proc' = "draining"
  /\ UNCHANGED <<pool, addresses, queue, flows, finished, retry, flow, faults>>

\* One round: take the flows that finished, sleep a second.
DrainRound ==
  /\ proc = "draining"
  /\ retry < Retries /\ flows # {}
  /\ flows' = flows \ finished
  /\ finished' = {}
  /\ retry' = retry + 1
  /\ UNCHANGED <<pool, addresses, queue, proc, flow, faults>>

\* The flow is dropped with its response sender: a caller not answered yet
\* wakes with ChannelClosedError.
Closed(f) == [pc |-> "ended", share |-> None,
              answer |-> IF f.answer = "none" THEN "error" ELSE f.answer]

\* The flows left over are aborted, the map is cleared and the loop ends; the
\* processor is dropped and with it the queued messages and their senders.
Stop ==
  /\ proc = "draining"
  /\ retry = Retries \/ flows = {}
  /\ flow' = [r \in Requests |->
                IF r \in flows \/ flow[r].pc = "queued"
                  THEN Closed(flow[r]) ELSE flow[r]]
  /\ flows' = {}
  /\ queue' = <<>>
  /\ finished' = {}
  /\ proc' = "stopped"
  /\ UNCHANGED <<pool, addresses, retry, faults>>

\* The gateway crashes and starts again: its callers lose their connections.
Restart ==
  /\ Fault
  /\ flow' = [r \in Requests |->
                IF flow[r].pc \in Ended THEN flow[r] ELSE Closed(flow[r])]
  /\ queue' = <<>>
  /\ flows' = {}
  /\ finished' = {}
  /\ proc' = "running"
  /\ retry' = 0
  /\ toStart' = 0
  /\ running' = {}
  /\ UNCHANGED <<share, owner, addresses>>

-----------------------------------------------------------------------------
(* The flow of a request.                                                  *)

FlowStep(r, from) ==
  /\ flow[r].pc = from
  /\ UNCHANGED <<toStart, running, runtime, share>>

Reply(r, a) ==
  flow' = [flow EXCEPT ![r] = [pc |-> "reply", share |-> None, answer |-> a]]

\* get_row_by_user_id: an earlier share of the user for the rune is used again.
Found(r) ==
  {s \in ShareIds : /\ owner[s] # None
                    /\ owner[s].rune = r.rune
                    /\ owner[s].external = r.user}

LookUp(r) ==
  /\ FlowStep(r, "lookup")
  /\ \/ /\ Found(r) = {}
        /\ Goto(r, "pick")
     \/ \E s \in Found(r) :
          flow' = [flow EXCEPT ![r].pc = "issue", ![r].share = s]
  /\ UNCHANGED <<owner, addresses, faults>>

\* get_random_unused_dkg_share, the SELECT: the first in the order of the random
\* ids, so any of them, no lock; an empty stock is DkgPregenFailed.
PickUnusedShare(r) ==
  /\ FlowStep(r, "pick")
  /\ \/ UnusedFinalized = {} /\ Reply(r, "error")
     \/ \E s \in UnusedFinalized :
          flow' = [flow EXCEPT ![r].pc = "claim", ![r].share = s]
  /\ UNCHANGED <<owner, addresses, faults>>

NewRow(rune, issuer) == [rune |-> rune, issuer |-> issuer, external |-> None]

\* Bug: the INSERT replaces a row that appeared since the SELECT.
UpsertShare(r) ==
  LET s == flow[r].share IN
  /\ FlowStep(r, "claim")
  /\ owner' = [owner EXCEPT ![s] = NewRow(r.rune, FALSE)]
  /\ Goto(r, "own")
  /\ UNCHANGED <<addresses, faults>>

\* get_random_unused_dkg_share, the INSERT: its primary key is the share, so
\* the second of two flows that picked it fails.
ClaimShare(r) ==
  LET s == flow[r].share IN
  /\ FlowStep(r, "claim")
  /\ \/ /\ owner[s] = None
        /\ owner' = [owner EXCEPT ![s] = NewRow(r.rune, FALSE)]
        /\ Goto(r, "own")
     \/ /\ owner[s] # None
        /\ Reply(r, "error")
        /\ UNCHANGED owner
  /\ UNCHANGED <<addresses, faults>>

\* The bridge flow claims a share for the issuer of a rune that has none, from
\* the same stock (step by step in RunesBridge).
ClaimForIssuer(rune) ==
  /\ \A s \in ShareIds :
       owner[s] # None => ~(owner[s].issuer /\ owner[s].rune = rune)
  /\ \E s \in UnusedFinalized : owner' = [owner EXCEPT ![s] = NewRow(rune, TRUE)]
  /\ UNCHANGED <<share, toStart, running, addresses, runtime, flow, faults>>

\* set_external_user_id: the unique index on (external_user_id, rune_id)
\* refuses a second share for the user; the share claimed stays claimed.
SetExternalUserId(r) ==
  LET s == flow[r].share IN
  /\ FlowStep(r, "own")
  /\ \/ /\ Found(r) = {}
        /\ owner' = [owner EXCEPT ![s].external = r.user]
        /\ Goto(r, "issue")
     \/ /\ Found(r) # {}
        /\ Reply(r, "error")
        /\ UNCHANGED owner
  /\ UNCHANGED <<addresses, faults>>

\* normalize_rune_amount: the raw amount without metadata, else the amount in
\* the rune's smallest unit, refused when it does not fit.
Scaled(n) == n * 10^Divisibility
Normalized(n) == {n} \cup ({Scaled(n)} \cap 0..MaxAmount)

\* The address is derived from the share under a fresh nonce (here: the request)
\* and its row inserted.
IssueAddress(r) ==
  LET s == flow[r].share IN
  /\ FlowStep(r, "issue")
  /\ \/ /\ \E n \in Normalized(r.amount) :
             addresses' = addresses \cup
               {[share |-> s, nonce |-> r, kind |-> r.kind,
                 requested |-> r.amount, amount |-> n]}
        /\ Reply(r, "ok")
     \/ /\ Scaled(r.amount) > MaxAmount
        /\ Reply(r, "error")
        /\ UNCHANGED addresses
  /\ UNCHANGED <<owner, faults>>

\* Any `?` of the flow: a database error ends it with an error.
FlowErr(r) ==
  /\ flow[r].pc \in {"lookup", "pick", "claim", "own", "issue"}
  /\ Fault
  /\ Reply(r, "error")
  /\ UNCHANGED <<pool, addresses, runtime>>

\* The answer is sent; then the flow announces its end, waiting while that
\* channel is full.
AnnounceEnd(r) ==
  /\ flow[r].pc = "reply"
  /\ Cardinality(finished) < Capacity
  /\ finished' = finished \cup {r}
  /\ Goto(r, "ended")
  /\ UNCHANGED <<pool, addresses, queue, flows, proc, retry, faults>>

-----------------------------------------------------------------------------
RunFlow(r) ==
  \/ LookUp(r)
  \/ PickUnusedShare(r)
  \/ ClaimShare(r)
  \/ SetExternalUserId(r)
  \/ IssueAddress(r)
  \/ AnnounceEnd(r)

RunLoop ==
  \/ ReceiveMessage
  \/ ReceiveFinished
  \/ DrainRound
  \/ Stop

PregenLoop ==
  \/ PerformUpdate
  \/ GenerateDkgShareEntity
  \/ \E s \in ShareIds : RunDkgFlow(s)

Next ==
  \/ PregenLoop
  \/ \E r \in Requests : Call(r) \/ SendMessage(r) \/ RunFlow(r) \/ FlowErr(r)
  \/ \E r \in Requests : ClaimForIssuer(r.rune)
  \/ RunLoop
  \/ Shutdown
  \/ Restart

Spec == Init /\ [][Next]_vars

\* The runtime polls every ready future, the channels serve waiting senders in
\* order, the interval keeps ticking and the verifiers answer the calls of a key
\* generation. Callers, and the operator who shuts down, owe nothing.
Fairness ==
  /\ WF_vars(PregenLoop)
  /\ WF_vars(RunLoop)
  /\ \A r \in Requests : SF_vars(SendMessage(r)) /\ SF_vars(RunFlow(r))

FairSpec == Spec /\ Fairness

-----------------------------------------------------------------------------
(* Properties.                                                             *)

\* What was answered is what the tables say: a caller that got an address has
\* one row for it, derived from a finished share that belongs to exactly that
\* user and rune, for the amount it asked for, raw or exactly scaled. No lock
\* is held from the lookup to the INSERT, so requests of one user and flows
\* that picked the same share meet only at the table's keys.
IssuedAsRequested ==
  /\ \A d \in addresses :
       LET r == d.nonce IN
       /\ share[d.share] = "DkgFinalized"
       /\ owner[d.share] = [rune |-> r.rune, issuer |-> FALSE, external |-> r.user]
       /\ d.amount \in {r.amount, Scaled(r.amount)} /\ d.amount <= MaxAmount
  /\ \A d, e \in addresses :
       (d.nonce.user = e.nonce.user /\ d.nonce.rune = e.nonce.rune) <=> d.share = e.share
  /\ \A r \in Requests :
       flow[r].answer = "ok" => \E d \in addresses : d.nonce = r

\* Flows that take shares, failing generations and restarts never let the
\* thread overshoot: the unused shares, counting those being generated or still
\* to be inserted, stay within the threshold.
PoolBounded ==
  Cardinality(UnusedFinalized) + Cardinality(running) + toStart <= MinThreshold

\* A stopped flow processor leaves nothing behind: no flow goes on writing, and
\* no caller it ever accepted waits for an answer.
StopLeavesNothing ==
  proc = "stopped" =>
    \A r \in Requests :
      /\ flow[r].pc \in Ended \cup {"sending"}
      /\ flow[r].pc = "ended" => flow[r].answer # "none"

\* Every call is answered: full channels, a shutdown at any moment and a restart
\* may turn the answer into an error and never leave a caller waiting.
EveryCallAnswered ==
  \A r \in Requests : flow[r].pc = "sending" ~> flow[r].answer # "none"

\* Enough ids left for the bound not to be what stops the thread.
IdsLeft == Cardinality(FreeIds) >= MinThreshold

\* An empty stock is refilled, however many key generations failed before and
\* left unfinished rows behind.
StockRefilled == IdsLeft ~> UnusedFinalized # {} \/ ~IdsLeft

-----------------------------------------------------------------------------
(* The inductive invariant behind the safety properties.                   *)

InFlow == {"lookup", "pick", "claim", "own", "issue", "reply"}
AddressType == [share : ShareIds, nonce : Requests, kind : Kinds,
                requested : 0..MaxAmount, amount : 0..MaxAmount]
FlowType == [pc : {"idle", "sending", "queued", "ended"} \cup InFlow,
             share : ShareIds \cup {None}, answer : {"none", "ok", "error"}]

TypeOK ==
  /\ share \in [ShareIds -> {"free", "unfinished", "DkgFinalized"}]
  /\ owner \in [ShareIds -> Rows \cup {None}]
  /\ addresses \subseteq AddressType
  /\ toStart \in Nat /\ running \subseteq ShareIds
  /\ queue \in Seq(Requests) /\ flows \subseteq Requests /\ finished \subseteq Requests
  /\ proc \in {"running", "draining", "stopped"} /\ retry \in 0..Retries
  /\ flow \in [Requests -> FlowType]
  /\ faults \in 0..MaxFaults

UserRow(r) == [rune |-> r.rune, issuer |-> FALSE, external |-> r.user]

\* Only finished shares are owned; a user has one share per rune and an issuer
\* has no user.
OwnerSound ==
  /\ \A s \in running : share[s] = "unfinished"
  /\ \A s \in ShareIds : owner[s] # None =>
       /\ share[s] = "DkgFinalized"
       /\ owner[s].issuer => owner[s].external = None
  /\ \A s, t \in ShareIds :
       /\ owner[s] # None /\ owner[t] # None
       /\ owner[s].rune = owner[t].rune
       /\ owner[s].external = owner[t].external /\ owner[s].external # None
       => s = t

\* What the share of a flow is at each of its steps; one that it claimed and
\* did not yet give to its user is no other flow's.
FlowShares ==
  /\ \A r \in Requests :
       /\ flow[r].pc \in {"claim", "own", "issue"} => flow[r].share \in ShareIds
       /\ flow[r].pc = "claim" => share[flow[r].share] = "DkgFinalized"
       /\ flow[r].pc = "own" => owner[flow[r].share] = NewRow(r.rune, FALSE)
       /\ flow[r].pc = "issue" => owner[flow[r].share] = UserRow(r)
  /\ \A r, q \in Requests :
       flow[r].pc = "own" /\ flow[q].pc = "own" /\ flow[r].share = flow[q].share => r = q

\* An address belongs to the user and rune of its request, who was answered.
AddressSound ==
  /\ \A d \in addresses : /\ owner[d.share] = UserRow(d.nonce)
                          /\ d.amount \in {d.nonce.amount, Scaled(d.nonce.amount)}
  /\ \A r \in Requests :
       /\ flow[r].answer = "ok" => \E d \in addresses : d.nonce = r
       /\ flow[r].pc \in {"reply", "ended"} => flow[r].answer # "none"

\* The queue, the map and the announcements agree with where the flows are.
RuntimeSound ==
  /\ \A i \in 1..Len(queue) : flow[queue[i]].pc = "queued"
  /\ \A i, j \in 1..Len(queue) : queue[i] = queue[j] => i = j
  /\ \A r \in finished : flow[r].pc = "ended"
  /\ \A r \in Requests : flow[r].pc \in InFlow => r \in flows
  /\ proc = "stopped" => flows = {} /\ \A r \in Requests : flow[r].pc # "queued"

IInv == TypeOK /\ OwnerSound /\ FlowShares /\ AddressSound /\ RuntimeSound /\ PoolBounded
=============================================================================
