------------------------------ MODULE FrostDkg ------------------------------
(***************************************************************************)
(* Distributed key generation: run_dkg_flow of the gateway's aggregator    *)
(* drives round 1, round 2 and finalize of every verifier's signer for a   *)
(* DKG share. Calls of run_dkg_flow for the same share may overlap; each   *)
(* side stores its progress and refuses a step that does not follow.       *)
(*   crates/frost/src/{aggregator,signer,types}.rs                         *)
(*                                                                         *)
(* A polynomial drawn by a signer in part1 is named by the flow that asked *)
(* for it; packages, commitments and secret shares are named by their      *)
(* polynomial, and a public key package by the vector of all commitments.  *)
(***************************************************************************)
EXTENDS Naturals

CONSTANTS
  Verifiers,   \* the signers
  Shares,      \* DKG share ids whose row exists with state Initialized
  Flows,       \* calls of run_dkg_flow
  None,
  MaxFaults    \* bound: lost calls and answers, storage errors, restarts

ASSUME DkgAssumption ==
  /\ Verifiers # {}
  /\ None \notin Shares \cup Flows
  /\ MaxFaults \in Nat

VARIABLES
  agg,      \* gateway.dkg_share.dkg_aggregator_state
  signer,   \* verifier.dkg_share.dkg_signer_state
  lock,     \* FrostSigner.locked_dkg_share_ids (in memory)
  flow,     \* the run_dkg_flow calls
  answer,   \* the signer calls of each flow's current round
  faults

vars == <<agg, signer, lock, flow, answer, faults>>

Vector == [Verifiers -> Flows \cup {None}]
NoVector == [v \in Verifiers |-> None]

\* AggregatorDkgState: the round-1 packages, the senders' polynomials behind
\* the round-2 packages, and the public key package.
AggType == [st : {"Initialized", "DkgRound1", "DkgRound2", "DkgFinalized"},
            r1 : Vector, r2 : Vector, key : Vector]
\* SignerDkgState: own polynomial, the others' round-1 packages (with the own
\* one: the key they determine).
SignerType == [st : {"none", "DkgRound1", "DkgRound2", "DkgFinalized"},
               own : Flows \cup {None}, key : Vector]
\* A flow is about to read the row ("read") or waits for the signers
\* ("calls"), in one of three rounds. It ends before ("refused") or after
\* ("failed") the calls of its round were sent, or with the key ("done").
FlowPC == {"idle", "read", "calls", "done", "failed", "refused"}
FlowType == [pc : FlowPC, round : 0..3,
             share : Shares \cup {None}, r1 : Vector, r2 : Vector]
\* A call is under way in dkg_round_1 after taking the lock ("locked") and
\* after finding no data ("fresh").
AnswerType == [st : {"none", "locked", "fresh", "ok", "err"}, val : Flows \cup {None}, key : Vector]

TypeOK ==
  /\ agg \in [Shares -> AggType]
  /\ signer \in [Verifiers -> [Shares -> SignerType]]
  /\ lock \in [Verifiers -> SUBSET Shares]
  /\ flow \in [Flows -> FlowType]
  /\ answer \in [Flows -> [Verifiers -> AnswerType]]
  /\ faults \in 0..MaxFaults

NoAnswer == [st |-> "none", val |-> None, key |-> NoVector]
Answered(st, val, key) == [st |-> st, val |-> val, key |-> key]

Init ==
  /\ agg = [s \in Shares |-> [st |-> "Initialized", r1 |-> NoVector,
                              r2 |-> NoVector, key |-> NoVector]]
  /\ signer = [v \in Verifiers |-> [s \in Shares |->
                [st |-> "none", own |-> None, key |-> NoVector]]]
  /\ lock = [v \in Verifiers |-> {}]
  /\ flow = [f \in Flows |-> [pc |-> "idle", round |-> 0, share |-> None,
                              r1 |-> NoVector, r2 |-> NoVector]]
  /\ answer = [f \in Flows |-> [v \in Verifiers |-> NoAnswer]]
  /\ faults = 0

Fault == /\ faults < MaxFaults
         /\ faults' = faults + 1

-----------------------------------------------------------------------------
(* The aggregator.                                                         *)

\* run_dkg_flow: refuses a share that is past Initialized.
RunDkgFlow(f, s) ==
  /\ flow[f].pc = "idle"
  /\ flow' = [flow EXCEPT ![f] =
                [@ EXCEPT !.share = s,
                          !.pc = IF agg[s].st = "Initialized" THEN "read" ELSE "refused",
                          !.round = 1]]
  /\ UNCHANGED <<agg, signer, lock, answer, faults>>

StateBefore == <<"Initialized", "DkgRound1", "DkgRound2">>

\* dkg_round_1, dkg_round_2, dkg_finalize: read the row, and either refuse or
\* send the calls, keeping the packages just read.
StartRound(f) ==
  LET row == agg[flow[f].share] IN
  /\ flow[f].pc = "read"
  /\ IF row.st = StateBefore[flow[f].round]
       THEN /\ flow' = [flow EXCEPT ![f] = [@ EXCEPT !.pc = "calls",
                                                     !.r1 = row.r1, !.r2 = row.r2]]
            /\ answer' = [answer EXCEPT ![f] = [v \in Verifiers |-> NoAnswer]]
       ELSE /\ flow' = [flow EXCEPT ![f].pc = "refused"]
            /\ UNCHANGED answer
  /\ UNCHANGED <<agg, signer, lock, faults>>

AllAnswered(f) == \A v \in Verifiers : answer[f][v].st \in {"ok", "err"}
AllOk(f) == \A v \in Verifiers : answer[f][v].st = "ok"
Values(f) == [v \in Verifiers |-> answer[f][v].val]

\* join_all, then `?` on each answer: one error and nothing is stored.
JoinErr(f) ==
  /\ flow[f].pc = "calls"
  /\ AllAnswered(f)
  /\ ~AllOk(f)
  /\ flow' = [flow EXCEPT ![f].pc = "failed"]
  /\ UNCHANGED <<agg, signer, lock, answer, faults>>

\* set_dkg_share_agg_data is an upsert: it does not look at the row it replaces.
JoinRound1(f) ==
  /\ flow[f].pc = "calls" /\ flow[f].round = 1
  /\ AllOk(f)
  /\ agg' = [agg EXCEPT ![flow[f].share] =
               [st |-> "DkgRound1", r1 |-> Values(f), r2 |-> NoVector, key |-> NoVector]]
  /\ flow' = [flow EXCEPT ![f] = [@ EXCEPT !.pc = "read", !.round = 2]]
  /\ UNCHANGED <<signer, lock, answer, faults>>

JoinRound2(f) ==
  /\ flow[f].pc = "calls" /\ flow[f].round = 2
  /\ AllOk(f)
  /\ agg' = [agg EXCEPT ![flow[f].share] =
               [st |-> "DkgRound2", r1 |-> flow[f].r1, r2 |-> Values(f), key |-> NoVector]]
  /\ flow' = [flow EXCEPT ![f] = [@ EXCEPT !.pc = "read", !.round = 3]]
  /\ UNCHANGED <<signer, lock, answer, faults>>

SameKey(f) == \A v, w \in Verifiers : answer[f][v].key = answer[f][w].key

\* dkg_finalize also compares the public key packages with the first one.
JoinFinalize(f) ==
  /\ flow[f].pc = "calls" /\ flow[f].round = 3
  /\ AllOk(f)
  /\ \E v \in Verifiers :
       agg' = IF SameKey(f)
                THEN [agg EXCEPT ![flow[f].share] =
                        [st |-> "DkgFinalized", r1 |-> NoVector, r2 |-> NoVector,
                         key |-> answer[f][v].key]]
                ELSE agg
  /\ flow' = [flow EXCEPT ![f].pc = IF SameKey(f) THEN "done" ELSE "failed"]
  /\ UNCHANGED <<signer, lock, answer, faults>>

\* A database error, or the gateway stops. Calls already sent are still on
\* their way.
FlowErr(f) ==
  /\ flow[f].pc \in {"read", "calls"}
  /\ Fault
  /\ flow' = [flow EXCEPT ![f].pc = IF @ = "calls" THEN "failed" ELSE "refused"]
  /\ UNCHANGED <<agg, signer, lock, answer>>

-----------------------------------------------------------------------------
(* The signers.                                                            *)

Sent(f, v, round) ==
  /\ flow[f].pc \in {"calls", "failed"} /\ flow[f].round = round
  /\ answer[f][v].st = "none"

Answer(f, v, st, val, key) == answer' = [answer EXCEPT ![f][v] = Answered(st, val, key)]

\* Bug: the lock is taken without looking whether it is held.
LockAlways(f, v) ==
  /\ Sent(f, v, 1)
  /\ lock' = [lock EXCEPT ![v] = @ \cup {flow[f].share}]
  /\ Answer(f, v, "locked", None, NoVector)
  /\ UNCHANGED <<agg, signer, flow, faults>>

\* dkg_round_1, up to lock_dkg_share_id.
LockDkgShareId(f, v) ==
  LET s == flow[f].share IN
  /\ Sent(f, v, 1)
  /\ IF s \in lock[v]
       THEN /\ Answer(f, v, "err", None, NoVector)
            /\ UNCHANGED lock
       ELSE /\ lock' = [lock EXCEPT ![v] = @ \cup {s}]
            /\ Answer(f, v, "locked", None, NoVector)
  /\ UNCHANGED <<agg, signer, flow, faults>>

\* Bug: a share that already has data is not refused.
ReadAnySignerData(f, v) ==
  /\ answer[f][v].st = "locked"
  /\ Answer(f, v, "fresh", None, NoVector)
  /\ UNCHANGED <<agg, signer, lock, flow, faults>>

\* dkg_round_1, get_dkg_share_signer_data: a share that has data is refused
\* and the lock given back.
ReadSignerData(f, v) ==
  LET s == flow[f].share IN
  /\ answer[f][v].st = "locked"
  /\ IF signer[v][s].st = "none"
       THEN /\ Answer(f, v, "fresh", None, NoVector)
            /\ UNCHANGED lock
       ELSE /\ lock' = [lock EXCEPT ![v] = @ \ {s}]
            /\ Answer(f, v, "err", None, NoVector)
  /\ UNCHANGED <<agg, signer, flow, faults>>

\* Bug: round 1 gives the lock back itself.
StoreRound1AndUnlock(f, v) ==
  LET s == flow[f].share IN
  /\ answer[f][v].st = "fresh"
  /\ signer' = [signer EXCEPT ![v][s] = [st |-> "DkgRound1", own |-> f, key |-> NoVector]]
  /\ lock' = [lock EXCEPT ![v] = @ \ {s}]
  /\ Answer(f, v, "ok", f, NoVector)
  /\ UNCHANGED <<agg, flow, faults>>

\* Bug: the answer names the share instead of the package.
StoreRound1AnswerShare(f, v) ==
  LET s == flow[f].share IN
  /\ answer[f][v].st = "fresh"
  /\ signer' = [signer EXCEPT ![v][s] = [st |-> "DkgRound1", own |-> f, key |-> NoVector]]
  /\ Answer(f, v, "ok", s, NoVector)
  /\ UNCHANGED <<agg, lock, flow, faults>>

\* dkg_round_1, part1 and set_dkg_share_signer_data (an upsert). The lock
\* outlives a successful round 1.
StoreRound1(f, v) ==
  LET s == flow[f].share IN
  /\ answer[f][v].st = "fresh"
  /\ signer' = [signer EXCEPT ![v][s] = [st |-> "DkgRound1", own |-> f, key |-> NoVector]]
  /\ Answer(f, v, "ok", f, NoVector)
  /\ UNCHANGED <<agg, lock, flow, faults>>

\* A storage error, or the handler is dropped: the lock stays.
SignerRound1Err(f, v) ==
  /\ answer[f][v].st \in {"locked", "fresh"}
  /\ Fault
  /\ Answer(f, v, "err", None, NoVector)
  /\ UNCHANGED <<agg, signer, lock, flow>>

\* dkg_round_2: part2 keeps the others' packages; the answer carries shares of
\* the own polynomial.
SignerRound2(f, v) ==
  LET s == flow[f].share
      data == signer[v][s]
  IN
  /\ Sent(f, v, 2)
  /\ IF data.st = "DkgRound1"
       THEN /\ signer' = [signer EXCEPT ![v][s] =
                            [st |-> "DkgRound2", own |-> data.own,
                             key |-> [flow[f].r1 EXCEPT ![v] = data.own]]]
            /\ Answer(f, v, "ok", data.own, NoVector)
       ELSE /\ Answer(f, v, "err", None, NoVector)
            /\ UNCHANGED signer
  /\ UNCHANGED <<agg, lock, flow, faults>>

\* part3 checks every secret share against its sender's commitment.
Part3Ok(v, seen, r2) == \A w \in Verifiers \ {v} : r2[w] = seen[w]

\* dkg_finalize: the key is stored, then the lock released; a lock lost in a
\* restart turns the answer into an error with the key already stored.
SignerFinalize(f, v) ==
  LET s == flow[f].share
      data == signer[v][s]
  IN
  /\ Sent(f, v, 3)
  /\ IF data.st = "DkgRound2" /\ Part3Ok(v, data.key, flow[f].r2)
       THEN /\ signer' = [signer EXCEPT ![v][s].st = "DkgFinalized"]
            /\ lock' = [lock EXCEPT ![v] = @ \ {s}]
            /\ IF s \in lock[v] THEN Answer(f, v, "ok", None, data.key)
                                ELSE Answer(f, v, "err", None, NoVector)
       ELSE /\ Answer(f, v, "err", None, NoVector)
            /\ UNCHANGED <<signer, lock>>
  /\ UNCHANGED <<agg, flow, faults>>

\* The request never arrives, or the answer is lost on its way back.
CallLost(f, v) ==
  /\ flow[f].pc = "calls"
  /\ answer[f][v].st \in {"none", "ok"}
  /\ Fault
  /\ Answer(f, v, "err", None, NoVector)
  /\ UNCHANGED <<agg, signer, lock, flow>>

\* The lock set is in memory only; handlers in progress are gone.
VerifierRestart(v) ==
  /\ Fault
  /\ lock' = [lock EXCEPT ![v] = {}]
  /\ answer' = [f \in Flows |->
                  [answer[f] EXCEPT ![v] = IF @.st \in {"locked", "fresh"}
                                             THEN Answered("err", None, NoVector) ELSE @]]
  /\ UNCHANGED <<agg, signer, flow>>

-----------------------------------------------------------------------------
AggregatorStep(f) ==
  StartRound(f) \/ JoinErr(f) \/ JoinRound1(f) \/ JoinRound2(f) \/ JoinFinalize(f)

SignerStep(f, v) ==
  \/ LockDkgShareId(f, v)
  \/ ReadSignerData(f, v)
  \/ StoreRound1(f, v)
  \/ SignerRound2(f, v)
  \/ SignerFinalize(f, v)

Next ==
  \/ \E f \in Flows, s \in Shares : RunDkgFlow(f, s)
  \/ \E f \in Flows : AggregatorStep(f) \/ FlowErr(f)
  \/ \E f \in Flows, v \in Verifiers :
       SignerStep(f, v) \/ SignerRound1Err(f, v) \/ CallLost(f, v)
  \/ \E v \in Verifiers : VerifierRestart(v)

Spec == Init /\ [][Next]_vars

\* Both programs poll their futures; calling run_dkg_flow is up to the caller.
FairSpec ==
  /\ Spec
  /\ \A f \in Flows : WF_vars(AggregatorStep(f))
  /\ \A f \in Flows, v \in Verifiers : WF_vars(SignerStep(f, v))

-----------------------------------------------------------------------------
(* Properties.                                                             *)

\* A share the aggregator calls finalized can sign: every signer has stored a
\* key for it, all of them the same public key as the aggregator, drawn in one
\* single run of the protocol, and nothing later (a second flow, a late call, a
\* restart) takes it away.
FinalizedAgree ==
  \A s \in Shares :
    agg[s].st = "DkgFinalized" =>
      /\ \A v \in Verifiers : /\ signer[v][s].st = "DkgFinalized"
                              /\ signer[v][s].key = agg[s].key
      /\ \E f \in Flows : agg[s].key = [v \in Verifiers |-> f]

\* At most one flow of a share gets past round 1: that is what the signers'
\* locks are for.
PastRound1(f) == flow[f].round > 1
OneFlowPastRound1 ==
  \A f, g \in Flows :
    PastRound1(f) /\ PastRound1(g) /\ flow[f].share = flow[g].share => f = g

Rank(st) == CASE st \in {"none", "Initialized"} -> 0
              [] st = "DkgRound1" -> 1
              [] st = "DkgRound2" -> 2
              [] st = "DkgFinalized" -> 3

\* Neither side's stored state ever goes back, whatever upserts race, and a
\* stored key is never replaced.
Forward ==
  /\ \A s \in Shares :
       /\ Rank(agg'[s].st) >= Rank(agg[s].st)
       /\ agg[s].st = "DkgFinalized" => agg'[s] = agg[s]
  /\ \A v \in Verifiers, s \in Shares :
       /\ Rank(signer'[v][s].st) >= Rank(signer[v][s].st)
       /\ signer[v][s].st = "DkgFinalized" => signer'[v][s] = signer[v][s]
NoRegress == [][Forward]_vars

\* While no call fails and no verifier restarts, a share that only one flow
\* works on gets its key.
DkgCompletes ==
  \A f \in Flows, s \in Shares :
    flow[f].pc = "read" /\ flow[f].share = s ~>
      \/ agg[s].st = "DkgFinalized"
      \/ faults > 0
      \/ \E g \in Flows \ {f} : flow[g].share = s

-----------------------------------------------------------------------------
(* The strengthening that makes FinalizedAgree inductive.                  *)

Same(f) == [v \in Verifiers |-> f]
Working(f, v) == answer[f][v].st \in {"locked", "fresh"}

\* While a share has no data, a round-1 handler under way holds its lock,
\* alone. (Later it may not: finalize of another flow releases that lock.)
HandlerHoldsLock ==
  \A f \in Flows, v \in Verifiers :
    Working(f, v) =>
      /\ flow[f].round = 1
      /\ answer[f][v].st = "fresh" => signer[v][flow[f].share].st = "none"
      /\ signer[v][flow[f].share].st = "none" =>
           /\ flow[f].share \in lock[v]
           /\ \A g \in Flows : Working(g, v) /\ flow[g].share = flow[f].share => g = f

\* A flow has a share from the first read on.
FlowHasShare ==
  \A f \in Flows :
    /\ flow[f].pc # "idle" => flow[f].share # None /\ flow[f].round # 0
    /\ flow[f].pc = "idle" => flow[f].round = 0 /\ \A v \in Verifiers : answer[f][v].st = "none"

\* The signers whose round 1 a flow knows succeeded hold its polynomial.
Owns(f, v) == signer[v][flow[f].share].st # "none" /\ signer[v][flow[f].share].own = f
OwnsOk ==
  \A f \in Flows, v \in Verifiers :
    /\ flow[f].round = 1 /\ answer[f][v].st = "ok"
         => Owns(f, v) /\ answer[f][v].val = f
    /\ flow[f].round > 1 => Owns(f, v)

\* What a flow sends in rounds 2 and 3 is its own run's.
SentOk ==
  \A f \in Flows :
    flow[f].pc \in {"calls", "failed"} =>
      /\ flow[f].round = 2 => flow[f].r1 = Same(f)
      /\ flow[f].round = 3 => flow[f].r2 = Same(f)

\* What the signers answer in rounds 2 and 3 is what they stored.
AnsweredOk ==
  \A f \in Flows, v \in Verifiers :
    flow[f].pc = "calls" /\ answer[f][v].st = "ok" =>
      /\ flow[f].round = 2 => answer[f][v].val = f
      /\ flow[f].round = 3 => /\ signer[v][flow[f].share].st = "DkgFinalized"
                              /\ answer[f][v].key = Same(f)

SignerOk ==
  \A v \in Verifiers, s \in Shares :
    signer[v][s].st \in {"DkgRound2", "DkgFinalized"} =>
      signer[v][s].key = Same(signer[v][s].own)

\* The row past Initialized is that of the one flow past round 1.
RunOf(s, f) ==
  /\ flow[f].share = s /\ flow[f].round > 1
  /\ agg[s].st = "DkgRound1" => agg[s].r1 = Same(f)
  /\ agg[s].st = "DkgRound2" => agg[s].r2 = Same(f) /\ flow[f].round = 3
  /\ agg[s].st = "DkgFinalized" =>
       /\ agg[s].key = Same(f) /\ flow[f].pc = "done"
       /\ \A v \in Verifiers : signer[v][s].st = "DkgFinalized"
AggOk ==
  \A s \in Shares : agg[s].st # "Initialized" => \E f \in Flows : RunOf(s, f)

IInv ==
  /\ TypeOK /\ HandlerHoldsLock /\ FlowHasShare /\ OwnsOk
  /\ SentOk /\ AnsweredOk /\ SignerOk /\ AggOk
=============================================================================
