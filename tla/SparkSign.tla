------------------------------ MODULE SparkSign ------------------------------
(***************************************************************************)
(* send_spark_transaction: the gateway authenticates at the Spark operator *)
(* with a signed challenge, signs and starts a token transaction, signs it *)
(* once more for every operator at the same time, and commits it. Every    *)
(* signature is a FROST session of the aggregator with all signers; every  *)
(* call of the operator is tried up to three times.                        *)
(*   gateway/crates/spark_service/src/service.rs                           *)
(*   crates/spark_client/src/client.rs                                     *)
(*   crates/frost/src/{aggregator,signer}.rs (signing)                     *)
(* The operator is external: it may carry out a call whose answer is lost, *)
(* at once or later, and may make a new transaction for a repeated start.  *)
(***************************************************************************)
EXTENDS Naturals, FiniteSets

CONSTANTS
  Sends,       \* calls of send_spark_transaction
  Keys,        \* issuer keys (a DKG share with its tweak)
  KeyOf,       \* the key a call signs with
  Signers,     \* the verifiers
  Operators,   \* spark_operator_identity_public_keys
  MaxTries,    \* N_QUERY_RETRIES
  MaxFaults,   \* bound: failing calls
  MaxLapses    \* bound: expiring sessions

ASSUME ConstantsAssumption ==
  /\ KeyOf \in [Sends -> Keys]
  /\ Operators \cap {"auth", "partial"} = {}
  /\ MaxTries \in Nat \ {0} /\ MaxFaults \in Nat /\ MaxLapses \in Nat

Purposes == {"auth", "partial"} \cup Operators
Finals == Sends \X (1..MaxTries)     \* final transactions, by the start that made them
Remote == {"challenge", "verify", "start", "commit"}
NoTx == <<>>

VARIABLES
  send,        \* each call: where it is, which try, the final transaction it was given
  ses,         \* each call's signing sessions, one per purpose, at the aggregator
  row,         \* verifier.sign_session: message and state, by signer and session id
  shares,      \* the messages each signer has given signature shares for
  session,     \* authn_sessions of the operator client, by key
  calls,       \* starts and commits the operator has received and not yet carried out
  committed,   \* final transactions committed at the operator
  faults, lapses

vars == <<send, ses, row, shares, session, calls, committed, faults, lapses>>

SessionIds == Sends \X Purposes

\* Bug: sessions are told apart by their key only.
KeySessionId(s, p) == <<CHOOSE t \in Sends : KeyOf[t] = KeyOf[s], "auth">>

\* run_signing_flow takes a fresh session id.
SessionId(s, p) == <<s, p>>

\* What a session signs: the challenge, the partial transaction's hash, or the
\* final transaction's hash for one operator.
Message(s, p) == <<s, p, IF p \in Operators THEN send[s].final ELSE NoTx>>
NoRow == [msg |-> NoTx, state |-> "none"]

Init ==
  /\ send = [s \in Sends |-> [pc |-> "idle", tries |-> 0, final |-> NoTx]]
  /\ ses = [s \in Sends |-> [p \in Purposes |-> "round1"]]
  /\ row = [v \in Signers |-> [i \in SessionIds |-> NoRow]]
  /\ shares = [v \in Signers |-> {}]
  /\ session = [k \in Keys |-> "none"]
  /\ calls = {} /\ committed = {}
  /\ faults = 0 /\ lapses = 0

Fault == /\ faults < MaxFaults
         /\ faults' = faults + 1

Goto(s, pc) == send' = [send EXCEPT ![s].pc = pc, ![s].tries = 0]

-----------------------------------------------------------------------------
(* The operator client: cached sessions and retried calls.                 *)

\* get_auth_session: an expired entry is removed and not used.
GetAuthSession(k) == session' = [session EXCEPT ![k] = IF @ = "live" THEN @ ELSE "none"]

\* authenticate uses the cached session or asks for a challenge.
Authenticate(s) ==
  /\ send[s].pc = "idle"
  /\ GetAuthSession(KeyOf[s])
  /\ IF session[KeyOf[s]] = "live" THEN Goto(s, "partialSign") ELSE Goto(s, "challenge")
  /\ UNCHANGED <<ses, row, shares, calls, committed, faults, lapses>>

\* start and commit look the session up again, before the first try.
NoSession(s) ==
  /\ send[s].pc \in {"start", "commit"} /\ send[s].tries = 0
  /\ session[KeyOf[s]] # "live"
  /\ GetAuthSession(KeyOf[s])
  /\ Goto(s, "err")
  /\ UNCHANGED <<ses, row, shares, calls, committed, faults, lapses>>

HasSession(s) ==
  send[s].pc \in {"start", "commit"} /\ send[s].tries = 0 => session[KeyOf[s]] = "live"

\* The request of the current try.
Request(s) ==
  [kind |-> send[s].pc,
   tx |-> IF send[s].pc = "start" THEN <<s, send[s].tries + 1>> ELSE send[s].final]

CallChallenge(s) ==
  /\ send[s].pc = "challenge"
  /\ Goto(s, "authSign")
  /\ UNCHANGED <<ses, row, shares, session, calls, committed, faults, lapses>>

\* verify_challenge caches the session it is given.
CallVerify(s) ==
  /\ send[s].pc = "verify"
  /\ session' = [session EXCEPT ![KeyOf[s]] = "live"]
  /\ Goto(s, "partialSign")
  /\ UNCHANGED <<ses, row, shares, calls, committed, faults, lapses>>

\* The answer names the transaction made for this try, or for an earlier one.
CallStart(s) ==
  /\ send[s].pc = "start" /\ HasSession(s)
  /\ \E n \in 1..(send[s].tries + 1) :
       send' = [send EXCEPT ![s] = [pc |-> "finalSign", tries |-> 0, final |-> <<s, n>>]]
  /\ UNCHANGED <<ses, row, shares, session, calls, committed, faults, lapses>>

CallCommit(s) ==
  /\ send[s].pc = "commit" /\ HasSession(s)
  /\ committed' = committed \cup {send[s].final}
  /\ Goto(s, "ok")
  /\ UNCHANGED <<ses, row, shares, session, calls, faults, lapses>>

\* Bug: after a failed commit the transaction is started again.
RestartAfterCommit(s) ==
  /\ send[s].pc \in Remote /\ HasSession(s)
  /\ Fault
  /\ send' = [send EXCEPT ![s].tries = (@ + 1) % MaxTries,
                          ![s].pc = IF @ = "commit" THEN "start"
                                    ELSE IF send[s].tries + 1 < MaxTries THEN @ ELSE "err"]
  /\ calls' = IF send[s].pc \in {"start", "commit"} THEN calls \cup {Request(s)} ELSE calls
  /\ UNCHANGED <<ses, row, shares, session, committed, lapses>>

\* retry_query: an error is tried again, the same request MaxTries times in
\* all. The operator may have received it.
CallErr(s) ==
  /\ send[s].pc \in Remote /\ HasSession(s)
  /\ Fault
  /\ IF send[s].tries + 1 < MaxTries
       THEN send' = [send EXCEPT ![s].tries = @ + 1]
       ELSE Goto(s, "err")
  /\ \/ UNCHANGED calls
     \/ send[s].pc \in {"start", "commit"} /\ calls' = calls \cup {Request(s)}
  /\ UNCHANGED <<ses, row, shares, session, committed, lapses>>

-----------------------------------------------------------------------------
(* FROST signing, one session per purpose.                                 *)

\* The sessions a call runs now: one, or one for every operator.
Current(s) ==
  CASE send[s].pc = "authSign" -> {"auth"}
    [] send[s].pc = "partialSign" -> {"partial"}
    [] send[s].pc = "finalSign" -> Operators
    [] OTHER -> {}

AfterSigning(s) ==
  CASE send[s].pc = "authSign" -> "verify"
    [] send[s].pc = "partialSign" -> "start"
    [] send[s].pc = "finalSign" -> "commit"

SetSes(s, p, st) == ses' = [ses EXCEPT ![s][p] = st]

\* run_signing_flow is waiting for the answers of round 1.
InRound1(s, p) == p \in Current(s) /\ ses[s][p] = "round1"

\* The signer's sign_round_1 stores fresh nonces with the message. Only the
\* state of an existing row would be replaced.
SignerRound1(v, s, p) ==
  LET i == SessionId(s, p) IN
  /\ InRound1(s, p)
  /\ row[v][i].msg # Message(s, p) \/ row[v][i].state = "none"
  /\ row' = [row EXCEPT ![v][i] =
               [msg |-> IF @ = NoRow THEN Message(s, p) ELSE @.msg, state |-> "nonces"]]
  /\ UNCHANGED <<send, ses, shares, session, calls, committed, faults, lapses>>

\* All commitments are there: the signing package is stored.
StorePackage(s, p) ==
  /\ InRound1(s, p)
  /\ \A v \in Signers : row[v][SessionId(s, p)].state # "none"
  /\ SetSes(s, p, "package")
  /\ UNCHANGED <<send, row, shares, session, calls, committed, faults, lapses>>

\* sign_round_2 at the signer asserts that the stored message is the package's
\* and uses the nonces once.
SignerRound2(v, s, p) ==
  LET i == SessionId(s, p) IN
  /\ ses[s][p] = "package"
  /\ row[v][i] = [msg |-> Message(s, p), state |-> "nonces"]
  /\ row' = [row EXCEPT ![v][i].state = "share"]
  /\ shares' = [shares EXCEPT ![v] = @ \cup {Message(s, p)}]
  /\ UNCHANGED <<send, ses, session, calls, committed, faults, lapses>>

\* The aggregate is verified under the tweaked key before it is stored.
AggregateSignature(s, p) ==
  /\ ses[s][p] = "package"
  /\ \A v \in Signers : Message(s, p) \in shares[v]
  /\ SetSes(s, p, "signed")
  /\ UNCHANGED <<send, row, shares, session, calls, committed, faults, lapses>>

\* A signer does not answer or a row cannot be stored: the session fails.
SigningErr(s, p) ==
  /\ InRound1(s, p) \/ ses[s][p] = "package"
  /\ Fault
  /\ SetSes(s, p, "failed")
  /\ UNCHANGED <<send, row, shares, session, calls, committed, lapses>>

\* Bug: failed operator signatures are left out of the commit.
SigningDoneLenient(s) ==
  LET ps == Current(s) IN
  /\ ps # {} /\ \A p \in ps : ses[s][p] \in {"signed", "failed"}
  /\ Goto(s, IF \A p \in ps : ses[s][p] = "failed" THEN "err" ELSE AfterSigning(s))
  /\ UNCHANGED <<ses, row, shares, session, calls, committed, faults, lapses>>

\* join_all waits for every session; one failure fails the call.
SigningDone(s) ==
  LET ps == Current(s) IN
  /\ ps # {} /\ \A p \in ps : ses[s][p] \in {"signed", "failed"}
  /\ Goto(s, IF \E p \in ps : ses[s][p] = "failed" THEN "err" ELSE AfterSigning(s))
  /\ UNCHANGED <<ses, row, shares, session, calls, committed, faults, lapses>>

-----------------------------------------------------------------------------
(* The operator and the clock (external).                                  *)

\* A request whose answer was lost is carried out after all.
OperatorLate(c) ==
  /\ c \in calls
  /\ calls' = calls \ {c}
  /\ committed' = IF c.kind = "commit" THEN committed \cup {c.tx} ELSE committed
  /\ UNCHANGED <<send, ses, row, shares, session, faults, lapses>>

SessionExpires(k) ==
  /\ session[k] = "live" /\ lapses < MaxLapses
  /\ session' = [session EXCEPT ![k] = "expired"]
  /\ lapses' = lapses + 1
  /\ UNCHANGED <<send, ses, row, shares, calls, committed, faults>>

-----------------------------------------------------------------------------
Sign(s) ==
  \/ \E p \in Purposes :
       \/ StorePackage(s, p) \/ AggregateSignature(s, p)
       \/ \E v \in Signers : SignerRound1(v, s, p) \/ SignerRound2(v, s, p)
  \/ SigningDone(s)

Call(s) ==
  \/ Authenticate(s) \/ NoSession(s)
  \/ CallChallenge(s) \/ CallVerify(s) \/ CallStart(s) \/ CallCommit(s)

Next ==
  \/ \E s \in Sends : Sign(s) \/ Call(s) \/ CallErr(s)
  \/ \E s \in Sends, p \in Purposes : SigningErr(s, p)
  \/ \E c \in calls : OperatorLate(c)
  \/ \E k \in Keys : SessionExpires(k)

Spec == Init /\ [][Next]_vars

\* The gateway's tasks are scheduled and the signers answer.
FairSpec == Spec /\ \A s \in Sends : WF_vars(Sign(s) \/ Call(s))

-----------------------------------------------------------------------------
(* Properties.                                                             *)

Answer == [s \in Sends |-> IF send[s].pc \in {"ok", "err"} THEN send[s].pc ELSE "none"]
Commits == [s \in Sends |-> Cardinality({f \in committed : f[1] = s})]
Contract == INSTANCE SparkCall WITH answer <- Answer, commits <- Commits

\* However starts and commits are repeated and delayed, one call commits at
\* most one transaction, and Ok is only said after the commit: the detailed
\* protocol implements the contract the flows rely on (retry_query repeats the
\* very same request, and only the transaction the answered start named is
\* ever signed).
CallContract == Contract!Spec

\* What was committed carries a signature of all signers for every operator,
\* over that very transaction, although the sessions of the operators run at
\* the same time over one key and one of them may fail.
CommitFullySigned ==
  \A f \in committed, o \in Operators, v \in Signers : <<f[1], o, f>> \in shares[v]

\* Every call ends, and it ends with Ok unless a call failed or a session
\* expired between authentication and commit: concurrent signing sessions of
\* one key do not disturb each other.
SendCompletes ==
  \A s \in Sends :
    <>(send[s].pc = "ok" \/ (send[s].pc = "err" /\ faults + lapses > 0))

-----------------------------------------------------------------------------
(* The inductive invariant behind CommitFullySigned and CallContract.      *)

Messages == Sends \X Purposes \X (Finals \cup {NoTx})
Signing == {"authSign", "partialSign", "finalSign"}

SendType == [pc : Remote \cup Signing \cup {"idle", "ok", "err"},
             tries : 0..(MaxTries - 1), final : Finals \cup {NoTx}]

TypeOK ==
  /\ send \in [Sends -> SendType]
  /\ ses \in [Sends -> [Purposes -> {"round1", "package", "signed", "failed"}]]
  /\ row \in [Signers -> [SessionIds -> [msg : Messages \cup {NoTx},
                                         state : {"none", "nonces", "share"}]]]
  /\ shares \in [Signers -> SUBSET Messages]
  /\ session \in [Keys -> {"none", "live", "expired"}]
  /\ calls \subseteq [kind : {"start", "commit"}, tx : Finals]
  /\ committed \subseteq Finals
  /\ faults \in 0..MaxFaults /\ lapses \in 0..MaxLapses

\* The sessions for the operators begin with the final transaction, and one
\* that is signed has the shares of all signers over it.
OperatorSessions ==
  \A s \in Sends, o \in Operators :
    /\ send[s].pc \notin {"finalSign", "commit", "ok", "err"} => ses[s][o] = "round1"
    /\ ses[s][o] = "signed" => \A v \in Signers : Message(s, o) \in shares[v]

\* From its answer on, a call keeps the final transaction it was given.
FinalOfCall ==
  \A s \in Sends :
    /\ send[s].pc \in {"finalSign", "commit", "ok"} => send[s].final \in {s} \X (1..MaxTries)
    /\ send[s].pc \in {"commit", "ok"} => \A o \in Operators : ses[s][o] = "signed"
    /\ send[s].pc = "ok" => send[s].final \in committed

\* A transaction that is committed, or that the operator may still commit, is
\* the one of its call, past signing, and carries all shares.
Backed(f) ==
  /\ f = send[f[1]].final
  /\ send[f[1]].pc \in {"commit", "ok", "err"}
  /\ \A o \in Operators, v \in Signers : <<f[1], o, f>> \in shares[v]

CommitsBacked ==
  /\ \A f \in committed : Backed(f)
  /\ \A c \in calls : c.kind = "commit" => Backed(c.tx)

IInv == TypeOK /\ OperatorSessions /\ FinalOfCall /\ CommitsBacked
==============================================================================
