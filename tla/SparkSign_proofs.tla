-------------------------- MODULE SparkSign_proofs --------------------------
(***************************************************************************)
(* IInv is an inductive invariant of SparkSign, and SparkSign implements   *)
(* the contract SparkCall, for every set of calls, keys, signers and       *)
(* operators and every number of tries, faults and expiring sessions.      *)
(***************************************************************************)
EXTENDS SparkSign, FiniteSetTheorems, TLAPS

\* What a step leaves alone when it only moves a call along.
Others == <<ses, row, shares, committed>>

\* Nothing is signed or committed at the start.
LEMMA InitIInv == Init => IInv
<1> SUFFICES ASSUME Init PROVE IInv
  OBVIOUS
<1> USE ConstantsAssumption DEF Init
<1>1. TypeOK
  <2>1. [pc |-> "idle", tries |-> 0, final |-> NoTx] \in SendType
    BY DEF SendType
  <2>2. NoRow \in [msg : Messages \cup {NoTx}, state : {"none", "nonces", "share"}]
    BY DEF NoRow
  <2>3. QED
    BY <2>1, <2>2 DEF TypeOK
<1>2. OperatorSessions /\ FinalOfCall /\ CommitsBacked
  BY DEF OperatorSessions, FinalOfCall, CommitsBacked, Purposes
<1>3. QED
  BY <1>1, <1>2 DEF IInv

-----------------------------------------------------------------------------
(* Moving a call along.                                                    *)

\* Goto changes where one call is and nothing of its final transaction.
LEMMA GotoSend ==
  ASSUME TypeOK, NEW s \in Sends, NEW p \in Remote \cup Signing \cup {"idle", "ok", "err"},
         Goto(s, p)
  PROVE  /\ send' \in [Sends -> SendType]
         /\ send'[s].pc = p /\ send'[s].final = send[s].final
         /\ \A t \in Sends : t # s => send'[t] = send[t]
<1>1. send \in [Sends -> SendType] /\ 0 \in 0..(MaxTries - 1)
  BY ConstantsAssumption DEF TypeOK
<1>2. [send[s] EXCEPT !.pc = p, !.tries = 0] \in SendType
  BY <1>1 DEF SendType
<1>3. send' = [send EXCEPT ![s] = [send[s] EXCEPT !.pc = p, !.tries = 0]]
  BY <1>1 DEF Goto, SendType
<1>4. QED
  BY <1>1, <1>2, <1>3 DEF SendType

\* The typed parts a moving call does not touch.
LEMMA MoveType ==
  ASSUME TypeOK, UNCHANGED Others, send' \in [Sends -> SendType],
         session' \in [Keys -> {"none", "live", "expired"}],
         calls' \subseteq [kind : {"start", "commit"}, tx : Finals],
         faults' \in 0..MaxFaults, lapses' \in 0..MaxLapses
  PROVE  TypeOK'
BY DEF TypeOK, Others

\* A call that stays, fails, or moves before it was given its final
\* transaction keeps the invariant.
LEMMA MoveKeeps ==
  ASSUME IInv, TypeOK', NEW s \in Sends,
         send'[s].final = send[s].final,
         \A t \in Sends : t # s => send'[t] = send[t],
         \/ send'[s].pc = "err"
         \/ send'[s].pc = send[s].pc
         \/ /\ send'[s].pc \notin {"finalSign", "commit", "ok"}
            /\ send[s].pc \notin {"finalSign", "commit", "ok", "err"},
         UNCHANGED Others,
         \A c \in calls' : c.kind = "commit" => c \in calls \/ Backed(c.tx)
  PROVE  IInv'
<1> USE DEF IInv, Others
<1>1. \A t \in Sends : send'[t].final = send[t].final
  OBVIOUS
<1>2. \A t \in Sends, p \in Purposes : Message(t, p)' = Message(t, p)
  BY <1>1 DEF Message
<1>3. OperatorSessions'
  <2> SUFFICES ASSUME NEW t \in Sends, NEW o \in Operators
               PROVE  /\ send'[t].pc \notin {"finalSign", "commit", "ok", "err"} => ses[t][o] = "round1"
                      /\ ses[t][o] = "signed" => \A v \in Signers : Message(t, o)' \in shares[v]
    BY DEF OperatorSessions
  <2>1. o \in Purposes
    BY DEF Purposes
  <2>2. /\ send[t].pc \notin {"finalSign", "commit", "ok", "err"} => ses[t][o] = "round1"
        /\ ses[t][o] = "signed" => \A v \in Signers : Message(t, o) \in shares[v]
    BY DEF OperatorSessions
  <2>3. CASE t = s
    BY <1>2, <2>1, <2>2, <2>3
  <2>4. CASE t # s
    BY <1>2, <2>1, <2>2, <2>4
  <2>5. QED
    BY <2>3, <2>4
<1>4. FinalOfCall'
  BY DEF FinalOfCall
<1>5. \A f \in Finals : Backed(f) => Backed(f)'
  <2> SUFFICES ASSUME NEW f \in Finals, Backed(f) PROVE Backed(f)'
    OBVIOUS
  <2>1. f[1] \in Sends
    BY DEF Finals
  <2>2. QED
    BY <1>1, <2>1 DEF Backed
<1>6. CommitsBacked'
  <2>1. committed \subseteq Finals /\ \A c \in calls' : c.tx \in Finals
    BY DEF TypeOK
  <2>2. QED
    BY <1>5, <2>1 DEF CommitsBacked
<1>7. QED
  BY <1>3, <1>4, <1>6

\* get_auth_session keeps the cache well typed.
LEMMA AuthSessionType ==
  ASSUME TypeOK, NEW k \in Keys, GetAuthSession(k)
  PROVE  session' \in [Keys -> {"none", "live", "expired"}]
BY DEF TypeOK, GetAuthSession

\* The invariant is kept by Authenticate.
LEMMA AuthenticateIInv ==
  ASSUME IInv, NEW s \in Sends, Authenticate(s)
  PROVE  IInv'
<1>1. PICK p \in {"partialSign", "challenge"} : Goto(s, p)
  BY DEF Authenticate
<1>2. TypeOK /\ KeyOf[s] \in Keys
  BY ConstantsAssumption DEF IInv
<1>3. /\ send' \in [Sends -> SendType]
      /\ send'[s].pc = p /\ send'[s].final = send[s].final
      /\ \A t \in Sends : t # s => send'[t] = send[t]
  BY <1>1, <1>2, GotoSend DEF Remote, Signing
<1>4. UNCHANGED <<Others, calls, faults, lapses>> /\ send[s].pc = "idle"
  BY DEF Authenticate, Others
<1>5. TypeOK'
  BY <1>2, <1>3, <1>4, AuthSessionType, MoveType DEF Authenticate, TypeOK
<1>6. QED
  BY <1>3, <1>4, <1>5, MoveKeeps

\* The invariant is kept by NoSession.
LEMMA NoSessionIInv ==
  ASSUME IInv, NEW s \in Sends, NoSession(s)
  PROVE  IInv'
<1>1. TypeOK /\ KeyOf[s] \in Keys /\ Goto(s, "err")
  BY ConstantsAssumption DEF IInv, NoSession
<1>2. /\ send' \in [Sends -> SendType]
      /\ send'[s].pc = "err" /\ send'[s].final = send[s].final
      /\ \A t \in Sends : t # s => send'[t] = send[t]
  BY <1>1, GotoSend
<1>3. UNCHANGED <<Others, calls, faults, lapses>>
  BY DEF NoSession, Others
<1>4. TypeOK'
  BY <1>1, <1>2, <1>3, AuthSessionType, MoveType DEF NoSession, TypeOK
<1>5. QED
  BY <1>2, <1>3, <1>4, MoveKeeps

\* The invariant is kept by CallChallenge and CallVerify.
LEMMA CallAuthIInv ==
  ASSUME IInv, NEW s \in Sends, CallChallenge(s) \/ CallVerify(s)
  PROVE  IInv'
<1>1. PICK p \in {"authSign", "partialSign"} : Goto(s, p)
  BY DEF CallChallenge, CallVerify
<1>2. TypeOK /\ KeyOf[s] \in Keys
  BY ConstantsAssumption DEF IInv
<1>3. /\ send' \in [Sends -> SendType]
      /\ send'[s].pc = p /\ send'[s].final = send[s].final
      /\ \A t \in Sends : t # s => send'[t] = send[t]
  BY <1>1, <1>2, GotoSend DEF Remote, Signing
<1>4. UNCHANGED <<Others, calls, faults, lapses>> /\ send[s].pc \in {"challenge", "verify"}
  BY DEF CallChallenge, CallVerify, Others
<1>5. session' \in [Keys -> {"none", "live", "expired"}]
  BY <1>2 DEF CallChallenge, CallVerify, TypeOK
<1>6. TypeOK'
  BY <1>2, <1>3, <1>4, <1>5, MoveType DEF TypeOK
<1>7. QED
  BY <1>3, <1>4, <1>6, MoveKeeps

\* The invariant is kept by CallStart: from here on the call has a final
\* transaction, and no session of an operator has begun.
LEMMA CallStartIInv ==
  ASSUME IInv, NEW s \in Sends, CallStart(s)
  PROVE  IInv'
<1>1. send \in [Sends -> SendType] /\ send[s].pc = "start"
  BY DEF IInv, TypeOK, CallStart
<1>2. PICK n \in 1..(send[s].tries + 1) :
        send' = [send EXCEPT ![s] = [pc |-> "finalSign", tries |-> 0, final |-> <<s, n>>]]
  BY DEF CallStart
<1>3. n \in 1..MaxTries /\ <<s, n>> \in Finals /\ 0 \in 0..(MaxTries - 1)
  BY <1>1, <1>2, ConstantsAssumption DEF SendType, Finals
<1>4. /\ send' \in [Sends -> SendType]
      /\ send'[s].pc = "finalSign" /\ send'[s].final = <<s, n>>
      /\ \A t \in Sends : t # s => send'[t] = send[t]
  <2>1. [pc |-> "finalSign", tries |-> 0, final |-> <<s, n>>] \in SendType
    BY <1>3 DEF SendType, Signing
  <2>2. QED
    BY <1>1, <1>2, <2>1
<1>5. UNCHANGED <<Others, session, calls, faults, lapses>>
  BY DEF CallStart, Others
<1>6. TypeOK'
  BY <1>4, <1>5, MoveType DEF IInv, TypeOK
<1>7. \A o \in Operators : ses[s][o] = "round1"
  BY <1>1 DEF IInv, OperatorSessions
<1>8. OperatorSessions'
  <2> SUFFICES ASSUME NEW t \in Sends, NEW o \in Operators
               PROVE  /\ send'[t].pc \notin {"finalSign", "commit", "ok", "err"} => ses[t][o] = "round1"
                      /\ ses[t][o] = "signed" => \A v \in Signers : Message(t, o)' \in shares[v]
    BY <1>5 DEF OperatorSessions, Others
  <2>1. CASE t = s
    BY <1>7, <2>1
  <2>2. CASE t # s
    BY <1>4, <2>2 DEF IInv, OperatorSessions, Message
  <2>3. QED
    BY <2>1, <2>2
<1>9. FinalOfCall'
  BY <1>3, <1>4, <1>5 DEF IInv, FinalOfCall, Others
<1>10. \A f \in Finals : Backed(f) => Backed(f)'
  <2> SUFFICES ASSUME NEW f \in Finals, Backed(f) PROVE Backed(f)'
    OBVIOUS
  <2>1. f[1] \in Sends /\ f[1] # s
    BY <1>1 DEF Finals, Backed
  <2>2. QED
    BY <1>4, <1>5, <2>1 DEF Backed, Others
<1>11. CommitsBacked'
  BY <1>5, <1>10 DEF IInv, TypeOK, CommitsBacked, Others
<1>12. QED
  BY <1>6, <1>8, <1>9, <1>11 DEF IInv

\* A transaction at its commit is backed by the shares of all signers.
LEMMA CommitBacked ==
  ASSUME IInv, NEW s \in Sends, send[s].pc = "commit"
  PROVE  send[s].final \in Finals /\ send[s].final[1] = s /\ Backed(send[s].final)
<1>1. send[s].final \in {s} \X (1..MaxTries)
  BY DEF IInv, FinalOfCall
<1>2. send[s].final \in Finals /\ send[s].final[1] = s
  BY <1>1 DEF Finals
<1>3. ASSUME NEW o \in Operators, NEW v \in Signers
      PROVE  <<s, o, send[s].final>> \in shares[v]
  <2>1. ses[s][o] = "signed"
    BY DEF IInv, FinalOfCall
  <2>2. Message(s, o) \in shares[v]
    BY <2>1 DEF IInv, OperatorSessions
  <2>3. QED
    BY <2>2 DEF Message
<1>4. QED
  BY <1>2, <1>3 DEF Backed

\* The invariant is kept by CallCommit.
LEMMA CallCommitIInv ==
  ASSUME IInv, NEW s \in Sends, CallCommit(s)
  PROVE  IInv'
<1>1. TypeOK /\ send[s].pc = "commit" /\ Goto(s, "ok")
  BY DEF IInv, CallCommit
<1>2. /\ send' \in [Sends -> SendType]
      /\ send'[s].pc = "ok" /\ send'[s].final = send[s].final
      /\ \A t \in Sends : t # s => send'[t] = send[t]
  BY <1>1, GotoSend
<1>3. send[s].final \in Finals /\ send[s].final[1] = s /\ Backed(send[s].final)
  BY <1>1, CommitBacked
<1>4. /\ committed' = committed \cup {send[s].final}
      /\ UNCHANGED <<ses, row, shares, session, calls, faults, lapses>>
  BY DEF CallCommit
<1>5. TypeOK'
  BY <1>1, <1>2, <1>3, <1>4 DEF TypeOK
<1>6. \A t \in Sends : send'[t].final = send[t].final
  BY <1>2
<1>7. OperatorSessions'
  <2> SUFFICES ASSUME NEW t \in Sends, NEW o \in Operators
               PROVE  /\ send'[t].pc \notin {"finalSign", "commit", "ok", "err"} => ses[t][o] = "round1"
                      /\ ses[t][o] = "signed" => \A v \in Signers : Message(t, o)' \in shares[v]
    BY <1>4 DEF OperatorSessions
  <2>1. Message(t, o)' = Message(t, o)
    BY <1>6 DEF Message
  <2>2. QED
    BY <1>2, <2>1 DEF IInv, OperatorSessions
<1>8. FinalOfCall'
  <2> SUFFICES ASSUME NEW t \in Sends
               PROVE  /\ send'[t].pc \in {"finalSign", "commit", "ok"}
                           => send'[t].final \in {t} \X (1..MaxTries)
                      /\ send'[t].pc \in {"commit", "ok"} => \A o \in Operators : ses[t][o] = "signed"
                      /\ send'[t].pc = "ok" => send'[t].final \in committed'
    BY <1>4 DEF FinalOfCall
  <2>1. CASE t = s
    BY <1>1, <1>2, <1>4, <2>1 DEF IInv, FinalOfCall
  <2>2. CASE t # s
    BY <1>2, <1>4, <2>2 DEF IInv, FinalOfCall
  <2>3. QED
    BY <2>1, <2>2
<1>9. \A f \in Finals : Backed(f) => Backed(f)'
  <2> SUFFICES ASSUME NEW f \in Finals, Backed(f) PROVE Backed(f)'
    OBVIOUS
  <2>1. f[1] \in Sends
    BY DEF Finals
  <2>2. QED
    BY <1>2, <1>4, <1>6, <2>1 DEF Backed
<1>10. CommitsBacked'
  <2>1. committed' \subseteq Finals /\ \A c \in calls : c.tx \in Finals
    BY <1>5, <1>1 DEF TypeOK
  <2>2. (\A f \in committed' : Backed(f)) /\ \A c \in calls : c.kind = "commit" => Backed(c.tx)
    BY <1>3, <1>4 DEF IInv, CommitsBacked
  <2>3. QED
    BY <1>4, <1>9, <2>1, <2>2 DEF CommitsBacked
<1>11. QED
  BY <1>5, <1>7, <1>8, <1>10 DEF IInv

\* The invariant is kept by CallErr: what the operator may still commit is the
\* very transaction that was signed.
LEMMA CallErrIInv ==
  ASSUME IInv, NEW s \in Sends, CallErr(s)
  PROVE  IInv'
<1>1. /\ TypeOK /\ send[s].pc \in Remote /\ send \in [Sends -> SendType]
      /\ UNCHANGED <<Others, session, lapses>>
      /\ faults' \in 0..MaxFaults
  BY ConstantsAssumption DEF IInv, TypeOK, CallErr, Others, Fault
<1>2. /\ send' \in [Sends -> SendType]
      /\ send'[s].pc \in {"err", send[s].pc} /\ send'[s].final = send[s].final
      /\ \A t \in Sends : t # s => send'[t] = send[t]
  <2>1. CASE send[s].tries + 1 < MaxTries
    <3>1. send' = [send EXCEPT ![s].tries = @ + 1]
      BY <2>1 DEF CallErr
    <3>2. [send[s] EXCEPT !.tries = @ + 1] \in SendType
      BY <1>1, <2>1, ConstantsAssumption DEF SendType
    <3>3. QED
      BY <1>1, <3>1, <3>2 DEF SendType
  <2>2. CASE ~(send[s].tries + 1 < MaxTries)
    <3>1. Goto(s, "err")
      BY <2>2 DEF CallErr
    <3>2. QED
      BY <1>1, <3>1, GotoSend
  <2>3. QED
    BY <2>1, <2>2
<1>3. \A c \in calls' : c \in calls \/ (send[s].pc \in {"start", "commit"} /\ c = Request(s))
  BY DEF CallErr
<1>4. send[s].pc = "start" => Request(s) \in [kind : {"start", "commit"}, tx : Finals]
  <2> SUFFICES ASSUME send[s].pc = "start"
               PROVE  Request(s) \in [kind : {"start", "commit"}, tx : Finals]
    OBVIOUS
  <2>1. send[s].tries + 1 \in 1..MaxTries
    BY <1>1, ConstantsAssumption DEF SendType
  <2>2. QED
    BY <2>1 DEF Request, Finals
<1>5. send[s].pc = "commit" => /\ Request(s) \in [kind : {"start", "commit"}, tx : Finals]
                               /\ Backed(Request(s).tx)
  BY CommitBacked DEF Request
<1>6. calls' \subseteq [kind : {"start", "commit"}, tx : Finals]
  BY <1>1, <1>3, <1>4, <1>5 DEF TypeOK
<1>7. \A c \in calls' : c.kind = "commit" => c \in calls \/ Backed(c.tx)
  <2>1. send[s].pc = "start" => Request(s).kind = "start"
    BY DEF Request
  <2>2. QED
    BY <1>3, <1>5, <2>1
<1>8. TypeOK'
  BY <1>1, <1>2, <1>6, MoveType DEF TypeOK
<1>9. QED
  BY <1>1, <1>2, <1>7, <1>8, MoveKeeps

-----------------------------------------------------------------------------
(* The signing sessions.                                                   *)

\* Shares are only added, and a session of an operator begins once the final
\* transaction is there and is signed when all signers gave their shares.
LEMMA SessionKeeps ==
  ASSUME IInv, TypeOK', UNCHANGED <<send, calls, committed>>,
         \A v \in Signers : shares[v] \subseteq shares'[v],
         \A t \in Sends, o \in Operators :
           \/ ses'[t][o] = ses[t][o]
           \/ /\ ses[t][o] # "signed"
              /\ send[t].pc \in {"finalSign", "commit", "ok", "err"}
              /\ ses'[t][o] = "signed" => \A v \in Signers : Message(t, o) \in shares'[v]
  PROVE  IInv'
<1>1. OperatorSessions'
  <2> SUFFICES ASSUME NEW t \in Sends, NEW o \in Operators
               PROVE  /\ send[t].pc \notin {"finalSign", "commit", "ok", "err"} => ses'[t][o] = "round1"
                      /\ ses'[t][o] = "signed" => \A v \in Signers : Message(t, o) \in shares'[v]
    BY DEF OperatorSessions, Message
  <2>1. QED
    BY DEF IInv, OperatorSessions
<1>2. FinalOfCall'
  BY DEF IInv, FinalOfCall
<1>3. CommitsBacked'
  BY DEF IInv, CommitsBacked, Backed
<1>4. QED
  BY <1>1, <1>2, <1>3 DEF IInv

\* A session for an operator that is running belongs to a call with a final
\* transaction.
LEMMA RunningAfterStart ==
  ASSUME IInv, NEW s \in Sends, NEW o \in Operators, o \in Current(s) \/ ses[s][o] = "package"
  PROVE  send[s].pc \in {"finalSign", "commit", "ok", "err"}
<1>1. CASE o \in Current(s)
  BY <1>1, ConstantsAssumption DEF Current
<1>2. CASE ses[s][o] = "package"
  BY <1>2 DEF IInv, OperatorSessions
<1>3. QED
  BY <1>1, <1>2

\* What SetSes changes.
LEMMA SetSesFacts ==
  ASSUME TypeOK, NEW s \in Sends, NEW p \in Purposes,
         NEW st \in {"round1", "package", "signed", "failed"}, SetSes(s, p, st)
  PROVE  /\ ses' \in [Sends -> [Purposes -> {"round1", "package", "signed", "failed"}]]
         /\ ses'[s][p] = st
         /\ \A t \in Sends, q \in Purposes : <<t, q>> # <<s, p>> => ses'[t][q] = ses[t][q]
BY DEF TypeOK, SetSes

\* The message of a session is typed.
LEMMA MessageType ==
  ASSUME TypeOK, NEW s \in Sends, NEW p \in Purposes
  PROVE  Message(s, p) \in Messages
<1>1. send[s].final \in Finals \cup {NoTx}
  BY DEF TypeOK, SendType
<1>2. QED
  BY <1>1 DEF Message, Messages

\* The invariant is kept by SignerRound1.
LEMMA SignerRound1IInv ==
  ASSUME IInv, NEW s \in Sends, NEW p \in Purposes, NEW v \in Signers, SignerRound1(v, s, p)
  PROVE  IInv'
<1> DEFINE i == SessionId(s, p)
           m == IF row[v][i] = NoRow THEN Message(s, p) ELSE row[v][i].msg
<1>1. TypeOK /\ i \in SessionIds
  BY DEF IInv, SessionId, SessionIds
<1>2. row' = [row EXCEPT ![v][i] = [msg |-> m, state |-> "nonces"]]
  BY DEF SignerRound1
<1>3. row[v][i] \in [msg : Messages \cup {NoTx}, state : {"none", "nonces", "share"}]
  BY <1>1 DEF TypeOK
<1>4. m \in Messages \cup {NoTx}
  BY <1>1, <1>3, MessageType
<1>5. UNCHANGED <<send, ses, shares, session, calls, committed, faults, lapses>>
  BY DEF SignerRound1
<1> HIDE DEF i, m
<1>6. TypeOK'
  BY <1>1, <1>2, <1>4, <1>5 DEF TypeOK
<1>7. QED
  BY <1>5, <1>6, SessionKeeps

\* The invariant is kept by StorePackage.
LEMMA StorePackageIInv ==
  ASSUME IInv, NEW s \in Sends, NEW p \in Purposes, StorePackage(s, p)
  PROVE  IInv'
<1>1. TypeOK /\ SetSes(s, p, "package") /\ p \in Current(s) /\ ses[s][p] = "round1"
  BY DEF IInv, StorePackage, InRound1
<1>2. UNCHANGED <<send, row, shares, session, calls, committed, faults, lapses>>
  BY DEF StorePackage
<1>3. /\ ses' \in [Sends -> [Purposes -> {"round1", "package", "signed", "failed"}]]
      /\ ses'[s][p] = "package"
      /\ \A t \in Sends, q \in Purposes : <<t, q>> # <<s, p>> => ses'[t][q] = ses[t][q]
  BY <1>1, SetSesFacts
<1>4. TypeOK'
  BY <1>1, <1>2, <1>3 DEF TypeOK
<1>5. p \in Operators => send[s].pc \in {"finalSign", "commit", "ok", "err"}
  BY <1>1, RunningAfterStart
<1>6. Operators \subseteq Purposes
  BY DEF Purposes
<1>7. ASSUME NEW t \in Sends, NEW o \in Operators
      PROVE  \/ ses'[t][o] = ses[t][o]
             \/ /\ ses[t][o] # "signed"
                /\ send[t].pc \in {"finalSign", "commit", "ok", "err"}
                /\ ses'[t][o] = "signed" => \A v \in Signers : Message(t, o) \in shares'[v]
  BY <1>1, <1>3, <1>5, <1>6
<1>8. QED
  BY <1>2, <1>4, <1>7, SessionKeeps

\* The invariant is kept by SignerRound2.
LEMMA SignerRound2IInv ==
  ASSUME IInv, NEW s \in Sends, NEW p \in Purposes, NEW v \in Signers, SignerRound2(v, s, p)
  PROVE  IInv'
<1> DEFINE i == SessionId(s, p)
           m == Message(s, p)
<1>1. TypeOK /\ i \in SessionIds /\ m \in Messages
  BY MessageType DEF IInv, SessionId, SessionIds
<1>2. /\ row' = [row EXCEPT ![v][i].state = "share"]
      /\ shares' = [shares EXCEPT ![v] = @ \cup {m}]
      /\ UNCHANGED <<send, ses, session, calls, committed, faults, lapses>>
  BY DEF SignerRound2
<1> HIDE DEF i, m
<1>3. row' \in [Signers -> [SessionIds -> [msg : Messages \cup {NoTx},
                                           state : {"none", "nonces", "share"}]]]
  <2>1. row[v][i] \in [msg : Messages \cup {NoTx}, state : {"none", "nonces", "share"}]
    BY <1>1 DEF TypeOK
  <2>2. [row[v][i] EXCEPT !.state = "share"]
          \in [msg : Messages \cup {NoTx}, state : {"none", "nonces", "share"}]
    BY <2>1
  <2>3. row' = [row EXCEPT ![v] = [row[v] EXCEPT ![i] = [row[v][i] EXCEPT !.state = "share"]]]
    BY <1>2
  <2>4. QED
    BY <1>1, <2>2, <2>3 DEF TypeOK
<1>4. shares' \in [Signers -> SUBSET Messages] /\ \A w \in Signers : shares[w] \subseteq shares'[w]
  BY <1>1, <1>2 DEF TypeOK
<1>5. TypeOK'
  BY <1>1, <1>2, <1>3, <1>4 DEF TypeOK
<1>6. QED
  BY <1>2, <1>4, <1>5, SessionKeeps

\* The invariant is kept by AggregateSignature.
LEMMA AggregateSignatureIInv ==
  ASSUME IInv, NEW s \in Sends, NEW p \in Purposes, AggregateSignature(s, p)
  PROVE  IInv'
<1>1. /\ TypeOK /\ SetSes(s, p, "signed") /\ ses[s][p] = "package"
      /\ \A v \in Signers : Message(s, p) \in shares[v]
  BY DEF IInv, AggregateSignature
<1>2. UNCHANGED <<send, row, shares, session, calls, committed, faults, lapses>>
  BY DEF AggregateSignature
<1>3. /\ ses' \in [Sends -> [Purposes -> {"round1", "package", "signed", "failed"}]]
      /\ ses'[s][p] = "signed"
      /\ \A t \in Sends, q \in Purposes : <<t, q>> # <<s, p>> => ses'[t][q] = ses[t][q]
  BY <1>1, SetSesFacts
<1>4. TypeOK'
  BY <1>1, <1>2, <1>3 DEF TypeOK
<1>5. p \in Operators => send[s].pc \in {"finalSign", "commit", "ok", "err"}
  BY <1>1, RunningAfterStart
<1>6. Operators \subseteq Purposes
  BY DEF Purposes
<1>7. ASSUME NEW t \in Sends, NEW o \in Operators
      PROVE  \/ ses'[t][o] = ses[t][o]
             \/ /\ ses[t][o] # "signed"
                /\ send[t].pc \in {"finalSign", "commit", "ok", "err"}
                /\ ses'[t][o] = "signed" => \A v \in Signers : Message(t, o) \in shares'[v]
  <2>1. CASE t = s /\ o = p
    BY <1>1, <1>2, <1>5, <2>1
  <2>2. CASE ~(t = s /\ o = p)
    BY <1>3, <1>6, <2>2
  <2>3. QED
    BY <2>1, <2>2
<1>8. QED
  BY <1>2, <1>4, <1>7, SessionKeeps

\* The invariant is kept by SigningErr.
LEMMA SigningErrIInv ==
  ASSUME IInv, NEW s \in Sends, NEW p \in Purposes, SigningErr(s, p)
  PROVE  IInv'
<1>1. /\ TypeOK /\ SetSes(s, p, "failed")
      /\ (p \in Current(s) /\ ses[s][p] = "round1") \/ ses[s][p] = "package"
  BY DEF IInv, SigningErr, InRound1
<1>2. /\ UNCHANGED <<send, row, shares, session, calls, committed, lapses>>
      /\ faults' \in 0..MaxFaults
  BY <1>1, ConstantsAssumption DEF SigningErr, Fault, TypeOK
<1>3. /\ ses' \in [Sends -> [Purposes -> {"round1", "package", "signed", "failed"}]]
      /\ ses'[s][p] = "failed"
      /\ \A t \in Sends, q \in Purposes : <<t, q>> # <<s, p>> => ses'[t][q] = ses[t][q]
  BY <1>1, SetSesFacts
<1>4. TypeOK'
  BY <1>1, <1>2, <1>3 DEF TypeOK
<1>5. p \in Operators => send[s].pc \in {"finalSign", "commit", "ok", "err"}
  BY <1>1, RunningAfterStart
<1>6. Operators \subseteq Purposes
  BY DEF Purposes
<1>7. ASSUME NEW t \in Sends, NEW o \in Operators
      PROVE  \/ ses'[t][o] = ses[t][o]
             \/ /\ ses[t][o] # "signed"
                /\ send[t].pc \in {"finalSign", "commit", "ok", "err"}
                /\ ses'[t][o] = "signed" => \A v \in Signers : Message(t, o) \in shares'[v]
  BY <1>1, <1>3, <1>5, <1>6
<1>8. QED
  BY <1>2, <1>4, <1>7, SessionKeeps

\* The invariant is kept by SigningDone: a call reaches its commit only when
\* every session of an operator is signed.
LEMMA SigningDoneIInv ==
  ASSUME IInv, NEW s \in Sends, SigningDone(s)
  PROVE  IInv'
<1>1. TypeOK /\ Current(s) # {} /\ \A p \in Current(s) : ses[s][p] \in {"signed", "failed"}
  BY DEF IInv, SigningDone
<1>2. send[s].pc \in Signing
  BY <1>1 DEF Current, Signing
<1>3. UNCHANGED <<Others, session, calls, faults, lapses>>
  BY DEF SigningDone, Others
<1>4. CASE \E p \in Current(s) : ses[s][p] = "failed"
  <2>1. Goto(s, "err")
    BY <1>4 DEF SigningDone
  <2>2. /\ send' \in [Sends -> SendType]
        /\ send'[s].pc = "err" /\ send'[s].final = send[s].final
        /\ \A t \in Sends : t # s => send'[t] = send[t]
    BY <1>1, <2>1, GotoSend
  <2>3. TypeOK'
    BY <1>1, <1>3, <2>2, MoveType DEF TypeOK
  <2>4. QED
    BY <1>3, <2>2, <2>3, MoveKeeps
<1>5. CASE ~ \E p \in Current(s) : ses[s][p] = "failed"
  <2>1. Goto(s, AfterSigning(s)) /\ \A p \in Current(s) : ses[s][p] = "signed"
    BY <1>1, <1>5 DEF SigningDone
  <2>2. CASE send[s].pc \in {"authSign", "partialSign"}
    <3>1. PICK q \in {"verify", "start"} : Goto(s, q)
      BY <2>1, <2>2 DEF AfterSigning
    <3>2. /\ send' \in [Sends -> SendType]
          /\ send'[s].pc = q /\ send'[s].final = send[s].final
          /\ \A t \in Sends : t # s => send'[t] = send[t]
      BY <1>1, <3>1, GotoSend DEF Remote
    <3>3. TypeOK'
      BY <1>1, <1>3, <3>2, MoveType DEF TypeOK
    <3>4. QED
      BY <1>3, <2>2, <3>2, <3>3, MoveKeeps
  <2>3. CASE send[s].pc = "finalSign"
    <3>1. Goto(s, "commit") /\ \A o \in Operators : ses[s][o] = "signed"
      BY <2>1, <2>3 DEF AfterSigning, Current
    <3>2. /\ send' \in [Sends -> SendType]
          /\ send'[s].pc = "commit" /\ send'[s].final = send[s].final
          /\ \A t \in Sends : t # s => send'[t] = send[t]
      BY <1>1, <3>1, GotoSend DEF Remote
    <3>3. TypeOK'
      BY <1>1, <1>3, <3>2, MoveType DEF TypeOK
    <3>4. \A t \in Sends : send'[t].final = send[t].final
      BY <3>2
    <3>5. OperatorSessions'
      <4> SUFFICES ASSUME NEW t \in Sends, NEW o \in Operators
                   PROVE  /\ send'[t].pc \notin {"finalSign", "commit", "ok", "err"}
                               => ses[t][o] = "round1"
                          /\ ses[t][o] = "signed" => \A v \in Signers : Message(t, o)' \in shares[v]
        BY <1>3 DEF OperatorSessions, Others
      <4>1. Message(t, o)' = Message(t, o)
        BY <3>4 DEF Message
      <4>2. QED
        BY <3>2, <4>1 DEF IInv, OperatorSessions
    <3>6. FinalOfCall'
      <4> SUFFICES ASSUME NEW t \in Sends
                   PROVE  /\ send'[t].pc \in {"finalSign", "commit", "ok"}
                               => send'[t].final \in {t} \X (1..MaxTries)
                          /\ send'[t].pc \in {"commit", "ok"}
                               => \A o \in Operators : ses[t][o] = "signed"
                          /\ send'[t].pc = "ok" => send'[t].final \in committed
        BY <1>3 DEF FinalOfCall, Others
      <4>1. QED
        BY <2>3, <3>1, <3>2 DEF IInv, FinalOfCall
    <3>7. \A f \in Finals : Backed(f) => Backed(f)'
      <4> SUFFICES ASSUME NEW f \in Finals, Backed(f) PROVE Backed(f)'
        OBVIOUS
      <4>1. f[1] \in Sends /\ f[1] # s
        BY <2>3 DEF Finals, Backed
      <4>2. QED
        BY <1>3, <3>2, <4>1 DEF Backed, Others
    <3>8. CommitsBacked'
      BY <1>3, <3>7 DEF IInv, TypeOK, CommitsBacked, Others
    <3>9. QED
      BY <3>3, <3>5, <3>6, <3>8 DEF IInv
  <2>4. QED
    BY <1>2, <2>2, <2>3 DEF Signing
<1>6. QED
  BY <1>4, <1>5

-----------------------------------------------------------------------------
(* The operator and the clock.                                             *)

\* The invariant is kept by OperatorLate.
LEMMA OperatorLateIInv ==
  ASSUME IInv, NEW c \in calls, OperatorLate(c)
  PROVE  IInv'
<1>1. /\ calls' = calls \ {c}
      /\ committed' = IF c.kind = "commit" THEN committed \cup {c.tx} ELSE committed
      /\ UNCHANGED <<send, ses, row, shares, session, faults, lapses>>
  BY DEF OperatorLate
<1>2. c.tx \in Finals
  BY DEF IInv, TypeOK
<1>3. TypeOK'
  BY <1>1, <1>2 DEF IInv, TypeOK
<1>4. OperatorSessions'
  BY <1>1 DEF IInv, OperatorSessions, Message
<1>5. FinalOfCall'
  BY <1>1 DEF IInv, FinalOfCall
<1>6. CommitsBacked'
  BY <1>1 DEF IInv, CommitsBacked, Backed
<1>7. QED
  BY <1>3, <1>4, <1>5, <1>6 DEF IInv

\* The invariant is kept by SessionExpires.
LEMMA SessionExpiresIInv ==
  ASSUME IInv, NEW k \in Keys, SessionExpires(k)
  PROVE  IInv'
<1>1. UNCHANGED <<send, ses, row, shares, calls, committed, faults>>
  BY DEF SessionExpires
<1>2. TypeOK'
  BY <1>1, ConstantsAssumption DEF IInv, TypeOK, SessionExpires
<1>3. QED
  BY <1>1, <1>2, SessionKeeps

\* Every step keeps the invariant.
LEMMA NextIInv == IInv /\ [Next]_vars => IInv'
<1> SUFFICES ASSUME IInv, [Next]_vars PROVE IInv'
  OBVIOUS
<1>1. ASSUME NEW s \in Sends, Sign(s) PROVE IInv'
  BY <1>1, StorePackageIInv, AggregateSignatureIInv, SignerRound1IInv, SignerRound2IInv,
     SigningDoneIInv DEF Sign
<1>2. ASSUME NEW s \in Sends, Call(s) PROVE IInv'
  BY <1>2, AuthenticateIInv, NoSessionIInv, CallAuthIInv, CallStartIInv, CallCommitIInv DEF Call
<1>3. CASE UNCHANGED vars
  BY <1>3 DEF vars, IInv, TypeOK, OperatorSessions, FinalOfCall, CommitsBacked, Backed, Message
<1>4. QED
  BY <1>1, <1>2, <1>3, CallErrIInv, SigningErrIInv, OperatorLateIInv, SessionExpiresIInv DEF Next

-----------------------------------------------------------------------------
(* The theorems.                                                           *)

\* The invariant holds in every reachable state.
LEMMA InductiveInvariance == Spec => []IInv
BY InitIInv, NextIInv, PTL DEF Spec

\* The state of the calls, the sessions and the signers is always well typed.
THEOREM TypeCorrect == Spec => []TypeOK
<1>1. IInv => TypeOK
  BY DEF IInv
<1>2. QED
  BY <1>1, InductiveInvariance, PTL

\* What is committed, at once or by a late request, carries the shares of all
\* signers for every operator, over that very transaction.
THEOREM CommitsAreSigned == Spec => []CommitFullySigned
<1>1. IInv => CommitFullySigned
  BY DEF IInv, CommitsBacked, Backed, CommitFullySigned
<1>2. QED
  BY <1>1, InductiveInvariance, PTL

-----------------------------------------------------------------------------
(* SparkSign implements SparkCall.                                         *)

\* What the operator has of one call.
Of(C, s) == {f \in C : f[1] = s}

\* When all transactions of a call are the same one, they count one or none.
LEMMA CountOne ==
  ASSUME NEW C, NEW s, NEW x, \A f \in C : f[1] = s => f = x
  PROVE  Cardinality(Of(C, s)) = IF x \in C /\ x[1] = s THEN 1 ELSE 0
<1>1. CASE x \in C /\ x[1] = s
  <2>1. Of(C, s) = {x}
    BY <1>1 DEF Of
  <2>2. QED
    BY <1>1, <2>1, FS_Singleton
<1>2. CASE ~(x \in C /\ x[1] = s)
  <2>1. Of(C, s) = {}
    BY <1>2 DEF Of
  <2>2. QED
    BY <1>2, <2>1, FS_EmptySet
<1>3. QED
  BY <1>1, <1>2

\* One more commit, of the transaction the call was given, counts once.
LEMMA CommitCounts ==
  ASSUME IInv, NEW s \in Sends, send[s].final[1] = s, committed' = committed \cup {send[s].final}
  PROVE  /\ send[s].final \in committed => Commits[s] = 1 /\ Commits' = Commits
         /\ send[s].final \notin committed => Commits[s] = 0 /\ Commits' = [Commits EXCEPT ![s] = 1]
<1> DEFINE x == send[s].final
<1>1. \A f \in committed : f[1] = s => f = x
  BY DEF IInv, CommitsBacked, Backed
<1>2. \A f \in committed' : f[1] = s => f = x
  BY <1>1
<1>3. Cardinality(Of(committed, s)) = IF x \in committed THEN 1 ELSE 0
  BY <1>1, CountOne
<1>4. Cardinality(Of(committed', s)) = 1
  BY <1>2, CountOne
<1>5. \A t \in Sends : t # s => Of(committed', t) = Of(committed, t)
  BY DEF Of
<1>6. /\ Commits = [t \in Sends |-> Cardinality(Of(committed, t))]
      /\ Commits' = [t \in Sends |-> Cardinality(Of(committed', t))]
  BY DEF Commits, Of
<1>7. CASE x \in committed
  <2>1. committed' = committed
    BY <1>7
  <2>2. QED
    BY <1>3, <1>6, <1>7, <2>1
<1>8. CASE x \notin committed
  <2>1. Commits' = [Commits EXCEPT ![s] = 1]
    BY <1>4, <1>5, <1>6
  <2>2. QED
    BY <1>3, <1>6, <1>8, <2>1
<1>9. QED
  BY <1>7, <1>8

\* A call that fails says so once: ReturnErr of the contract.
LEMMA ErrStep ==
  ASSUME NEW s \in Sends, send[s].pc \notin {"ok", "err"}, send'[s].pc = "err",
         \A t \in Sends : t # s => send'[t] = send[t], UNCHANGED committed
  PROVE  [Contract!Next]_(Contract!vars)
<1>1. Commits' = Commits
  BY DEF Commits
<1>2. Answer[s] = "none" /\ Answer' = [Answer EXCEPT ![s] = "err"]
  BY DEF Answer
<1>3. QED
  BY <1>1, <1>2 DEF Contract!Next, Contract!ReturnErr

\* A step that answers nobody and commits nothing is a stutter of the contract.
LEMMA QuietStep ==
  ASSUME \A t \in Sends : send'[t].pc = send[t].pc \/ (/\ send[t].pc \notin {"ok", "err"}
                                                       /\ send'[t].pc \notin {"ok", "err"}),
         UNCHANGED committed
  PROVE  [Contract!Next]_(Contract!vars)
<1>1. Commits' = Commits
  BY DEF Commits
<1>2. Answer' = Answer
  BY DEF Answer
<1>3. QED
  BY <1>1, <1>2 DEF Contract!vars

\* Every step of a call is a step of the contract, or none.
LEMMA CallStep ==
  ASSUME IInv, NEW s \in Sends, Call(s) \/ CallErr(s)
  PROVE  [Contract!Next]_(Contract!vars)
<1>1. TypeOK /\ send \in [Sends -> SendType]
  BY DEF IInv, TypeOK
<1>2. CASE \E p \in {"partialSign", "challenge", "authSign"} :
             Goto(s, p) /\ send[s].pc \in {"idle", "challenge", "verify"} /\ UNCHANGED committed
  <2>1. PICK p \in {"partialSign", "challenge", "authSign"} :
             Goto(s, p) /\ send[s].pc \in {"idle", "challenge", "verify"} /\ UNCHANGED committed
    BY <1>2
  <2>2. send'[s].pc = p /\ \A t \in Sends : t # s => send'[t] = send[t]
    BY <1>1, <2>1, GotoSend DEF Remote, Signing
  <2>3. QED
    BY <2>1, <2>2, QuietStep
<1>3. CASE Goto(s, "err") /\ send[s].pc \in Remote /\ UNCHANGED committed
  <2>1. send'[s].pc = "err" /\ \A t \in Sends : t # s => send'[t] = send[t]
    BY <1>1, <1>3, GotoSend
  <2>2. QED
    BY <1>3, <2>1, ErrStep DEF Remote
<1>4. CASE CallStart(s)
  <2>1. PICK n \in 1..(send[s].tries + 1) :
          send' = [send EXCEPT ![s] = [pc |-> "finalSign", tries |-> 0, final |-> <<s, n>>]]
    BY <1>4 DEF CallStart
  <2>2. send[s].pc = "start" /\ send'[s].pc = "finalSign" /\ UNCHANGED committed
    BY <1>1, <1>4, <2>1 DEF CallStart
  <2>3. \A t \in Sends : t # s => send'[t] = send[t]
    BY <1>1, <2>1
  <2>4. QED
    BY <2>2, <2>3, QuietStep
<1>5. CASE CallCommit(s)
  <2>1. send[s].pc = "commit" /\ Goto(s, "ok") /\ committed' = committed \cup {send[s].final}
    BY <1>5 DEF CallCommit
  <2>2. send'[s].pc = "ok" /\ \A t \in Sends : t # s => send'[t] = send[t]
    BY <1>1, <2>1, GotoSend
  <2>3. Answer[s] = "none" /\ Answer' = [Answer EXCEPT ![s] = "ok"]
    BY <2>1, <2>2 DEF Answer
  <2>4. /\ send[s].final \in committed => Commits[s] = 1 /\ Commits' = Commits
        /\ send[s].final \notin committed => Commits[s] = 0 /\ Commits' = [Commits EXCEPT ![s] = 1]
    BY <2>1, CommitBacked, CommitCounts
  <2>5. QED
    BY <2>3, <2>4 DEF Contract!Next, Contract!ReturnOk, Contract!Commit
<1>6. CASE CallErr(s) /\ send[s].tries + 1 < MaxTries
  <2>1. send' = [send EXCEPT ![s].tries = @ + 1] /\ UNCHANGED committed
    BY <1>6 DEF CallErr
  <2>2. \A t \in Sends : send'[t].pc = send[t].pc
    BY <1>1, <2>1 DEF SendType
  <2>3. QED
    BY <2>1, <2>2, QuietStep
<1>7. CASE Authenticate(s) \/ CallChallenge(s) \/ CallVerify(s)
  BY <1>2, <1>7 DEF Authenticate, CallChallenge, CallVerify
<1>8. CASE NoSession(s) \/ (CallErr(s) /\ ~(send[s].tries + 1 < MaxTries))
  BY <1>3, <1>8 DEF NoSession, CallErr, Remote
<1>9. QED
  BY <1>4, <1>5, <1>6, <1>7, <1>8 DEF Call

\* Signing says nothing to the caller, unless it fails.
LEMMA SignStep ==
  ASSUME IInv, NEW s \in Sends, Sign(s)
  PROVE  [Contract!Next]_(Contract!vars)
<1>1. TypeOK /\ send \in [Sends -> SendType]
  BY DEF IInv, TypeOK
<1>2. CASE UNCHANGED <<send, committed>>
  BY <1>2, QuietStep
<1>3. CASE SigningDone(s)
  <2>1. send[s].pc \in Signing /\ UNCHANGED committed
    BY <1>3 DEF SigningDone, Current, Signing
  <2>2. PICK q \in {"err", "verify", "start", "commit"} : Goto(s, q)
    BY <1>3, <2>1 DEF SigningDone, AfterSigning, Signing
  <2>3. send'[s].pc = q /\ \A t \in Sends : t # s => send'[t] = send[t]
    BY <1>1, <2>2, GotoSend DEF Remote
  <2>4. CASE q = "err"
    BY <2>1, <2>3, <2>4, ErrStep DEF Signing
  <2>5. CASE q # "err"
    BY <2>1, <2>3, <2>5, QuietStep DEF Signing
  <2>6. QED
    BY <2>4, <2>5
<1>4. QED
  BY <1>2, <1>3 DEF Sign, StorePackage, AggregateSignature, SignerRound1, SignerRound2

\* A late request commits what its call was given, or nothing new.
LEMMA LateStep ==
  ASSUME IInv, NEW c \in calls, OperatorLate(c)
  PROVE  [Contract!Next]_(Contract!vars)
<1>1. UNCHANGED send
  BY DEF OperatorLate
<1>2. CASE c.kind # "commit"
  BY <1>1, <1>2, QuietStep DEF OperatorLate
<1>3. CASE c.kind = "commit"
  <2> DEFINE s == c.tx[1]
  <2>1. s \in Sends
    BY DEF IInv, TypeOK, Finals
  <2>2. c.tx = send[s].final
    BY <1>3 DEF IInv, CommitsBacked, Backed
  <2>3. committed' = committed \cup {send[s].final}
    BY <1>3, <2>2 DEF OperatorLate
  <2>4. send[s].pc = "ok" => send[s].final \in committed
    BY <2>1 DEF IInv, FinalOfCall
  <2> HIDE DEF s
  <2>5. send[s].final[1] = s
    BY <2>2 DEF s
  <2>6. /\ send[s].final \in committed => Commits[s] = 1 /\ Commits' = Commits
        /\ send[s].final \notin committed => Commits[s] = 0 /\ Commits' = [Commits EXCEPT ![s] = 1]
    BY <2>1, <2>3, <2>5, CommitCounts
  <2>7. Answer' = Answer
    BY <1>1 DEF Answer
  <2>8. send[s].final \notin committed => Answer[s] # "ok"
    BY <2>1, <2>4 DEF Answer
  <2>9. QED
    BY <2>1, <2>6, <2>7, <2>8 DEF Contract!Next, Contract!Commit, Contract!vars
<1>4. QED
  BY <1>2, <1>3

\* However starts and commits are repeated and delayed, one call commits at
\* most one transaction, and Ok is only said once it is committed.
THEOREM ImplementsContract == Spec => CallContract
<1>1. Init => Contract!Init
  <2> SUFFICES ASSUME Init PROVE Contract!Init
    OBVIOUS
  <2>1. Answer = [s \in Sends |-> "none"]
    BY DEF Init, Answer
  <2>2. \A s \in Sends : {f \in committed : f[1] = s} = {}
    BY DEF Init
  <2>3. Commits = [s \in Sends |-> 0]
    BY <2>2, FS_EmptySet DEF Commits
  <2>4. QED
    BY <2>1, <2>3 DEF Contract!Init
<1>2. IInv /\ [Next]_vars => [Contract!Next]_(Contract!vars)
  <2> SUFFICES ASSUME IInv, [Next]_vars PROVE [Contract!Next]_(Contract!vars)
    OBVIOUS
  <2>1. CASE UNCHANGED <<send, committed>>
    BY <2>1, QuietStep
  <2>2. QED
    BY <2>1, CallStep, SignStep, LateStep DEF Next, SigningErr, SessionExpires, vars
<1>3. QED
  BY <1>1, <1>2, InductiveInvariance, PTL DEF Spec, CallContract, Contract!Spec

=============================================================================
