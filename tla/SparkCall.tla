------------------------------ MODULE SparkCall ------------------------------
(***************************************************************************)
(* What send_spark_transaction promises its caller, the bridge flow: Ok    *)
(* means the token transaction was committed, and one call commits at most *)
(* one transaction. An error promises nothing: the transaction may have    *)
(* been committed before the error, or be committed after it.              *)
(***************************************************************************)
EXTENDS Naturals

CONSTANT Sends

VARIABLES
  answer,    \* what the caller has been told
  commits    \* how many transactions of the call were committed

vars == <<answer, commits>>

Init ==
  /\ answer = [s \in Sends |-> "none"]
  /\ commits = [s \in Sends |-> 0]

Commit(s) ==
  /\ commits[s] = 0 /\ answer[s] # "ok"
  /\ commits' = [commits EXCEPT ![s] = 1]
  /\ answer' \in {answer, [answer EXCEPT ![s] = "ok"]}

ReturnOk(s) ==
  /\ answer[s] = "none" /\ commits[s] = 1
  /\ answer' = [answer EXCEPT ![s] = "ok"]
  /\ UNCHANGED commits

ReturnErr(s) ==
  /\ answer[s] = "none"
  /\ answer' = [answer EXCEPT ![s] = "err"]
  /\ UNCHANGED commits

Next == \E s \in Sends : Commit(s) \/ ReturnOk(s) \/ ReturnErr(s)

Spec == Init /\ [][Next]_vars
=============================================================================
