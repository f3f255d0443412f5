------------------------------ MODULE Approval ------------------------------
(***************************************************************************)
(* What the bridge promises in both directions, without tables, messages   *)
(* or tasks: every verifier decides once about a deposit, and a payout of  *)
(* the deposit (a mint on Spark, an exit transaction on Bitcoin) happens   *)
(* only after every verifier decided for it. Nothing limits a deposit to   *)
(* one payout: the code sends one per task that finds it confirmed.        *)
(***************************************************************************)
CONSTANTS
  Verifiers,   \* the configured verifiers
  Deposits,    \* what the verifiers decide about
  Payouts      \* who may pay a deposit out

VARIABLES
  verdict,     \* each verifier's decision about each deposit
  paid         \* the payouts: <<deposit, payout>>

Undecided == [v \in Verifiers |-> [d \in Deposits |-> "none"]]

Init == verdict = Undecided /\ paid = {}

Decide(v, d, s) ==
  /\ verdict[v][d] = "none"
  /\ verdict' = [verdict EXCEPT ![v][d] = s]
  /\ UNCHANGED paid

Pay(d, k) ==
  /\ \A v \in Verifiers : verdict[v][d] = "Confirmed"
  /\ paid' = paid \cup {<<d, k>>}
  /\ UNCHANGED verdict

Next ==
  \/ \E v \in Verifiers, d \in Deposits, s \in {"Confirmed", "Failed"} :
       Decide(v, d, s)
  \/ \E d \in Deposits, k \in Payouts : Pay(d, k)

Spec == Init /\ [][Next]_<<verdict, paid>>
=============================================================================
