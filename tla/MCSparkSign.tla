---------------------------- MODULE MCSparkSign ----------------------------
(* Instance of SparkSign for TLC: all calls sign with one key.              *)
EXTENDS SparkSign

CONSTANT k1
OneKey == [s \in Sends |-> k1]
=============================================================================
