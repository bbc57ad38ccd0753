-------------------------- MODULE MCResultAnalysis --------------------------
(***************************************************************************)
(* Three requests of one test for TLC, one result of each kind.            *)
(***************************************************************************)
EXTENDS ResultAnalysis, TLC

CONSTANTS t1, t2, t3

Results == (t1 :> "samples") @@ (t2 :> "empty") @@ (t3 :> "failed")
MixedResults == [t \in Tasks |-> Results[t]]
Heights == [t \in Tasks |-> IF t = t1 THEN 1 ELSE 2]
=============================================================================
