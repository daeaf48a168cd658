------------------------------ MODULE MCDueWork ------------------------------
(* One run of the coordinator over a deletion, two indexing jobs of one      *)
(* article and an ingestion, for TLC.                                         *)
EXTENDS DueWork, TLC

CONSTANTS d1, i1, i2, g1, x1, s1

QueueOfJob == d1 :> "account-deletion" @@ i1 :> "indexing" @@ i2 :> "indexing"
              @@ g1 :> "ingestion"
SubjectOfJob == d1 :> None @@ i1 :> x1 @@ i2 :> x1 @@ g1 :> s1
DueSince == d1 :> 1 @@ i1 :> 2 @@ i2 :> 2 @@ g1 :> 1
=============================================================================
