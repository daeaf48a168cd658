-------------------------- MODULE MCIngestionJobs --------------------------
(* Instances of IngestionJobs for TLC: see the .cfg files and README.md. *)
EXTENDS IngestionJobs, TLC

\* Identities that the specification only compares; used by safety runs.
Symmetric == Permutations(Worker) \cup Permutations(Admin) \cup Permutations(Key)
=============================================================================
