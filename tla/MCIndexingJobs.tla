--------------------------- MODULE MCIndexingJobs ---------------------------
(* Instances of IndexingJobs for TLC: see the .cfg files and README.md. *)
EXTENDS IndexingJobs, TLC

\* Identities that the specification only compares.
Symmetric == Permutations(Worker)
=============================================================================
