----------------------------- MODULE MCJobQueue -----------------------------
(* Small instances of the job queue. *)
EXTENDS JobPromise, TLC

MCSymmetry == Permutations(Job) \cup Permutations(Request)
=============================================================================
