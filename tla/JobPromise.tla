----------------------------- MODULE JobPromise -----------------------------
(***************************************************************************)
(* The job queue, with its locks, machines, stale recoveries, publishes    *)
(* left behind, deletions in flight and crashes, implements                *)
(* CandidateOffers: a job's stage is read from its row and from whether    *)
(* its offer stands.  Refs are promised as long as none is deleted from    *)
(* outside and no deletion fails.                                          *)
(***************************************************************************)
EXTENDS JobQueue

StageOf(j) ==
    CASE row[j] = "absent"  -> "new"
      [] row[j] = "running" -> "working"
      [] row[j] = "completed" /\ kind[j] \in {"merge", "land"} -> "completed"
      [] j \in Offers       -> "offered"
      [] OTHER              -> "closed"

Promise == INSTANCE CandidateOffers WITH
    stage  <- [j \in Job |-> StageOf(j)],
    of     <- refOf,
    barred <- overtaken \cup {j \in Job : kind[j] \in {"discard", "commit", "rebase"}},
    kept   <- IF spent["fault"] = 0 THEN refs ELSE Job,
    target <- landed

(***************************************************************************)
(* Every step of the queue is one the promise allows: whatever races a     *)
(* publish, a deletion or a recovery, one job works at a time, no verdict  *)
(* is taken back, an offer stands until another job is dispatched and can  *)
(* be landed until then, and each candidate reaches the target once.       *)
(***************************************************************************)
KeepsOfferPromise == Promise!Spec
=============================================================================
