--------------------------- MODULE JobQueue_proofs ---------------------------
(* Proofs about the job queue: its verdicts, its lock, and the length of its runs. *)
EXTENDS JobQueue, FiniteSetTheorems, TLAPS

\* A running row has a live machine; a job not dispatched yet has nothing.
Machines ==
    \A j \in Job :
        /\ row[j] = "running" => actor[j] \notin {"none", "finished"}
        /\ row[j] = "absent" => actor[j] = "none" /\ pub[j] = "idle"
        /\ actor[j] = "working" => kind[j] \notin {"land", "discard"}

\* The lock and its holders, until the operator forces it open.
Locked ==
    spent["force"] = 0 => /\ \A j \in Job : actor[j] \notin {"none", "finished"}
                                               => lock = j
                          /\ lane => lock = Lane

\* What has passed the compare-and-set is on the target.
Landings ==
    \A j \in Job :
        /\ pub[j] = "landed" => refOf[j] \in landed
        /\ kind[j] \in {"merge", "land"} /\ row[j] = "completed"
              => refOf[j] \in landed

\* A deletion that closes a row closes an offer.
Closings ==
    \A d \in pend : d.job # None => row[d.job] \in {"ready-to-land", "discarded"}

JobQueueInv == JobQueueTypeOK /\ Machines /\ Locked /\ Landings /\ Closings

\* No verdict changes, and an offer ends only as a discard.
Kept == \A x \in Job :
           /\ row[x] \in {"completed", "failed", "conflicts", "discarded"}
                 => row'[x] = row[x]
           /\ row[x] = "ready-to-land" => row'[x] \in {row[x], "discarded"}

\* The prepare writes a ref and starts a publish: no verdict, no lock moves.
LEMMA PreparedStep ==
    ASSUME JobQueueInv, NEW j \in Job, Prepared(j)
    PROVE  JobQueueInv' /\ Kept
<1> USE JobAssumption
    DEF JobQueueInv, bootVars, rowVars, actorVars, lockVars, gitVars
<1>1. JobQueueTypeOK'
  BY DEF JobQueueTypeOK, Statuses, ActorStates, Prepared
<1>2. Machines'
  BY DEF Machines, JobQueueTypeOK, Prepared
<1>3. Locked'
  BY DEF Locked, Machines, JobQueueTypeOK, Prepared
<1>4. Landings'
  BY DEF Landings, JobQueueTypeOK, Prepared
<1>5. Kept
  BY DEF Kept, Closings, JobQueueTypeOK, Prepared
<1>6. Closings'
  BY <1>5 DEF Closings, Kept, JobQueueTypeOK, Deletions, Prepared
<1> QED  BY <1>1, <1>2, <1>3, <1>4, <1>5, <1>6

\* A machine ends in its working phase: only commits and rebases complete
\* there, never a land, so a completion owes nothing to the target.
LEMMA WorkEndsStep ==
    ASSUME JobQueueInv, NEW j \in Job, WorkEnds(j)
    PROVE  JobQueueInv' /\ Kept
<1> USE JobAssumption
    DEF JobQueueInv, bootVars, rowVars, actorVars, lockVars, gitVars
<1>1. JobQueueTypeOK'
  BY DEF JobQueueTypeOK, Statuses, ActorStates, Ends, WorkVerdicts, WorkEnds
<1>2. Machines'
  BY DEF Machines, JobQueueTypeOK, Ends, WorkVerdicts, Statuses, WorkEnds
<1>3. Locked'
  BY DEF Locked, Machines, JobQueueTypeOK, Ends, WorkVerdicts, Statuses,
     WorkEnds
<1>4. Landings'
  BY DEF Landings, Machines, JobQueueTypeOK, Ends, WorkVerdicts, Statuses,
     WorkEnds
<1>5. Kept
  BY DEF Kept, Closings, JobQueueTypeOK, Ends, WorkVerdicts, Statuses, WorkEnds
<1>6. Closings'
  BY <1>5 DEF Closings, Kept, JobQueueTypeOK, Deletions, Statuses, WorkEnds
<1> QED  BY <1>1, <1>2, <1>3, <1>4, <1>5, <1>6

\* The operator's stop: the lock goes only with a commit's machine, which
\* ends on the spot.
LEMMA AbortStep ==
    ASSUME JobQueueInv, NEW j \in Job, Abort(j)
    PROVE  JobQueueInv' /\ Kept
<1> USE JobAssumption
    DEF JobQueueInv, bootVars, rowVars, actorVars, lockVars, gitVars
<1>1. JobQueueTypeOK'
  BY DEF JobQueueTypeOK, Statuses, ActorStates, Ends, LeftBusy, LeftDeleting,
     Deletions, Abort
<1>2. Machines'
  BY DEF Machines, JobQueueTypeOK, Ends, LeftBusy, LeftDeleting, Deletions,
     Statuses, ActorStates, Abort
<1>3. Locked'
  BY DEF Locked, Machines, JobQueueTypeOK, Ends, LeftBusy, LeftDeleting,
     Deletions, Statuses, ActorStates, Abort
<1>4. Landings'
  BY DEF Landings, JobQueueTypeOK, Ends, LeftBusy, LeftDeleting, Deletions,
     Statuses, ActorStates, Abort
<1>5. Kept
  BY DEF Kept, Closings, JobQueueTypeOK, Ends, LeftBusy, LeftDeleting,
     Deletions, Statuses, ActorStates, Abort
<1>6. Closings'
  BY <1>5 DEF Closings, Kept, JobQueueTypeOK, Deletions, LeftBusy,
     LeftDeleting, Statuses, ActorStates, Abort
<1> QED  BY <1>1, <1>2, <1>3, <1>4, <1>5, <1>6

\* An aborted machine ends as a failure and lets the lock go.
LEMMA AbortEndsStep ==
    ASSUME JobQueueInv, NEW j \in Job, AbortEnds(j)
    PROVE  JobQueueInv' /\ Kept
<1> USE JobAssumption
    DEF JobQueueInv, bootVars, rowVars, actorVars, lockVars, gitVars
<1>1. JobQueueTypeOK'
  BY DEF JobQueueTypeOK, Statuses, ActorStates, Ends, AbortEnds
<1>2. Machines'
  BY DEF Machines, JobQueueTypeOK, Ends, Statuses, AbortEnds
<1>3. Locked'
  BY DEF Locked, Machines, JobQueueTypeOK, Ends, Statuses, AbortEnds
<1>4. Landings'
  BY DEF Landings, JobQueueTypeOK, Ends, Statuses, AbortEnds
<1>5. Kept
  BY DEF Kept, Closings, JobQueueTypeOK, Ends, Statuses, AbortEnds
<1>6. Closings'
  BY <1>5 DEF Closings, Kept, JobQueueTypeOK, Deletions, Statuses, AbortEnds
<1> QED  BY <1>1, <1>2, <1>3, <1>4, <1>5, <1>6

\* A discard ends, with or without a ref to delete.
LEMMA DiscardEndsStep ==
    ASSUME JobQueueInv, NEW j \in Job, DiscardEnds(j)
    PROVE  JobQueueInv' /\ Kept
<1> USE JobAssumption
    DEF JobQueueInv, bootVars, rowVars, actorVars, lockVars, gitVars
<1>1. JobQueueTypeOK'
  BY DEF JobQueueTypeOK, Statuses, ActorStates, Ends, DiscardEnds
<1>2. Machines'
  BY DEF Machines, JobQueueTypeOK, Ends, Statuses, DiscardEnds
<1>3. Locked'
  BY DEF Locked, Machines, JobQueueTypeOK, Ends, Statuses, DiscardEnds
<1>4. Landings'
  BY DEF Landings, JobQueueTypeOK, Ends, Statuses, DiscardEnds
<1>5. Kept
  BY DEF Kept, Closings, JobQueueTypeOK, Ends, Statuses, DiscardEnds
<1>6. Closings'
  BY <1>5 DEF Closings, Kept, JobQueueTypeOK, Deletions, Statuses, DiscardEnds
<1> QED  BY <1>1, <1>2, <1>3, <1>4, <1>5, <1>6

\* A git command left behind ends; at most it writes a ref.
LEMMA BusyEndsStep ==
    ASSUME JobQueueInv, NEW j \in Job, BusyEnds(j)
    PROVE  JobQueueInv' /\ Kept
<1> USE JobAssumption
    DEF JobQueueInv, bootVars, rowVars, actorVars, lockVars, gitVars
<1>1. JobQueueTypeOK'
  BY DEF JobQueueTypeOK, Statuses, ActorStates, BusyEnds
<1>2. Machines'
  BY DEF Machines, JobQueueTypeOK, BusyEnds
<1>3. Locked'
  BY DEF Locked, Machines, JobQueueTypeOK, BusyEnds
<1>4. Landings'
  BY DEF Landings, JobQueueTypeOK, BusyEnds
<1>5. Kept
  BY DEF Kept, Closings, JobQueueTypeOK, BusyEnds
<1>6. Closings'
  BY <1>5 DEF Closings, Kept, JobQueueTypeOK, Deletions, BusyEnds
<1> QED  BY <1>1, <1>2, <1>3, <1>4, <1>5, <1>6

\* A publish that parks: its machine, if any is left, offers the candidate.
LEMMA PublishParksStep ==
    ASSUME JobQueueInv, NEW j \in Job, PublishParks(j)
    PROVE  JobQueueInv' /\ Kept
<1> USE JobAssumption
    DEF JobQueueInv, bootVars, rowVars, actorVars, lockVars, gitVars
<1>1. JobQueueTypeOK'
  BY DEF JobQueueTypeOK, Statuses, ActorStates, Settles, RetriesLeft, Ends,
     PublishParks
<1>2. Machines'
  BY DEF Machines, JobQueueTypeOK, Settles, RetriesLeft, Ends, Statuses,
     PublishParks
<1>3. Locked'
  BY DEF Locked, Machines, JobQueueTypeOK, Settles, RetriesLeft, Ends,
     Statuses, PublishParks
<1>4. Landings'
  BY DEF Landings, JobQueueTypeOK, Settles, RetriesLeft, Ends, Statuses,
     PublishParks
<1>5. Kept
  BY DEF Kept, Closings, JobQueueTypeOK, Settles, RetriesLeft, Ends,
     Statuses, PublishParks
<1>6. Closings'
  BY <1>5 DEF Closings, Kept, JobQueueTypeOK, Deletions, Statuses, PublishParks
<1> QED  BY <1>1, <1>2, <1>3, <1>4, <1>5, <1>6

\* A publish takes the project lock.
LEMMA PublishLocksStep ==
    ASSUME JobQueueInv, NEW j \in Job, PublishLocks(j)
    PROVE  JobQueueInv' /\ Kept
<1> USE JobAssumption
    DEF JobQueueInv, bootVars, rowVars, actorVars, lockVars, gitVars
<1>1. JobQueueTypeOK'
  BY DEF JobQueueTypeOK, Statuses, ActorStates, PublishLocks
<1>2. Machines'
  BY DEF Machines, JobQueueTypeOK, PublishLocks
<1>3. Locked'
  BY DEF Locked, Machines, JobQueueTypeOK, PublishLocks
<1>4. Landings'
  BY DEF Landings, JobQueueTypeOK, PublishLocks
<1>5. Kept
  BY DEF Kept, Closings, JobQueueTypeOK, PublishLocks
<1>6. Closings'
  BY <1>5 DEF Closings, Kept, JobQueueTypeOK, Deletions, PublishLocks
<1> QED  BY <1>1, <1>2, <1>3, <1>4, <1>5, <1>6

\* A publish is refused before the target is touched.
LEMMA PublishFailsStep ==
    ASSUME JobQueueInv, NEW j \in Job, PublishFails(j)
    PROVE  JobQueueInv' /\ Kept
<1> USE JobAssumption
    DEF JobQueueInv, bootVars, rowVars, actorVars, lockVars, gitVars
<1>1. JobQueueTypeOK'
  BY DEF JobQueueTypeOK, Statuses, ActorStates, Settles, RetriesLeft, Ends,
     PublishFails
<1>2. Machines'
  BY DEF Machines, JobQueueTypeOK, Settles, RetriesLeft, Ends, Statuses,
     PublishFails
<1>3. Locked'
  BY DEF Locked, Machines, JobQueueTypeOK, Settles, RetriesLeft, Ends,
     Statuses, PublishFails
<1>4. Landings'
  BY DEF Landings, JobQueueTypeOK, Settles, RetriesLeft, Ends, Statuses,
     PublishFails
<1>5. Kept
  BY DEF Kept, Closings, JobQueueTypeOK, Settles, RetriesLeft, Ends,
     Statuses, PublishFails
<1>6. Closings'
  BY <1>5 DEF Closings, Kept, JobQueueTypeOK, Deletions, Statuses, PublishFails
<1> QED  BY <1>1, <1>2, <1>3, <1>4, <1>5, <1>6

\* The compare-and-set: from here on the candidate is on the target.
LEMMA PublishLandsStep ==
    ASSUME JobQueueInv, NEW j \in Job, PublishLands(j)
    PROVE  JobQueueInv' /\ Kept
<1> USE JobAssumption
    DEF JobQueueInv, bootVars, rowVars, actorVars, lockVars, gitVars
<1>1. JobQueueTypeOK'
  BY DEF JobQueueTypeOK, Statuses, ActorStates, PublishLands
<1>2. Machines'
  BY DEF Machines, JobQueueTypeOK, PublishLands
<1>3. Locked'
  BY DEF Locked, Machines, JobQueueTypeOK, PublishLands
<1>4. Landings'
  BY DEF Landings, JobQueueTypeOK, PublishLands
<1>5. Kept
  BY DEF Kept, Closings, JobQueueTypeOK, PublishLands
<1>6. Closings'
  BY <1>5 DEF Closings, Kept, JobQueueTypeOK, Deletions, PublishLands
<1> QED  BY <1>1, <1>2, <1>3, <1>4, <1>5, <1>6

\* The target moved first: the machine aborts, prepares again or fails.
LEMMA PublishLosesRaceStep ==
    ASSUME JobQueueInv, NEW j \in Job, PublishLosesRace(j)
    PROVE  JobQueueInv' /\ Kept
<1> USE JobAssumption
    DEF JobQueueInv, bootVars, rowVars, actorVars, lockVars, gitVars
<1>1. JobQueueTypeOK'
  BY DEF JobQueueTypeOK, Statuses, ActorStates, Settles, RetriesLeft, Ends,
     PublishLosesRace
<1>2. Machines'
  BY DEF Machines, JobQueueTypeOK, Settles, RetriesLeft, Ends, Statuses,
     PublishLosesRace
<1>3. Locked'
  <2>1. CASE UNCHANGED <<actor, lock>>
    BY <2>1 DEF PublishLosesRace, Locked
  <2>2. CASE /\ actor[j] = "publishing" /\ UNCHANGED lock
             /\ \E s \in ActorStates : actor' = [actor EXCEPT ![j] = s]
    BY <2>2 DEF PublishLosesRace, Locked, JobQueueTypeOK
  <2>3. CASE actor[j] = "publishing" /\ Ends(j, "failed")
    BY <2>3 DEF PublishLosesRace, Locked, Machines, JobQueueTypeOK, Ends
  <2> QED  BY <2>1, <2>2, <2>3 DEF PublishLosesRace, Settles, ActorStates
<1>4. Landings'
  BY DEF Landings, JobQueueTypeOK, Settles, RetriesLeft, Ends, Statuses,
     PublishLosesRace
<1>5. Kept
  BY DEF Kept, Closings, JobQueueTypeOK, Settles, RetriesLeft, Ends,
     Statuses, PublishLosesRace
<1>6. Closings'
  BY <1>5 DEF Closings, Kept, JobQueueTypeOK, Deletions, Statuses,
     PublishLosesRace
<1> QED  BY <1>1, <1>2, <1>3, <1>4, <1>5, <1>6

\* The publish reports what the compare-and-set did.
LEMMA PublishCompletesStep ==
    ASSUME JobQueueInv, NEW j \in Job, PublishCompletes(j)
    PROVE  JobQueueInv' /\ Kept
<1> USE JobAssumption
    DEF JobQueueInv, bootVars, rowVars, actorVars, lockVars, gitVars
<1>1. JobQueueTypeOK'
  BY DEF JobQueueTypeOK, Statuses, ActorStates, Settles, RetriesLeft, Ends,
     Spend, PublishCompletes
<1>2. Machines'
  BY DEF Machines, JobQueueTypeOK, Settles, RetriesLeft, Ends, Statuses,
     Spend, PublishCompletes
<1>3. Locked'
  BY DEF Locked, Machines, JobQueueTypeOK, Settles, RetriesLeft, Ends,
     Statuses, Spend, PublishCompletes
<1>4. Landings'
  BY DEF Landings, JobQueueTypeOK, Settles, RetriesLeft, Ends, Statuses,
     Spend, PublishCompletes
<1>5. Kept
  BY DEF Kept, Closings, JobQueueTypeOK, Settles, RetriesLeft, Ends,
     Statuses, Spend, PublishCompletes
<1>6. Closings'
  BY <1>5 DEF Closings, Kept, JobQueueTypeOK, Deletions, Statuses, Spend,
     PublishCompletes
<1> QED  BY <1>1, <1>2, <1>3, <1>4, <1>5, <1>6

\* The publish fails after the target has moved.
LEMMA PublishThrowsStep ==
    ASSUME JobQueueInv, NEW j \in Job, PublishThrows(j)
    PROVE  JobQueueInv' /\ Kept
<1> USE JobAssumption
    DEF JobQueueInv, bootVars, rowVars, actorVars, lockVars, gitVars
<1>1. JobQueueTypeOK'
  BY DEF JobQueueTypeOK, Statuses, ActorStates, Settles, RetriesLeft, Ends,
     Spend, PublishThrows
<1>2. Machines'
  BY DEF Machines, JobQueueTypeOK, Settles, RetriesLeft, Ends, Statuses,
     Spend, PublishThrows
<1>3. Locked'
  BY DEF Locked, Machines, JobQueueTypeOK, Settles, RetriesLeft, Ends,
     Statuses, Spend, PublishThrows
<1>4. Landings'
  BY DEF Landings, JobQueueTypeOK, Settles, RetriesLeft, Ends, Statuses,
     Spend, PublishThrows
<1>5. Kept
  BY DEF Kept, Closings, JobQueueTypeOK, Settles, RetriesLeft, Ends,
     Statuses, Spend, PublishThrows
<1>6. Closings'
  BY <1>5 DEF Closings, Kept, JobQueueTypeOK, Deletions, Statuses, Spend,
     PublishThrows
<1> QED  BY <1>1, <1>2, <1>3, <1>4, <1>5, <1>6

\* A deletion comes back and closes the offer it was begun for.
LEMMA DeletionEndsStep ==
    ASSUME JobQueueInv, NEW d \in pend, DeletionEnds(d)
    PROVE  JobQueueInv' /\ Kept
<1> USE JobAssumption
    DEF JobQueueInv, bootVars, rowVars, actorVars, lockVars, gitVars
<1>1. JobQueueTypeOK'
  BY DEF JobQueueTypeOK, Statuses, ActorStates, Deletions, Spend, DeletionEnds
<1>2. Machines'
  BY DEF Machines, JobQueueTypeOK, Deletions, Statuses, Spend, DeletionEnds
<1>3. Locked'
  BY DEF Locked, Machines, JobQueueTypeOK, Deletions, Statuses, Spend,
     DeletionEnds
<1>4. Landings'
  BY DEF Landings, JobQueueTypeOK, Deletions, Statuses, Spend, DeletionEnds
<1>5. Kept
  BY DEF Kept, Closings, JobQueueTypeOK, Deletions, Statuses, Spend,
     DeletionEnds
<1>6. Closings'
  BY <1>5 DEF Closings, Kept, JobQueueTypeOK, Deletions, Statuses, Spend,
     DeletionEnds
<1> QED  BY <1>1, <1>2, <1>3, <1>4, <1>5, <1>6

\* A lane's operation takes a free lock.
LEMMA LaneBeginsStep ==
    ASSUME JobQueueInv, LaneBegins
    PROVE  JobQueueInv' /\ Kept
<1> USE JobAssumption
    DEF JobQueueInv, bootVars, rowVars, actorVars, lockVars, gitVars
<1>1. JobQueueTypeOK'
  BY DEF JobQueueTypeOK, Statuses, ActorStates, LaneBegins
<1>2. Machines'
  BY DEF Machines, JobQueueTypeOK, LaneBegins
<1>3. Locked'
  BY DEF Locked, Machines, JobQueueTypeOK, LaneBegins
<1>4. Landings'
  BY DEF Landings, JobQueueTypeOK, LaneBegins
<1>5. Kept
  BY DEF Kept, Closings, JobQueueTypeOK, LaneBegins
<1>6. Closings'
  BY <1>5 DEF Closings, Kept, JobQueueTypeOK, Deletions, LaneBegins
<1> QED  BY <1>1, <1>2, <1>3, <1>4, <1>5, <1>6

\* A lane's operation ends and deletes the lock's entry, its own until a
\* force-release.
LEMMA LaneEndsStep ==
    ASSUME JobQueueInv, LaneEnds
    PROVE  JobQueueInv' /\ Kept
<1> USE JobAssumption
    DEF JobQueueInv, bootVars, rowVars, actorVars, lockVars, gitVars
<1>1. JobQueueTypeOK'
  BY DEF JobQueueTypeOK, Statuses, ActorStates, LaneEnds
<1>2. Machines'
  BY DEF Machines, JobQueueTypeOK, LaneEnds
<1>3. Locked'
  BY DEF Locked, Machines, JobQueueTypeOK, LaneEnds
<1>4. Landings'
  BY DEF Landings, JobQueueTypeOK, LaneEnds
<1>5. Kept
  BY DEF Kept, Closings, JobQueueTypeOK, LaneEnds
<1>6. Closings'
  BY <1>5 DEF Closings, Kept, JobQueueTypeOK, Deletions, LaneEnds
<1> QED  BY <1>1, <1>2, <1>3, <1>4, <1>5, <1>6

\* The operator forces the lock: the lock invariant lapses.
LEMMA ForceReleaseStep ==
    ASSUME JobQueueInv, ForceRelease
    PROVE  JobQueueInv' /\ Kept
<1> USE JobAssumption
    DEF JobQueueInv, bootVars, rowVars, actorVars, lockVars, gitVars
<1>1. JobQueueTypeOK'
  BY DEF JobQueueTypeOK, Statuses, ActorStates, Spend, ForceRelease
<1>2. Machines'
  BY DEF Machines, JobQueueTypeOK, Spend, ForceRelease
<1>3. Locked'
  BY DEF Locked, Machines, JobQueueTypeOK, Spend, ForceRelease
<1>4. Landings'
  BY DEF Landings, JobQueueTypeOK, Spend, ForceRelease
<1>5. Kept
  BY DEF Kept, Closings, JobQueueTypeOK, Spend, ForceRelease
<1>6. Closings'
  BY <1>5 DEF Closings, Kept, JobQueueTypeOK, Deletions, Spend, ForceRelease
<1> QED  BY <1>1, <1>2, <1>3, <1>4, <1>5, <1>6

\* A restart leaves no machine, no lock and no running row.
LEMMA RestartStep ==
    ASSUME JobQueueInv, Restart
    PROVE  JobQueueInv' /\ Kept
<1> USE JobAssumption
    DEF JobQueueInv, bootVars, rowVars, actorVars, lockVars, gitVars
<1>1. JobQueueTypeOK'
  <2>1. row' \in [Job -> Statuses \cup {"absent"}]
    BY DEF JobQueueTypeOK, Restart, Statuses
  <2>2. actor' \in [Job -> ActorStates]
    BY DEF JobQueueTypeOK, Restart, ActorStates
  <2>3. /\ pub' \in [Job -> {"idle", "checking", "locked", "landed"}]
        /\ req' \in [Request -> Job \cup {None}]
        /\ busy' \subseteq Job /\ sweeping' \subseteq Job
    BY DEF JobQueueTypeOK, Restart, LeftBusy
  <2>4. spent' \in [{"stale", "force", "crash", "fault"} -> Nat]
    BY DEF JobQueueTypeOK, Restart, Spend
  <2> QED  BY <2>1, <2>2, <2>3, <2>4 DEF JobQueueTypeOK, Restart, gitVars
<1>2. Machines'
  BY DEF Machines, JobQueueTypeOK, Spend, Live, LeftBusy, Statuses,
     ActorStates, Restart
<1>3. Locked'
  BY DEF Locked, Machines, JobQueueTypeOK, Spend, Live, LeftBusy, Statuses,
     ActorStates, Restart
<1>4. Landings'
  BY DEF Landings, JobQueueTypeOK, Spend, Live, LeftBusy, Statuses,
     ActorStates, Restart
<1>5. Kept
  BY DEF Kept, Closings, JobQueueTypeOK, Spend, Live, LeftBusy, Statuses,
     ActorStates, Restart
<1>6. Closings'
  BY <1>5 DEF Closings, Kept, JobQueueTypeOK, Deletions, Spend, Live,
     LeftBusy, Statuses, ActorStates, Restart
<1> QED  BY <1>1, <1>2, <1>3, <1>4, <1>5, <1>6

\* The startup sweep touches refs only.
LEMMA CollectStep ==
    ASSUME JobQueueInv, NEW c \in Job, Collect(c)
    PROVE  JobQueueInv' /\ Kept
<1> USE JobAssumption
    DEF JobQueueInv, bootVars, rowVars, actorVars, lockVars, gitVars
<1>1. JobQueueTypeOK'
  BY DEF JobQueueTypeOK, Statuses, ActorStates, Collect
<1>2. Machines'
  BY DEF Machines, JobQueueTypeOK, Collect
<1>3. Locked'
  BY DEF Locked, Machines, JobQueueTypeOK, Collect
<1>4. Landings'
  BY DEF Landings, JobQueueTypeOK, Collect
<1>5. Kept
  BY DEF Kept, Closings, JobQueueTypeOK, Collect
<1>6. Closings'
  BY <1>5 DEF Closings, Kept, JobQueueTypeOK, Deletions, Collect
<1> QED  BY <1>1, <1>2, <1>3, <1>4, <1>5, <1>6

\* What closing out a stale job leaves: its machine ends on the spot and the
\* lock goes, or it is aborting and keeps the lock.
LEMMA StaleClosed ==
    ASSUME JobQueueInv, NEW stale \in Recoverable, Recover(stale)
    PROVE  /\ stale \subseteq {registry} /\ stale \subseteq Job
           /\ \A j \in stale : row[j] = "running"
                               /\ actor[j] \notin {"none", "finished"}
           /\ StaleRow(stale) \in [Job -> Statuses \cup {"absent"}]
           /\ StaleActor(stale) \in [Job -> ActorStates]
           /\ StaleLock(stale) \in Job \cup {None, Lane}
           /\ busy' \subseteq Job
           /\ LeftDeleting(stale) \subseteq Deletions
           /\ spent' \in [{"stale", "force", "crash", "fault"} -> Nat]
           /\ spent'["force"] = spent["force"]
<1> USE DEF JobQueueInv
<1>1. stale \subseteq {registry} /\ stale \subseteq Job
      /\ \A j \in stale : row[j] = "running"
    BY JobAssumption DEF Recoverable, Idle, JobQueueTypeOK
<1>2. \A j \in stale : actor[j] \notin {"none", "finished"}
    BY <1>1 DEF Machines
<1>3. /\ StaleRow(stale) \in [Job -> Statuses \cup {"absent"}]
      /\ StaleActor(stale) \in [Job -> ActorStates]
      /\ StaleLock(stale) \in Job \cup {None, Lane}
    BY DEF StaleRow, StaleActor, StaleLock, JobQueueTypeOK, Statuses, ActorStates
<1>4. busy' \subseteq Job /\ LeftDeleting(stale) \subseteq Deletions
    BY <1>1 DEF Recover, LeftBusy, LeftDeleting, Deletions, JobQueueTypeOK
<1>5. Cardinality(stale) \in Nat
  <2>1. IsFiniteSet(stale)
    BY <1>1, FS_Singleton, FS_Subset
  <2> QED  BY <2>1, FS_CardinalityType
<1>6. /\ spent' \in [{"stale", "force", "crash", "fault"} -> Nat]
      /\ spent'["force"] = spent["force"]
    BY <1>5 DEF Recover, JobQueueTypeOK
<1> QED  BY <1>1, <1>2, <1>3, <1>4, <1>6

\* The rows and the machines after it, before anything is replaced.
LEMMA StaleKeepsLock ==
    ASSUME JobQueueInv, NEW stale \in Recoverable, Recover(stale),
           spent["force"] = 0
    PROVE  /\ \A j \in Job : StaleActor(stale)[j] \notin {"none", "finished"}
                                => StaleLock(stale) = j
           /\ lane => StaleLock(stale) = Lane
<1> USE JobAssumption DEF JobQueueInv
<1>1. /\ stale \subseteq {registry} /\ stale \subseteq Job
      /\ \A j \in stale : actor[j] \notin {"none", "finished"}
    BY StaleClosed
<1>2. /\ \A j \in Job : actor[j] \notin {"none", "finished"} => lock = j
      /\ lane => lock = Lane
    BY DEF Locked
<1>3. CASE stale = {}
    BY <1>2, <1>3 DEF StaleActor, StaleLock, JobQueueTypeOK
<1>4. CASE stale # {}
  <2>1. stale = {registry} /\ registry \in Job /\ lock = registry /\ ~lane
    BY <1>1, <1>2, <1>4
  <2> QED  BY <1>2, <2>1 DEF StaleActor, StaleLock
<1> QED  BY <1>3, <1>4

\* A refused dispatch closes at most a stale job; the lock is as it was.
LEMMA RefusedStep ==
    ASSUME JobQueueInv, Refused, req' \in [Request -> Job \cup {None}]
    PROVE  JobQueueInv' /\ Kept
<1> USE JobAssumption DEF JobQueueInv
<1> PICK stale \in Recoverable :
        /\ Recover(stale)
        /\ registry' = IF stale = {} THEN registry ELSE None
        /\ row' = StaleRow(stale)
        /\ actor' = StaleActor(stale)
        /\ pend' = pend \cup LeftDeleting(stale)
        /\ UNCHANGED <<bootVars, latest, kind, refOf, overtaken, stop,
                       attempt, pub, lockVars, gitVars>>
        /\ StaleLock(stale) # None
  BY DEF Refused
<1>0. StaleLock(stale) = lock
  BY DEF StaleLock
<1>1. JobQueueTypeOK'
  BY StaleClosed DEF JobQueueTypeOK, bootVars, lockVars, gitVars
<1>2. Machines'
  BY StaleClosed DEF Machines, StaleRow, StaleActor, JobQueueTypeOK, EndsAtOnce
<1>3. Locked'
  BY StaleClosed, StaleKeepsLock, <1>0 DEF Locked, lockVars
<1>4. Landings'
  BY DEF Landings, StaleRow, gitVars
<1>5. Kept
  BY StaleClosed DEF Kept, StaleRow
<1>6. Closings'
  <2>1. \A d \in LeftDeleting(stale) : d.job = None
    BY DEF LeftDeleting
  <2> QED  BY <1>5, <2>1 DEF Closings, Kept, JobQueueTypeOK, Deletions
<1> QED  BY <1>1, <1>2, <1>3, <1>4, <1>5, <1>6

\* A dispatch replaces the slot only when the lock is free: no other machine
\* is live then, and what it withdraws was on offer.
LEMMA DispatchStep ==
    ASSUME JobQueueInv, NEW j \in Job, NEW k, NEW c \in Job, Dispatch(j, k, c),
           req' \in [Request -> Job \cup {None}],
           overtaken' \subseteq Job
    PROVE  JobQueueInv' /\ Kept
<1> USE JobAssumption DEF JobQueueInv
<1> PICK stale \in Recoverable :
        /\ row[j] = "absent" /\ k \in Kinds
        /\ StaleLock(stale) = None
        /\ Recover(stale)
        /\ pend' = pend \cup LeftDeleting(stale)
                \cup {[candidate |-> refOf[x], job |-> None] : x \in Superseded(c)}
                \cup {[candidate |-> refOf[x], job |-> x] : x \in Remembered(c)}
        /\ row' = [x \in Job |-> IF x = j THEN "running"
                                 ELSE IF x \in Superseded(c) THEN "discarded"
                                 ELSE StaleRow(stale)[x]]
        /\ registry' = j /\ latest' = j /\ lock' = j
        /\ kind' = [kind EXCEPT ![j] = k]
        /\ refOf' = [refOf EXCEPT ![j] = c]
        /\ actor' = [StaleActor(stale) EXCEPT ![j] = FirstState(k)]
        /\ attempt' = [attempt EXCEPT ![j] = 1]
        /\ pub' = [pub EXCEPT ![j] = IF k = "land" THEN "checking" ELSE @]
        /\ UNCHANGED <<bootVars, stop, lane, project, gitVars>>
  BY DEF Dispatch
<1>0. /\ Superseded(c) \subseteq Job /\ Remembered(c) \subseteq Job
      /\ \A x \in Superseded(c) \cup Remembered(c) : row[x] = "ready-to-land"
  BY DEF Superseded, Remembered
<1>a. stale \subseteq Job /\ j \notin stale
  BY StaleClosed
<1>b. FirstState(k) \in {"working", "publishing", "discarding"}
      /\ (FirstState(k) = "working" => k \notin {"land", "discard"})
  BY DEF FirstState
<1>1. JobQueueTypeOK'
  <2>1. row' \in [Job -> Statuses \cup {"absent"}]
    BY StaleClosed DEF Statuses
  <2>2. pend' \subseteq Deletions
    BY <1>0, StaleClosed DEF Deletions, JobQueueTypeOK
  <2>3. actor' \in [Job -> ActorStates]
    BY <1>b, StaleClosed DEF ActorStates
  <2>4. attempt' \in [Job -> 0 .. MaxCas]
    BY DEF JobQueueTypeOK
  <2>5. pub' \in [Job -> {"idle", "checking", "locked", "landed"}]
        /\ kind' \in [Job -> Kinds \cup {"none"}] /\ refOf' \in [Job -> Job]
    BY DEF JobQueueTypeOK
  <2> QED  BY <1>0, <2>1, <2>2, <2>3, <2>4, <2>5, StaleClosed
           DEF JobQueueTypeOK, bootVars, gitVars
<1>2. Machines'
  <2> SUFFICES ASSUME NEW x \in Job
               PROVE  /\ row'[x] = "running" => actor'[x] \notin {"none", "finished"}
                      /\ row'[x] = "absent" => actor'[x] = "none" /\ pub'[x] = "idle"
                      /\ actor'[x] = "working" => kind'[x] \notin {"land", "discard"}
    BY DEF Machines
  <2>1. CASE x = j
    BY <1>b, <2>1, StaleClosed DEF JobQueueTypeOK
  <2>2. CASE x # j
    BY <1>a, <2>2, StaleClosed DEF Machines, StaleRow, StaleActor, JobQueueTypeOK
  <2> QED  BY <2>1, <2>2
<1>3. Locked'
  BY StaleClosed, StaleKeepsLock DEF Locked, JobQueueTypeOK
<1>4. Landings'
  <2> SUFFICES ASSUME NEW x \in Job
               PROVE  /\ pub'[x] = "landed" => refOf'[x] \in landed
                      /\ kind'[x] \in {"merge", "land"} /\ row'[x] = "completed"
                            => refOf'[x] \in landed
    BY DEF Landings, gitVars
  <2>1. CASE x = j
    BY <2>1 DEF JobQueueTypeOK, Machines
  <2>2. CASE x # j
    BY <2>2 DEF Landings, StaleRow, JobQueueTypeOK
  <2> QED  BY <2>1, <2>2
<1>5. Kept
  BY <1>0, StaleClosed DEF Kept, StaleRow
<1>6. Closings'
  <2>1. \A d \in LeftDeleting(stale) : d.job = None
    BY DEF LeftDeleting
  <2>2. \A x \in Remembered(c) : row'[x] \in {"ready-to-land", "discarded"}
    BY <1>0, <1>5 DEF Kept
  <2> SUFFICES ASSUME NEW d \in pend', d.job # None
               PROVE  row'[d.job] \in {"ready-to-land", "discarded"}
    BY DEF Closings
  <2>3. CASE d \in pend
    <3>1. d.job \in Job /\ row[d.job] \in {"ready-to-land", "discarded"}
      BY <2>3 DEF Closings, JobQueueTypeOK, Deletions
    <3> QED  BY <3>1, <1>5 DEF Kept
  <2>4. CASE \E x \in Remembered(c) : d = [candidate |-> refOf[x], job |-> x]
    BY <2>2, <2>4
  <2>5. CASE \E x \in Superseded(c) : d = [candidate |-> refOf[x], job |-> None]
    BY <2>5
  <2> QED  BY <2>1, <2>3, <2>4, <2>5
<1> QED  BY <1>1, <1>2, <1>3, <1>4, <1>5, <1>6

\* Steps that leave rows, machines, locks and the target's contents alone.
LEMMA SameRows ==
    ASSUME JobQueueInv,
           up' \in BOOLEAN, sweeping' \subseteq Job, refs' \subseteq Job,
           fresh' \subseteq Job, req' \in [Request -> Job \cup {None}],
           spent' \in [{"stale", "force", "crash", "fault"} -> Nat],
           spent'["force"] = spent["force"],
           UNCHANGED <<registry, rowVars, actorVars, pub, lockVars, landed, pend>>
    PROVE  JobQueueInv' /\ Kept
<1> USE DEF JobQueueInv, rowVars, actorVars, lockVars
<1>1. JobQueueTypeOK'
  BY DEF JobQueueTypeOK
<1>2. Machines' /\ Locked'
  BY DEF Machines, Locked
<1>3. Landings' /\ Closings' /\ Kept
  BY DEF Landings, Closings, Kept
<1> QED  BY <1>1, <1>2, <1>3

\* The routes, the target's own movement, and the end of startup.
LEMMA RouteStep ==
    ASSUME JobQueueInv, Requests \/ TargetMoves \/ Started
                        \/ \E c \in Job : RefVanishes(c)
    PROVE  JobQueueInv' /\ Kept
<1> USE DEF JobQueueInv
<1>1. CASE DispatchRefused
  BY <1>1, RefusedStep DEF DispatchRefused, JobQueueTypeOK
<1>2. ASSUME NEW j \in Job, Start(j) PROVE JobQueueInv' /\ Kept
  BY <1>2, DispatchStep DEF Start, JobQueueTypeOK
<1>3. ASSUME NEW j \in Job, Discard(j) PROVE JobQueueInv' /\ Kept
  <2>1. PICK x \in OnOffer : Dispatch(j, "discard", refOf[x])
    BY <1>3 DEF Discard
  <2>2. refOf[x] \in Job
    BY JobAssumption DEF OnOffer, Current, JobQueueTypeOK
  <2> QED  BY <1>3, <2>1, <2>2, DispatchStep DEF Discard, JobQueueTypeOK
<1>4. ASSUME NEW j \in Job, Abort(j) PROVE JobQueueInv' /\ Kept
  BY <1>4, AbortStep
<1>5. ASSUME NEW q \in Request, LandChecked(q) PROVE JobQueueInv' /\ Kept
  <2>1. req' \in [Request -> Job \cup {None}]
    BY <1>5 DEF LandChecked, OnOffer, Current, JobQueueTypeOK
  <2> QED  BY <1>5, <2>1, SameRows
           DEF LandChecked, bootVars, gitVars, JobQueueTypeOK
<1>6. ASSUME NEW q \in Request, LandRefused(q) PROVE JobQueueInv' /\ Kept
  <2>1. req' \in [Request -> Job \cup {None}]
    BY <1>6 DEF LandRefused, JobQueueTypeOK
  <2>2. CASE Refused
    BY <2>1, <2>2, RefusedStep
  <2>3. CASE ~Refused
    <3>1. UNCHANGED <<bootVars, registry, rowVars, actorVars, pub, lockVars,
                      gitVars, pend, spent>>
      BY <1>6, <2>3 DEF LandRefused
    <3> QED  BY <2>1, <3>1, SameRows DEF bootVars, gitVars, JobQueueTypeOK
  <2> QED  BY <2>2, <2>3
<1>7. ASSUME NEW q \in Request, NEW j \in Job, Land(q, j)
      PROVE  JobQueueInv' /\ Kept
  <2>1. refOf[req[q]] \in Job /\ req' \in [Request -> Job \cup {None}]
        /\ overtaken' \subseteq Job
    BY <1>7 DEF Land, JobQueueTypeOK
  <2> QED  BY <1>7, <2>1, DispatchStep DEF Land
<1>8. CASE TargetMoves
  BY <1>8, SameRows DEF TargetMoves, bootVars, JobQueueTypeOK
<1>9. CASE Started
  BY <1>9, SameRows DEF Started, gitVars, JobQueueTypeOK
<1>10. ASSUME NEW c \in Job, RefVanishes(c) PROVE JobQueueInv' /\ Kept
  BY <1>10, SameRows DEF RefVanishes, Spend, bootVars, JobQueueTypeOK
<1> QED  BY <1>1, <1>2, <1>3, <1>4, <1>5, <1>6, <1>7, <1>8, <1>9,
            <1>10 DEF Requests

\* Every step keeps the invariant and every verdict.
LEMMA NextStep ==
    ASSUME JobQueueInv, JobQueueNext
    PROVE  JobQueueInv' /\ Kept
<1>1. CASE Requests \/ TargetMoves \/ Started \/ \E c \in Job : RefVanishes(c)
  BY <1>1, RouteStep
<1>2. CASE LaneBegins \/ LaneEnds \/ ForceRelease \/ Restart
  BY <1>2, LaneBeginsStep, LaneEndsStep, ForceReleaseStep, RestartStep
<1>3. ASSUME NEW j \in Job, BusyEnds(j) \/ Collect(j)
      PROVE  JobQueueInv' /\ Kept
  BY <1>3, BusyEndsStep, CollectStep
<1>4. ASSUME NEW d \in pend, DeletionEnds(d) PROVE JobQueueInv' /\ Kept
  BY <1>4, DeletionEndsStep
<1>5. ASSUME NEW j \in Job, Machine(j) PROVE JobQueueInv' /\ Kept
  BY <1>5, PreparedStep, WorkEndsStep, AbortEndsStep, DiscardEndsStep,
     PublishParksStep, PublishLocksStep, PublishFailsStep, PublishLandsStep,
     PublishLosesRaceStep, PublishCompletesStep, PublishThrowsStep
     DEF Machine, Publishing
<1> QED  BY <1>1, <1>2, <1>3, <1>4, <1>5 DEF JobQueueNext, Surroundings, Startup

\* The inductive invariant holds in every reachable state.
THEOREM JobQueueInvariant == JobQueueSpec => []JobQueueInv
<1>1. JobQueueInit => JobQueueInv
  <2> SUFFICES ASSUME JobQueueInit PROVE JobQueueInv
    OBVIOUS
  <2>1. JobQueueTypeOK
    <3>1. attempt \in [Job -> 0 .. MaxCas]
      BY JobAssumption DEF JobQueueInit
    <3>2. spent \in [{"stale", "force", "crash", "fault"} -> Nat]
      BY DEF JobQueueInit
    <3>3. /\ row \in [Job -> Statuses \cup {"absent"}]
          /\ kind \in [Job -> Kinds \cup {"none"}]
          /\ actor \in [Job -> ActorStates]
      BY DEF JobQueueInit, ActorStates
    <3>4. /\ refOf \in [Job -> Job]
          /\ pub \in [Job -> {"idle", "checking", "locked", "landed"}]
          /\ req \in [Request -> Job \cup {None}]
      BY DEF JobQueueInit
    <3> QED  BY <3>1, <3>2, <3>3, <3>4 DEF JobQueueInit, JobQueueTypeOK
  <2>2. Machines /\ Locked /\ Landings /\ Closings
    BY DEF JobQueueInit, Machines, Locked, Landings, Closings
  <2> QED  BY <2>1, <2>2 DEF JobQueueInv
<1>2. JobQueueInv /\ [JobQueueNext]_vars => JobQueueInv'
  <2>1. CASE JobQueueNext
    BY <2>1, NextStep
  <2>2. CASE UNCHANGED vars
    BY <2>2 DEF vars, bootVars, rowVars, actorVars, lockVars, gitVars, JobQueueInv,
       JobQueueTypeOK, Machines, Locked, Landings, Closings
  <2> QED  BY <2>1, <2>2
<1> QED  BY <1>1, <1>2, PTL DEF JobQueueSpec

\* Every reachable state is well typed.
THEOREM JobQueueTypeCorrect == JobQueueSpec => []JobQueueTypeOK
<1>1. JobQueueInv => JobQueueTypeOK
  BY DEF JobQueueInv
<1> QED  BY <1>1, JobQueueInvariant, PTL

\* Until the operator forces the lock, each machine that has not ended holds
\* it; so at most one is live.
THEOREM LockCoversMachine == JobQueueSpec => []LiveMachineHoldsLock
<1>1. JobQueueInv => LiveMachineHoldsLock
  BY DEF JobQueueInv, Locked, LiveMachineHoldsLock, Live
<1> QED  BY <1>1, JobQueueInvariant, PTL

\* A merge or land reported completed is on the target branch.
THEOREM CompletedIsLanded == JobQueueSpec => []CompletedHasLanded
<1>1. JobQueueInv => CompletedHasLanded
  BY DEF JobQueueInv, Landings, CompletedHasLanded
<1> QED  BY <1>1, JobQueueInvariant, PTL

\* No step changes a verdict the operator was shown.
THEOREM VerdictsAreFinal == JobQueueSpec => VerdictIsFinal
<1> DEFINE Final ==
      \A j \in Job :
          /\ row[j] \in {"completed", "failed", "conflicts", "discarded"}
                => row'[j] = row[j]
          /\ row[j] = "ready-to-land" => row'[j] \in {row[j], "discarded"}
<1>1. JobQueueInv /\ [JobQueueNext]_vars => [Final]_vars
  BY NextStep DEF Kept
<1> QED  BY <1>1, JobQueueInvariant, PTL DEF JobQueueSpec, VerdictIsFinal
-----------------------------------------------------------------------------
(* Jobs let go: whoever holds the lock is at work, and no work is endless. *)

\* Whoever the lock names is at work.
Taken == /\ lock = Lane => lane
         /\ lock \in Job => actor[lock] \notin {"none", "finished"}

\* A publish goes with a machine that waits for it or has gone; a machine that
\* publishes has begun an attempt.
Publishes ==
    \A j \in Job : /\ actor[j] = "publishing" => pub[j] # "idle"
                   /\ pub[j] # "idle" => actor[j] \in {"publishing", "finished"}
                   /\ actor[j] \in {"working", "publishing"} => attempt[j] # 0

FreedInv == JobQueueInv /\ Taken /\ Publishes

\* The steps a publish has still to take, and those of its machine: each
\* further attempt prepares, takes the project lock, moves the target and settles.
PublishLeft(p) == CASE p = "checking" -> 3
                    [] p = "locked"   -> 2
                    [] p = "landed"   -> 1
                    [] OTHER          -> 0

WorkLeft(a, n) == CASE a = "working"    -> 4 * (MaxCas - n) + 4
                    [] a = "publishing" -> 4 * (MaxCas - n)
                    [] a = "discarding" -> 2
                    [] a = "aborting"   -> 1
                    [] OTHER            -> 0

MovesLeft(j) == WorkLeft(actor[j], attempt[j]) + PublishLeft(pub[j])

\* A job's own step brings it nearer its end; nothing but its dispatch, not an
\* abort, a recovery, another job or a crash, takes it further away.
JobsShrink ==
    [][\A j \in Job : /\ Machine(j) => MovesLeft(j)' < MovesLeft(j)
                      /\ row[j] # "absent" => MovesLeft(j)' <= MovesLeft(j)]_vars

\* What the counts are.
LEMMA MovesAre ==
    /\ PublishLeft("checking") = 3 /\ PublishLeft("locked") = 2
    /\ PublishLeft("landed") = 1 /\ PublishLeft("idle") = 0
    /\ \A n \in 0 .. MaxCas :
          /\ WorkLeft("working", n) = 4 * (MaxCas - n) + 4
          /\ WorkLeft("publishing", n) = 4 * (MaxCas - n)
          /\ WorkLeft("discarding", n) = 2 /\ WorkLeft("aborting", n) = 1
          /\ WorkLeft("finished", n) = 0 /\ WorkLeft("none", n) = 0
    /\ \A n \in 0 .. MaxCas, a \in ActorStates : WorkLeft(a, n) \in Nat
    /\ \A p \in {"idle", "checking", "locked", "landed"} : PublishLeft(p) \in 0 .. 3
<1>1. \A n \in 0 .. MaxCas :
         /\ WorkLeft("working", n) = 4 * (MaxCas - n) + 4
         /\ WorkLeft("publishing", n) = 4 * (MaxCas - n)
         /\ WorkLeft("discarding", n) = 2 /\ WorkLeft("aborting", n) = 1
         /\ WorkLeft("finished", n) = 0 /\ WorkLeft("none", n) = 0
  BY DEF WorkLeft
<1>2. /\ PublishLeft("checking") = 3 /\ PublishLeft("locked") = 2
      /\ PublishLeft("landed") = 1 /\ PublishLeft("idle") = 0
  BY DEF PublishLeft
<1>3. \A n \in 0 .. MaxCas : 4 * (MaxCas - n) \in Nat
  BY JobAssumption
<1>4. \A n \in 0 .. MaxCas, a \in ActorStates : WorkLeft(a, n) \in Nat
  BY <1>1, <1>3 DEF ActorStates
<1> QED  BY <1>1, <1>2, <1>4

\* A job whose machine stands still, or is stopped short, has no more to do
\* than before.
LEMMA StoppedShort ==
    ASSUME FreedInv, JobQueueTypeOK', NEW x \in Job,
           attempt'[x] = attempt[x],
           \/ actor'[x] = actor[x]
           \/ actor'[x] = "finished"
           \/ actor'[x] = "aborting" /\ actor[x] \in {"working", "discarding"},
           pub'[x] \in {pub[x], "idle"}
    PROVE  MovesLeft(x)' <= MovesLeft(x)
<1> USE DEF FreedInv, JobQueueInv, JobQueueTypeOK
<1>1. attempt[x] \in 0 .. MaxCas /\ actor[x] \in ActorStates
      /\ pub[x] \in {"idle", "checking", "locked", "landed"}
  OBVIOUS
<1>2. WorkLeft(actor'[x], attempt[x]) <= WorkLeft(actor[x], attempt[x])
      /\ WorkLeft(actor'[x], attempt[x]) \in Nat /\ WorkLeft(actor[x], attempt[x]) \in Nat
  <2>1. CASE actor'[x] = actor[x]
    BY <1>1, <2>1, MovesAre
  <2>2. CASE actor'[x] = "finished"
    BY <1>1, <2>2, MovesAre
  <2>3. CASE actor'[x] = "aborting" /\ actor[x] \in {"working", "discarding"}
    BY <1>1, <2>3, MovesAre, JobAssumption
  <2> QED  BY <2>1, <2>2, <2>3
<1>3. PublishLeft(pub'[x]) <= PublishLeft(pub[x])
      /\ PublishLeft(pub'[x]) \in Nat /\ PublishLeft(pub[x]) \in Nat
  BY <1>1, MovesAre
<1>4. MovesLeft(x)' = WorkLeft(actor'[x], attempt[x]) + PublishLeft(pub'[x])
      /\ MovesLeft(x) = WorkLeft(actor[x], attempt[x]) + PublishLeft(pub[x])
  BY DEF MovesLeft
<1> QED  BY <1>2, <1>3, <1>4

\* What a step of job j's own leaves: the counts of a step that moves it alone.
Alone(j) == \A x \in Job \ {j} : /\ actor'[x] = actor[x] /\ pub'[x] = pub[x]
                                 /\ attempt'[x] = attempt[x]

LEMMA AloneShrinks ==
    ASSUME FreedInv, JobQueueTypeOK', NEW j \in Job, Alone(j),
           UNCHANGED lane, lock' \in {None, lock},
           \/ actor'[j] \notin {"none", "finished"}
           \/ lock' = None \/ actor'[j] = actor[j],
           actor'[j] = "publishing" => pub'[j] # "idle",
           pub'[j] # "idle" => actor'[j] \in {"publishing", "finished"},
           actor'[j] \in {"working", "publishing"} => attempt'[j] # 0,
           MovesLeft(j)' < MovesLeft(j)
    PROVE  /\ Taken' /\ Publishes' /\ MovesLeft(j)' < MovesLeft(j)
           /\ \A x \in Job \ {j} : MovesLeft(x)' <= MovesLeft(x)
<1>1. Taken'
  BY JobAssumption DEF FreedInv, Taken, Alone
<1>2. Publishes'
  BY DEF FreedInv, Publishes, Alone
<1>3. \A x \in Job \ {j} : MovesLeft(x)' <= MovesLeft(x)
  BY StoppedShort DEF Alone
<1> QED  BY <1>1, <1>2, <1>3

\* A publish settles: its machine ends, cleans up, or begins the next attempt.
LEMMA SettlesShrinks ==
    ASSUME FreedInv, JobQueueTypeOK', NEW j \in Job, NEW outcome, Settles(j, outcome),
           pub[j] # "idle", outcome = "cas-lost" => pub[j] = "locked",
           UNCHANGED lane
    PROVE  /\ Taken' /\ Publishes' /\ MovesLeft(j)' < MovesLeft(j)
           /\ \A x \in Job \ {j} : MovesLeft(x)' <= MovesLeft(x)
<1> USE DEF FreedInv, JobQueueInv
<1>1. /\ attempt[j] \in 0 .. MaxCas /\ MaxCas \in Nat /\ attempt'[j] \in 0 .. MaxCas
      /\ pub[j] \in {"checking", "locked", "landed"} /\ pub'[j] = "idle"
      /\ actor[j] \in {"publishing", "finished"}
  BY JobAssumption DEF JobQueueTypeOK, Settles, Publishes
<1>2. /\ MovesLeft(j)' = WorkLeft(actor'[j], attempt'[j]) + PublishLeft(pub'[j])
      /\ MovesLeft(j) = WorkLeft(actor[j], attempt[j]) + PublishLeft(pub[j])
  BY DEF MovesLeft
<1>3. CASE actor[j] # "publishing"
  <2>1. UNCHANGED <<actor, lock, attempt>> /\ actor[j] = "finished" /\ Alone(j)
    BY <1>1, <1>3 DEF Settles, Alone, JobQueueTypeOK
  <2>2. MovesLeft(j)' < MovesLeft(j)
    BY <1>1, <1>2, <2>1, MovesAre
  <2> QED  BY <1>1, <2>1, <2>2, AloneShrinks
<1>4. CASE actor[j] = "publishing" /\ outcome = "cas-lost" /\ j \in stop
  <2>1. /\ actor'[j] = "aborting" /\ UNCHANGED <<lock, attempt>> /\ Alone(j)
    BY <1>4 DEF Settles, Alone, JobQueueTypeOK
  <2>2. MovesLeft(j)' < MovesLeft(j)
    BY <1>1, <1>2, <1>4, <2>1, MovesAre
  <2> QED  BY <1>1, <2>1, <2>2, AloneShrinks
<1>5. CASE actor[j] = "publishing" /\ outcome = "cas-lost" /\ j \notin stop /\ RetriesLeft(j)
  <2>1. /\ actor'[j] = "working" /\ attempt'[j] = attempt[j] + 1 /\ UNCHANGED lock
        /\ attempt[j] < MaxCas /\ Alone(j)
    BY <1>5 DEF Settles, Alone, JobQueueTypeOK, RetriesLeft
  <2>2. MovesLeft(j)' < MovesLeft(j)
    BY <1>1, <1>2, <1>5, <2>1, MovesAre
  <2> QED  BY <1>1, <2>1, <2>2, AloneShrinks
<1>6. CASE /\ actor[j] = "publishing"
           /\ outcome = "cas-lost" => j \notin stop /\ ~RetriesLeft(j)
  <2>1. /\ actor'[j] = "finished" /\ lock' = None /\ UNCHANGED attempt /\ Alone(j)
    BY <1>6 DEF Settles, Ends, Alone, JobQueueTypeOK
  <2>2. MovesLeft(j)' < MovesLeft(j)
    BY <1>1, <1>2, <1>6, <2>1, MovesAre
  <2> QED  BY <1>1, <2>1, <2>2, AloneShrinks
<1> QED  BY <1>3, <1>4, <1>5, <1>6

\* Each step of a machine, or of its publish, brings the job nearer its end.
LEMMA MachineShrinks ==
    ASSUME FreedInv, JobQueueTypeOK', NEW j \in Job, Machine(j)
    PROVE  /\ Taken' /\ Publishes' /\ MovesLeft(j)' < MovesLeft(j)
           /\ \A x \in Job \ {j} : MovesLeft(x)' <= MovesLeft(x)
<1> USE DEF FreedInv, JobQueueInv
<1>1. /\ attempt[j] \in 0 .. MaxCas /\ MaxCas \in Nat
      /\ pub[j] \in {"idle", "checking", "locked", "landed"}
  BY JobAssumption DEF JobQueueTypeOK
<1>2. /\ MovesLeft(j)' = WorkLeft(actor'[j], attempt'[j]) + PublishLeft(pub'[j])
      /\ MovesLeft(j) = WorkLeft(actor[j], attempt[j]) + PublishLeft(pub[j])
  BY DEF MovesLeft
<1>3. CASE Prepared(j)
  <2>1. /\ actor[j] = "working" /\ actor'[j] = "publishing" /\ pub'[j] = "checking"
        /\ pub[j] = "idle" /\ UNCHANGED <<attempt, lock, lane>> /\ Alone(j) /\ attempt[j] # 0
    BY <1>3 DEF Prepared, Alone, JobQueueTypeOK, Publishes, lockVars
  <2>2. MovesLeft(j)' < MovesLeft(j)
    BY <1>1, <1>2, <2>1, MovesAre
  <2> QED  BY <2>1, <2>2, AloneShrinks
<1>4. CASE WorkEnds(j) \/ AbortEnds(j) \/ DiscardEnds(j)
  <2>1. /\ actor[j] \in {"working", "aborting", "discarding"} /\ actor'[j] = "finished"
        /\ pub[j] = "idle" /\ UNCHANGED <<attempt, pub, lane>> /\ lock' = None /\ Alone(j)
    BY <1>4 DEF WorkEnds, AbortEnds, DiscardEnds, Ends, Alone, JobQueueTypeOK, Publishes
  <2>2. MovesLeft(j)' < MovesLeft(j)
    BY <1>1, <1>2, <2>1, MovesAre
  <2> QED  BY <2>1, <2>2, AloneShrinks
<1>5. CASE PublishLocks(j) \/ PublishLands(j)
  <2>1. /\ <<pub[j], pub'[j]>> \in {<<"checking", "locked">>, <<"locked", "landed">>}
        /\ UNCHANGED <<actor, attempt, lane, lock>> /\ Alone(j)
    BY <1>5 DEF PublishLocks, PublishLands, Alone, JobQueueTypeOK, actorVars, lockVars
  <2>2. WorkLeft(actor[j], attempt[j]) \in Nat
    BY <1>1, MovesAre DEF JobQueueTypeOK
  <2>3. MovesLeft(j)' < MovesLeft(j)
    BY <1>2, <2>1, <2>2, MovesAre
  <2>4. /\ pub[j] # "idle" /\ pub'[j] # "idle" /\ actor'[j] = actor[j]
        /\ attempt'[j] = attempt[j]
    BY <2>1
  <2>5. /\ actor[j] \in {"publishing", "finished"}
        /\ actor[j] = "publishing" => attempt[j] # 0
    BY <2>4 DEF Publishes
  <2> QED  BY <2>1, <2>3, <2>4, <2>5, AloneShrinks
<1>6. CASE PublishParks(j)
  BY <1>6, SettlesShrinks DEF PublishParks
<1>7. CASE PublishFails(j)
  BY <1>7, SettlesShrinks DEF PublishFails
<1>8. CASE PublishLosesRace(j)
  BY <1>8, SettlesShrinks DEF PublishLosesRace
<1>9. CASE PublishCompletes(j) \/ PublishThrows(j)
  BY <1>9, SettlesShrinks DEF PublishCompletes, PublishThrows
<1> QED  BY <1>3, <1>4, <1>5, <1>6, <1>7, <1>8, <1>9 DEF Machine, Publishing

\* No other step gives a dispatched job more to do, and none leaves the lock
\* with a holder that has gone.
Eased == /\ Taken' /\ Publishes'
         /\ \A x \in Job : row[x] # "absent" => MovesLeft(x)' <= MovesLeft(x)

\* Closing out a stale job stops its machine short.
LEMMA StaleEases ==
    ASSUME FreedInv, JobQueueTypeOK', NEW stale \in Recoverable, Recover(stale),
           NEW x \in Job, actor'[x] = StaleActor(stale)[x],
           pub'[x] = pub[x], attempt'[x] = attempt[x]
    PROVE  /\ MovesLeft(x)' <= MovesLeft(x)
           /\ actor'[x] = "publishing" => pub'[x] # "idle"
           /\ pub'[x] # "idle" => actor'[x] \in {"publishing", "finished"}
           /\ actor'[x] \in {"working", "publishing"} => attempt'[x] # 0
           /\ (x \notin stale \/ ~EndsAtOnce(x)) /\ actor[x] \notin {"none", "finished"}
                 => actor'[x] \notin {"none", "finished"}
<1> USE DEF FreedInv, JobQueueInv
<1>1. x \in stale => actor[x] \notin {"none", "finished"}
  BY StaleClosed
<1>2. \/ actor'[x] = actor[x]
      \/ actor'[x] = "finished" /\ EndsAtOnce(x) /\ x \in stale
      \/ actor'[x] = "aborting" /\ actor[x] \in {"working", "discarding"}
  BY <1>1 DEF StaleActor, EndsAtOnce, JobQueueTypeOK, ActorStates
<1> QED  BY <1>2, StoppedShort DEF Publishes

LEMMA RefusedEases ==
    ASSUME FreedInv, JobQueueTypeOK', Refused
    PROVE  Eased
<1> USE JobAssumption DEF FreedInv, JobQueueInv
<1> PICK stale \in Recoverable :
        /\ Recover(stale) /\ StaleLock(stale) # None
        /\ actor' = StaleActor(stale)
        /\ UNCHANGED <<attempt, pub, lockVars>>
  BY DEF Refused
<1>1. \A x \in Job : /\ actor'[x] = StaleActor(stale)[x] /\ pub'[x] = pub[x]
                     /\ attempt'[x] = attempt[x]
  OBVIOUS
<1>2. Publishes' /\ \A x \in Job : MovesLeft(x)' <= MovesLeft(x)
  BY <1>1, StaleEases DEF Publishes
<1>3. \A x \in Job : x \notin stale \/ ~EndsAtOnce(x)
  BY DEF StaleLock
<1>4. Taken'
  BY <1>1, <1>3, StaleEases DEF Taken, lockVars
<1> QED  BY <1>2, <1>4 DEF Eased

LEMMA DispatchEases ==
    ASSUME FreedInv, JobQueueTypeOK', NEW j \in Job, NEW k, NEW c, Dispatch(j, k, c)
    PROVE  Eased
<1> USE JobAssumption DEF FreedInv, JobQueueInv
<1> PICK stale \in Recoverable :
        /\ row[j] = "absent"
        /\ Recover(stale)
        /\ lock' = j
        /\ actor' = [StaleActor(stale) EXCEPT ![j] = FirstState(k)]
        /\ attempt' = [attempt EXCEPT ![j] = 1]
        /\ pub' = [pub EXCEPT ![j] = IF k = "land" THEN "checking" ELSE @]
        /\ UNCHANGED lane
  BY DEF Dispatch
<1>1. \A x \in Job \ {j} : /\ actor'[x] = StaleActor(stale)[x] /\ pub'[x] = pub[x]
                           /\ attempt'[x] = attempt[x]
  BY DEF JobQueueTypeOK, StaleActor
<1>2. \A x \in Job \ {j} :
         /\ actor'[x] = "publishing" => pub'[x] # "idle"
         /\ pub'[x] # "idle" => actor'[x] \in {"publishing", "finished"}
         /\ actor'[x] \in {"working", "publishing"} => attempt'[x] # 0
         /\ MovesLeft(x)' <= MovesLeft(x)
  BY <1>1, StaleEases
<1>3. /\ actor'[j] = FirstState(k) /\ attempt'[j] = 1
      /\ pub'[j] = IF k = "land" THEN "checking" ELSE "idle"
  BY DEF JobQueueTypeOK, Machines, StaleActor
<1>4. Publishes'
  BY <1>2, <1>3 DEF Publishes, FirstState
<1>5. Taken'
  BY <1>3 DEF Taken, FirstState
<1> QED  BY <1>2, <1>4, <1>5 DEF Eased

LEMMA AbortEases ==
    ASSUME FreedInv, JobQueueTypeOK', NEW j \in Job, Abort(j)
    PROVE  Eased
<1> USE JobAssumption DEF FreedInv, JobQueueInv
<1>1. /\ UNCHANGED <<pub, attempt, lane>>
      /\ \A x \in Job \ {j} : actor'[x] = actor[x]
      /\ \/ actor'[j] = actor[j] /\ UNCHANGED lock
         \/ actor'[j] = "finished" /\ actor[j] = "working" /\ lock' = None
         \/ actor'[j] = "aborting" /\ actor[j] \in {"working", "discarding"} /\ UNCHANGED lock
  BY DEF Abort, Ends, JobQueueTypeOK
<1>2. \A x \in Job : MovesLeft(x)' <= MovesLeft(x)
  BY <1>1, StoppedShort
<1>3. Taken' /\ Publishes'
  BY <1>1 DEF Taken, Publishes
<1> QED  BY <1>2, <1>3 DEF Eased

LEMMA RestartEases ==
    ASSUME FreedInv, JobQueueTypeOK', Restart
    PROVE  Eased
<1> USE JobAssumption DEF FreedInv, JobQueueInv
<1>1. /\ \A x \in Job : /\ actor'[x] \in {actor[x], "finished"} /\ attempt'[x] = attempt[x]
                        /\ pub'[x] = "idle" /\ actor'[x] \in {"none", "finished"}
      /\ lock' = None
  BY DEF Restart, Live
<1>2. \A x \in Job : MovesLeft(x)' <= MovesLeft(x)
  BY <1>1, StoppedShort
<1>3. Taken' /\ Publishes'
  BY <1>1 DEF Taken, Publishes
<1> QED  BY <1>2, <1>3 DEF Eased

LEMMA RestEases ==
    ASSUME FreedInv, JobQueueTypeOK', UNCHANGED <<actor, pub, attempt>>,
           \/ UNCHANGED <<lock, lane>>
           \/ lock' = None
           \/ lock' = Lane /\ lane'
    PROVE  Eased
<1>1. \A x \in Job : MovesLeft(x)' = MovesLeft(x)
  BY DEF MovesLeft
<1>2. \A x \in Job : MovesLeft(x)' <= MovesLeft(x)
  BY StoppedShort
<1>3. Taken' /\ Publishes'
  BY JobAssumption DEF FreedInv, Taken, Publishes
<1> QED  BY <1>2, <1>3 DEF Eased

LEMMA NextEases ==
    ASSUME FreedInv, JobQueueTypeOK', [JobQueueNext]_vars
    PROVE  Eased /\ \A j \in Job : Machine(j) => MovesLeft(j)' < MovesLeft(j)
<1>1. ASSUME NEW j \in Job, Machine(j) PROVE Eased /\ MovesLeft(j)' < MovesLeft(j)
  <2>1. MovesLeft(j)' <= MovesLeft(j)
    <3>1. MovesLeft(j) \in Int /\ MovesLeft(j)' \in Int
      <4>1. /\ attempt[j] \in 0 .. MaxCas /\ attempt'[j] \in 0 .. MaxCas
            /\ actor[j] \in ActorStates /\ actor'[j] \in ActorStates
            /\ pub[j] \in {"idle", "checking", "locked", "landed"}
            /\ pub'[j] \in {"idle", "checking", "locked", "landed"}
        BY DEF FreedInv, JobQueueInv, JobQueueTypeOK
      <4>2. /\ MovesLeft(j)' = WorkLeft(actor'[j], attempt'[j]) + PublishLeft(pub'[j])
            /\ MovesLeft(j) = WorkLeft(actor[j], attempt[j]) + PublishLeft(pub[j])
        BY DEF MovesLeft
      <4> QED  BY <4>1, <4>2, MovesAre
    <3> QED  BY <1>1, <3>1, MachineShrinks
  <2> QED  BY <1>1, <2>1, MachineShrinks DEF Eased
<1>2. ASSUME Requests PROVE Eased
  <2>1. ASSUME DispatchRefused PROVE Eased
    BY <2>1, RefusedEases DEF DispatchRefused
  <2>2. ASSUME NEW j \in Job, Start(j) \/ Discard(j) PROVE Eased
    BY <2>2, DispatchEases DEF Start, Discard
  <2>3. ASSUME NEW j \in Job, Abort(j) PROVE Eased
    BY <2>3, AbortEases
  <2>4. ASSUME NEW q \in Request, NEW j \in Job, Land(q, j) PROVE Eased
    BY <2>4, DispatchEases DEF Land
  <2>5. ASSUME NEW q \in Request, LandChecked(q) \/ LandRefused(q) PROVE Eased
    BY <2>5, RefusedEases, RestEases DEF LandChecked, LandRefused, actorVars, lockVars
  <2> QED  BY <1>2, <2>1, <2>2, <2>3, <2>4, <2>5 DEF Requests
<1>3. ASSUME Surroundings PROVE Eased
  BY <1>3, RestEases DEF Surroundings, TargetMoves, LaneBegins, LaneEnds, ForceRelease,
     BusyEnds, RefVanishes, DeletionEnds, actorVars, lockVars
<1>4. ASSUME Restart PROVE Eased
  BY <1>4, RestartEases
<1>5. ASSUME Started \/ \E c \in Job : Collect(c) PROVE Eased
  BY <1>5, RestEases DEF Started, Collect, actorVars, lockVars
<1>6. ASSUME UNCHANGED vars PROVE Eased
  BY <1>6, RestEases DEF vars, actorVars, lockVars
<1> QED  BY <1>1, <1>2, <1>3, <1>4, <1>5, <1>6 DEF JobQueueNext, Startup

LEMMA FreedInvariant == JobQueueSpec => []FreedInv
<1>1. JobQueueInit => Taken /\ Publishes
  BY JobAssumption DEF JobQueueInit, Taken, Publishes
<1>2. FreedInv /\ JobQueueInv' /\ [JobQueueNext]_vars => FreedInv'
  BY NextEases DEF FreedInv, JobQueueInv, Eased
<1>3. JobQueueInv /\ Taken /\ Publishes => FreedInv
  BY DEF FreedInv
<1> QED  BY <1>1, <1>2, <1>3, JobQueueInvariant, PTL DEF JobQueueSpec

\* Whoever holds the session lock is at work, and a machine that waits for its
\* publish waits for one that is under way: through aborts, recoveries, crashes
\* and force-releases no lock is left to a holder that has gone.
THEOREM LocksHaveLiveHolders == JobQueueSpec => []NoLockLeftBehind
<1>1. FreedInv => NoLockLeftBehind
  BY DEF FreedInv, Taken, Publishes, NoLockLeftBehind, Live
<1> QED  BY <1>1, FreedInvariant, PTL

(***************************************************************************)
(* A job's machine and its publish take at most four steps per attempt the *)
(* code allows: each step of theirs lowers a count that starts there, and  *)
(* no abort, recovery, crash or other job raises it.  With the holder of   *)
(* the lock always at work, this is the safety half of SessionIsFreed.     *)
(***************************************************************************)
THEOREM JobsAreBounded ==
    JobQueueSpec => [](\A j \in Job : MovesLeft(j) \in 0 .. 4 * MaxCas) /\ JobsShrink
<1>1. FreedInv => \A j \in Job : MovesLeft(j) \in 0 .. 4 * MaxCas
  <2> SUFFICES ASSUME FreedInv, NEW j \in Job PROVE MovesLeft(j) \in 0 .. 4 * MaxCas
    OBVIOUS
  <2>1. /\ attempt[j] \in 0 .. MaxCas /\ MaxCas \in Nat \ {0} /\ actor[j] \in ActorStates
        /\ pub[j] \in {"idle", "checking", "locked", "landed"}
        /\ pub[j] # "idle" => actor[j] \in {"publishing", "finished"}
        /\ actor[j] \in {"working", "publishing"} => attempt[j] # 0
    BY JobAssumption DEF FreedInv, JobQueueInv, JobQueueTypeOK, Publishes
  <2>2. MovesLeft(j) = WorkLeft(actor[j], attempt[j]) + PublishLeft(pub[j])
    BY DEF MovesLeft
  <2>3. PublishLeft(pub[j]) \in 0 .. 3
    BY <2>1, MovesAre
  <2>4. CASE actor[j] = "working"
    BY <2>1, <2>2, <2>4, MovesAre
  <2>5. CASE actor[j] = "publishing"
    BY <2>1, <2>2, <2>3, <2>5, MovesAre
  <2>6. CASE actor[j] \in {"discarding", "aborting"}
    BY <2>1, <2>2, <2>6, MovesAre
  <2>7. CASE actor[j] \in {"none", "finished"}
    BY <2>1, <2>2, <2>3, <2>7, MovesAre
  <2> QED  BY <2>1, <2>4, <2>5, <2>6, <2>7 DEF ActorStates
<1>2. FreedInv /\ JobQueueInv' /\ [JobQueueNext]_vars =>
        [\A j \in Job : /\ Machine(j) => MovesLeft(j)' < MovesLeft(j)
                        /\ row[j] # "absent" => MovesLeft(j)' <= MovesLeft(j)]_vars
  BY NextEases DEF JobQueueInv, Eased
<1> QED
  BY <1>1, <1>2, FreedInvariant, JobQueueInvariant, PTL DEF JobQueueSpec, JobsShrink
==============================================================================
