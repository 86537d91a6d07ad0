--------------------------- MODULE JobOffers_proofs ---------------------------
(***************************************************************************)
(* Proofs about the candidates the job queue offers, for any number of     *)
(* jobs, requests, crashes, stale recoveries and faults: what is on offer  *)
(* can be landed, has not landed, and lands once; the queue implements     *)
(* CandidateOffers; and the two comments its runs contradict hold but for  *)
(* the windows named at the end.                                           *)
(***************************************************************************)
EXTENDS JobQueue_proofs, JobPromise

\* What a job's kind, machine and publish say of each other, and of the job
\* whose candidate it lands.
JobFacts ==
    \A j \in Job :
        /\ row[j] = "running" => registry = j
        /\ row[j] = "ready-to-land" =>
              actor[j] = "finished" /\ pub[j] = "idle" /\ kind[j] \in {"merge", "land"}
        /\ pub[j] # "idle" => actor[j] \in {"publishing", "finished"}
        /\ actor[j] = "publishing" => kind[j] \in {"merge", "land"}
        /\ actor[j] = "discarding" => row[j] = "running" /\ kind[j] = "discard"
        /\ kind[j] \notin {"land", "discard"} => refOf[j] = j
        /\ refOf[j] # j => actor[refOf[j]] = "finished" /\ refOf[refOf[j]] = refOf[j]

\* The registry holds the newest job or none; requests hold finished ones.
Slots ==
    /\ registry \in {None, latest}
    /\ ~up => registry = None
    /\ \A q \in Request : req[q] # None => actor[req[q]] = "finished"

\* Deletions under way are of dispatched jobs' refs, and close older rows.
Deleting ==
    \A d \in pend :
        /\ row[d.candidate] # "absent"
        /\ d.job # None => d.job # latest /\ refOf[d.job] = d.candidate

\* What is on the target is not prepared again, and was published.
Once ==
    /\ fresh \cap landed = {}
    /\ \A c \in landed : \/ actor[c] = "finished"
                         \/ actor[c] = "publishing" /\ pub[c] = "landed"

\* The job whose decision stands, with a candidate of its own or on offer.
Stands(s) == /\ s = Current /\ s \notin overtaken /\ kind[s] # "discard"
             /\ row[s] \in {"running", "ready-to-land"}

\* Nobody else publishes or deletes the candidate that stands.
Standing ==
    \A s \in Job : Stands(s) =>
        /\ \A x \in Job \ {s} : refOf[x] = refOf[s] => pub[x] = "idle"
        /\ \A d \in pend : d.candidate # refOf[s]
        /\ refOf[s] \in landed => pub[s] = "landed"
        /\ spent["fault"] = 0 /\ (row[s] = "ready-to-land" \/ pub[s] \in {"checking", "locked"})
              => refOf[s] \in refs
        /\ kind[s] = "land" => row[refOf[s]] = "ready-to-land"

OfferParts == JobFacts /\ Slots /\ Deleting /\ Once /\ Standing
OfferInv == JobQueueInv /\ OfferParts

\* What no step does to an offer or to the target.
OfferStep ==
    /\ \A x \in OnOffer : x \in OnOffer' \/ latest' # latest
    /\ \A x \in Job : pub[x] = "locked" /\ pub'[x] = "landed" => refOf[x] \notin landed
-----------------------------------------------------------------------------

\* A candidate is prepared: its machine was working, so it is not on the target.
LEMMA PreparedOffers ==
    ASSUME OfferInv, JobQueueInv', NEW j \in Job, Prepared(j)
    PROVE  OfferParts' /\ OfferStep
<1> USE JobAssumption
    DEF OfferInv, OfferParts, JobQueueInv, bootVars, rowVars, actorVars,
       lockVars, gitVars
<1>1. JobFacts'
  BY DEF JobFacts, Machines, JobQueueTypeOK, Statuses, ActorStates, Prepared
<1>2. Slots'
  BY DEF Slots, JobFacts, Machines, JobQueueTypeOK, Statuses, ActorStates,
     Prepared
<1>3. Deleting'
  BY DEF Deleting, JobFacts, Machines, JobQueueTypeOK, Statuses, ActorStates,
     Deletions, Prepared
<1>4. Once'
  BY DEF Once, JobFacts, Machines, JobQueueTypeOK, Statuses, ActorStates,
     Prepared
<1>5. Standing'
  BY DEF Standing, Stands, Current, Slots, JobFacts, Machines, JobQueueTypeOK,
     Statuses, ActorStates, Deletions, Prepared
<1>6. OfferStep
  BY DEF OfferStep, OnOffer, Current, Slots, Once, JobQueueTypeOK, Statuses,
     ActorStates, Prepared
<1> QED  BY <1>1, <1>2, <1>3, <1>4, <1>5, <1>6

\* A machine ends while it works: nothing of its own is offered.
LEMMA WorkEndsOffers ==
    ASSUME OfferInv, JobQueueInv', NEW j \in Job, WorkEnds(j)
    PROVE  OfferParts' /\ OfferStep
<1> USE JobAssumption
    DEF OfferInv, OfferParts, JobQueueInv, bootVars, rowVars, actorVars,
       lockVars, gitVars
<1>1. JobFacts'
  BY DEF JobFacts, Machines, JobQueueTypeOK, Statuses, ActorStates, WorkEnds,
     Ends, WorkVerdicts
<1>2. Slots'
  BY DEF Slots, JobFacts, Machines, JobQueueTypeOK, Statuses, ActorStates,
     WorkEnds, Ends, WorkVerdicts
<1>3. Deleting'
  BY DEF Deleting, JobFacts, Machines, JobQueueTypeOK, Statuses, ActorStates,
     Deletions, WorkEnds, Ends, WorkVerdicts
<1>4. Once'
  BY DEF Once, JobFacts, Machines, JobQueueTypeOK, Statuses, ActorStates,
     WorkEnds, Ends, WorkVerdicts
<1>5. Standing'
  BY DEF Standing, Stands, Current, Slots, JobFacts, Machines, JobQueueTypeOK,
     Statuses, ActorStates, Deletions, WorkEnds, Ends, WorkVerdicts
<1>6. OfferStep
  BY DEF OfferStep, OnOffer, Current, Slots, Once, JobQueueTypeOK, Statuses,
     ActorStates, WorkEnds, Ends, WorkVerdicts
<1> QED  BY <1>1, <1>2, <1>3, <1>4, <1>5, <1>6

\* The operator's stop: a discard stopped halfway leaves its deletion behind,
\* but a discard stands for no candidate.
LEMMA AbortOffers ==
    ASSUME OfferInv, JobQueueInv', NEW j \in Job, Abort(j)
    PROVE  OfferParts' /\ OfferStep
<1> USE JobAssumption
    DEF OfferInv, OfferParts, JobQueueInv, bootVars, rowVars, actorVars,
       lockVars, gitVars
<1>1. JobFacts'
  BY DEF JobFacts, Machines, JobQueueTypeOK, Statuses, ActorStates, Abort, Ends,
     LeftBusy, LeftDeleting
<1>2. Slots'
  BY DEF Slots, JobFacts, Machines, JobQueueTypeOK, Statuses, ActorStates,
     Abort, Ends, LeftBusy, LeftDeleting
<1>3. Deleting'
  BY DEF Deleting, JobFacts, Machines, JobQueueTypeOK, Statuses, ActorStates,
     Deletions, Abort, Ends, LeftBusy, LeftDeleting
<1>4. Once'
  BY DEF Once, JobFacts, Machines, JobQueueTypeOK, Statuses, ActorStates, Abort,
     Ends, LeftBusy, LeftDeleting
<1>5. Standing'
  BY DEF Standing, Stands, Current, Slots, JobFacts, Machines, JobQueueTypeOK,
     Statuses, ActorStates, Deletions, Abort, Ends, LeftBusy, LeftDeleting
<1>6. OfferStep
  BY DEF OfferStep, OnOffer, Current, Slots, Once, JobQueueTypeOK, Statuses,
     ActorStates, Abort, Ends, LeftBusy, LeftDeleting
<1> QED  BY <1>1, <1>2, <1>3, <1>4, <1>5, <1>6

\* An aborted machine ends as a failure.
LEMMA AbortEndsOffers ==
    ASSUME OfferInv, JobQueueInv', NEW j \in Job, AbortEnds(j)
    PROVE  OfferParts' /\ OfferStep
<1> USE JobAssumption
    DEF OfferInv, OfferParts, JobQueueInv, bootVars, rowVars, actorVars,
       lockVars, gitVars
<1>1. JobFacts'
  BY DEF JobFacts, Machines, JobQueueTypeOK, Statuses, ActorStates, AbortEnds,
     Ends
<1>2. Slots'
  BY DEF Slots, JobFacts, Machines, JobQueueTypeOK, Statuses, ActorStates,
     AbortEnds, Ends
<1>3. Deleting'
  BY DEF Deleting, JobFacts, Machines, JobQueueTypeOK, Statuses, ActorStates,
     Deletions, AbortEnds, Ends
<1>4. Once'
  BY DEF Once, JobFacts, Machines, JobQueueTypeOK, Statuses, ActorStates,
     AbortEnds, Ends
<1>5. Standing'
  BY DEF Standing, Stands, Current, Slots, JobFacts, Machines, JobQueueTypeOK,
     Statuses, ActorStates, Deletions, AbortEnds, Ends
<1>6. OfferStep
  BY DEF OfferStep, OnOffer, Current, Slots, Once, JobQueueTypeOK, Statuses,
     ActorStates, AbortEnds, Ends
<1> QED  BY <1>1, <1>2, <1>3, <1>4, <1>5, <1>6

\* A discard deletes a ref that no job but itself stands for.
LEMMA DiscardEndsOffers ==
    ASSUME OfferInv, JobQueueInv', NEW j \in Job, DiscardEnds(j)
    PROVE  OfferParts' /\ OfferStep
<1> USE JobAssumption
    DEF OfferInv, OfferParts, JobQueueInv, bootVars, rowVars, actorVars,
       lockVars, gitVars
<1>1. JobFacts'
  BY DEF JobFacts, Machines, JobQueueTypeOK, Statuses, ActorStates, DiscardEnds,
     Ends
<1>2. Slots'
  BY DEF Slots, JobFacts, Machines, JobQueueTypeOK, Statuses, ActorStates,
     DiscardEnds, Ends
<1>3. Deleting'
  BY DEF Deleting, JobFacts, Machines, JobQueueTypeOK, Statuses, ActorStates,
     Deletions, DiscardEnds, Ends
<1>4. Once'
  BY DEF Once, JobFacts, Machines, JobQueueTypeOK, Statuses, ActorStates,
     DiscardEnds, Ends
<1>5. Standing'
  BY DEF Standing, Stands, Current, Slots, JobFacts, Machines, JobQueueTypeOK,
     Statuses, ActorStates, Deletions, DiscardEnds, Ends
<1>6. OfferStep
  BY DEF OfferStep, OnOffer, Current, Slots, Once, JobQueueTypeOK, Statuses,
     ActorStates, DiscardEnds, Ends
<1> QED  BY <1>1, <1>2, <1>3, <1>4, <1>5, <1>6

\* A git command left behind at most writes a ref.
LEMMA BusyEndsOffers ==
    ASSUME OfferInv, JobQueueInv', NEW j \in Job, BusyEnds(j)
    PROVE  OfferParts' /\ OfferStep
<1> USE JobAssumption
    DEF OfferInv, OfferParts, JobQueueInv, bootVars, rowVars, actorVars,
       lockVars, gitVars
<1>1. JobFacts'
  BY DEF JobFacts, Machines, JobQueueTypeOK, Statuses, ActorStates, BusyEnds
<1>2. Slots'
  BY DEF Slots, JobFacts, Machines, JobQueueTypeOK, Statuses, ActorStates,
     BusyEnds
<1>3. Deleting'
  BY DEF Deleting, JobFacts, Machines, JobQueueTypeOK, Statuses, ActorStates,
     Deletions, BusyEnds
<1>4. Once'
  BY DEF Once, JobFacts, Machines, JobQueueTypeOK, Statuses, ActorStates,
     BusyEnds
<1>5. Standing'
  BY DEF Standing, Stands, Current, Slots, JobFacts, Machines, JobQueueTypeOK,
     Statuses, ActorStates, Deletions, BusyEnds
<1>6. OfferStep
  BY DEF OfferStep, OnOffer, Current, Slots, Once, JobQueueTypeOK, Statuses,
     ActorStates, BusyEnds
<1> QED  BY <1>1, <1>2, <1>3, <1>4, <1>5, <1>6

\* A publish parks: what stands is now on offer, and still has its ref.
LEMMA PublishParksOffers ==
    ASSUME OfferInv, JobQueueInv', NEW j \in Job, PublishParks(j)
    PROVE  OfferParts' /\ OfferStep
<1> USE JobAssumption
    DEF OfferInv, OfferParts, JobQueueInv, bootVars, rowVars, actorVars,
       lockVars, gitVars
<1>1. JobFacts'
  BY DEF JobFacts, Machines, JobQueueTypeOK, Statuses, ActorStates,
     PublishParks, Settles, RetriesLeft, Ends
<1>2. Slots'
  BY DEF Slots, JobFacts, Machines, JobQueueTypeOK, Statuses, ActorStates,
     PublishParks, Settles, RetriesLeft, Ends
<1>3. Deleting'
  BY DEF Deleting, JobFacts, Machines, JobQueueTypeOK, Statuses, ActorStates,
     Deletions, PublishParks, Settles, RetriesLeft, Ends
<1>4. Once'
  BY DEF Once, JobFacts, Machines, JobQueueTypeOK, Statuses, ActorStates,
     PublishParks, Settles, RetriesLeft, Ends
<1>5. Standing'
  BY DEF Standing, Stands, Current, Slots, JobFacts, Machines, JobQueueTypeOK,
     Statuses, ActorStates, Deletions, PublishParks, Settles, RetriesLeft, Ends
<1>6. OfferStep
  BY DEF OfferStep, OnOffer, Current, Slots, Once, JobQueueTypeOK, Statuses,
     ActorStates, PublishParks, Settles, RetriesLeft, Ends
<1> QED  BY <1>1, <1>2, <1>3, <1>4, <1>5, <1>6

\* A publish takes the project lock.
LEMMA PublishLocksOffers ==
    ASSUME OfferInv, JobQueueInv', NEW j \in Job, PublishLocks(j)
    PROVE  OfferParts' /\ OfferStep
<1> USE JobAssumption
    DEF OfferInv, OfferParts, JobQueueInv, bootVars, rowVars, actorVars,
       lockVars, gitVars
<1>1. JobFacts'
  BY DEF JobFacts, Machines, JobQueueTypeOK, Statuses, ActorStates, PublishLocks
<1>2. Slots'
  BY DEF Slots, JobFacts, Machines, JobQueueTypeOK, Statuses, ActorStates,
     PublishLocks
<1>3. Deleting'
  BY DEF Deleting, JobFacts, Machines, JobQueueTypeOK, Statuses, ActorStates,
     Deletions, PublishLocks
<1>4. Once'
  BY DEF Once, JobFacts, Machines, JobQueueTypeOK, Statuses, ActorStates,
     PublishLocks
<1>5. Standing'
  BY DEF Standing, Stands, Current, Slots, JobFacts, Machines, JobQueueTypeOK,
     Statuses, ActorStates, Deletions, PublishLocks
<1>6. OfferStep
  BY DEF OfferStep, OnOffer, Current, Slots, Once, JobQueueTypeOK, Statuses,
     ActorStates, PublishLocks
<1> QED  BY <1>1, <1>2, <1>3, <1>4, <1>5, <1>6

\* A publish is refused before the target is touched.
LEMMA PublishFailsOffers ==
    ASSUME OfferInv, JobQueueInv', NEW j \in Job, PublishFails(j)
    PROVE  OfferParts' /\ OfferStep
<1> USE JobAssumption
    DEF OfferInv, OfferParts, JobQueueInv, bootVars, rowVars, actorVars,
       lockVars, gitVars
<1>1. JobFacts'
  BY DEF JobFacts, Machines, JobQueueTypeOK, Statuses, ActorStates,
     PublishFails, Settles, RetriesLeft, Ends
<1>2. Slots'
  BY DEF Slots, JobFacts, Machines, JobQueueTypeOK, Statuses, ActorStates,
     PublishFails, Settles, RetriesLeft, Ends
<1>3. Deleting'
  BY DEF Deleting, JobFacts, Machines, JobQueueTypeOK, Statuses, ActorStates,
     Deletions, PublishFails, Settles, RetriesLeft, Ends
<1>4. Once'
  BY DEF Once, JobFacts, Machines, JobQueueTypeOK, Statuses, ActorStates,
     PublishFails, Settles, RetriesLeft, Ends
<1>5. Standing'
  BY DEF Standing, Stands, Current, Slots, JobFacts, Machines, JobQueueTypeOK,
     Statuses, ActorStates, Deletions, PublishFails, Settles, RetriesLeft, Ends
<1>6. OfferStep
  BY DEF OfferStep, OnOffer, Current, Slots, Once, JobQueueTypeOK, Statuses,
     ActorStates, PublishFails, Settles, RetriesLeft, Ends
<1> QED  BY <1>1, <1>2, <1>3, <1>4, <1>5, <1>6

\* The compare-and-set: only a candidate that is not on the target is fresh.
LEMMA PublishLandsOffers ==
    ASSUME OfferInv, JobQueueInv', NEW j \in Job, PublishLands(j)
    PROVE  OfferParts' /\ OfferStep
<1> USE JobAssumption
    DEF OfferInv, OfferParts, JobQueueInv, bootVars, rowVars, actorVars,
       lockVars, gitVars
<1>1. JobFacts'
  BY DEF JobFacts, Machines, JobQueueTypeOK, Statuses, ActorStates, PublishLands
<1>2. Slots'
  BY DEF Slots, JobFacts, Machines, JobQueueTypeOK, Statuses, ActorStates,
     PublishLands
<1>3. Deleting'
  BY DEF Deleting, JobFacts, Machines, JobQueueTypeOK, Statuses, ActorStates,
     Deletions, PublishLands
<1>4. Once'
  BY DEF Once, JobFacts, Machines, JobQueueTypeOK, Statuses, ActorStates,
     PublishLands
<1>5. Standing'
  BY DEF Standing, Stands, Current, Slots, JobFacts, Machines, JobQueueTypeOK,
     Statuses, ActorStates, Deletions, PublishLands
<1>6. OfferStep
  BY DEF OfferStep, OnOffer, Current, Slots, Once, JobQueueTypeOK, Statuses,
     ActorStates, PublishLands
<1> QED  BY <1>1, <1>2, <1>3, <1>4, <1>5, <1>6

\* The target moved first.
LEMMA PublishLosesRaceOffers ==
    ASSUME OfferInv, JobQueueInv', NEW j \in Job, PublishLosesRace(j)
    PROVE  OfferParts' /\ OfferStep
<1> USE JobAssumption
    DEF OfferInv, OfferParts, JobQueueInv, bootVars, rowVars, actorVars,
       lockVars, gitVars
<1>1. JobFacts'
  BY DEF JobFacts, Machines, JobQueueTypeOK, Statuses, ActorStates,
     PublishLosesRace, Settles, RetriesLeft, Ends
<1>2. Slots'
  BY DEF Slots, JobFacts, Machines, JobQueueTypeOK, Statuses, ActorStates,
     PublishLosesRace, Settles, RetriesLeft, Ends
<1>3. Deleting'
  BY DEF Deleting, JobFacts, Machines, JobQueueTypeOK, Statuses, ActorStates,
     Deletions, PublishLosesRace, Settles, RetriesLeft, Ends
<1>4. Once'
  BY DEF Once, JobFacts, Machines, JobQueueTypeOK, Statuses, ActorStates,
     PublishLosesRace, Settles, RetriesLeft, Ends
<1>5. Standing'
  BY DEF Standing, Stands, Current, Slots, JobFacts, Machines, JobQueueTypeOK,
     Statuses, ActorStates, Deletions, PublishLosesRace, Settles, RetriesLeft,
     Ends
<1>6. OfferStep
  BY DEF OfferStep, OnOffer, Current, Slots, Once, JobQueueTypeOK, Statuses,
     ActorStates, PublishLosesRace, Settles, RetriesLeft, Ends
<1> QED  BY <1>1, <1>2, <1>3, <1>4, <1>5, <1>6

\* A landed publish is completed: its job no longer stands for a candidate.
LEMMA PublishCompletesOffers ==
    ASSUME OfferInv, JobQueueInv', NEW j \in Job, PublishCompletes(j)
    PROVE  OfferParts' /\ OfferStep
<1> USE JobAssumption
    DEF OfferInv, OfferParts, JobQueueInv, bootVars, rowVars, actorVars,
       lockVars, gitVars
<1>1. JobFacts'
  BY DEF JobFacts, Machines, JobQueueTypeOK, Statuses, ActorStates,
     PublishCompletes, Spend, Settles, RetriesLeft, Ends
<1>2. Slots'
  BY DEF Slots, JobFacts, Machines, JobQueueTypeOK, Statuses, ActorStates,
     PublishCompletes, Spend, Settles, RetriesLeft, Ends
<1>3. Deleting'
  BY DEF Deleting, JobFacts, Machines, JobQueueTypeOK, Statuses, ActorStates,
     Deletions, PublishCompletes, Spend, Settles, RetriesLeft, Ends
<1>4. Once'
  BY DEF Once, JobFacts, Machines, JobQueueTypeOK, Statuses, ActorStates,
     PublishCompletes, Spend, Settles, RetriesLeft, Ends
<1>5. Standing'
  BY DEF Standing, Stands, Current, Slots, JobFacts, Machines, JobQueueTypeOK,
     Statuses, ActorStates, Deletions, PublishCompletes, Spend, Settles,
     RetriesLeft, Ends
<1>6. OfferStep
  BY DEF OfferStep, OnOffer, Current, Slots, Once, JobQueueTypeOK, Statuses,
     ActorStates, PublishCompletes, Spend, Settles, RetriesLeft, Ends
<1> QED  BY <1>1, <1>2, <1>3, <1>4, <1>5, <1>6

\* A landed publish fails in finishing the session.
LEMMA PublishThrowsOffers ==
    ASSUME OfferInv, JobQueueInv', NEW j \in Job, PublishThrows(j)
    PROVE  OfferParts' /\ OfferStep
<1> USE JobAssumption
    DEF OfferInv, OfferParts, JobQueueInv, bootVars, rowVars, actorVars,
       lockVars, gitVars
<1>1. JobFacts'
  BY DEF JobFacts, Machines, JobQueueTypeOK, Statuses, ActorStates,
     PublishThrows, Spend, Settles, RetriesLeft, Ends
<1>2. Slots'
  BY DEF Slots, JobFacts, Machines, JobQueueTypeOK, Statuses, ActorStates,
     PublishThrows, Spend, Settles, RetriesLeft, Ends
<1>3. Deleting'
  BY DEF Deleting, JobFacts, Machines, JobQueueTypeOK, Statuses, ActorStates,
     Deletions, PublishThrows, Spend, Settles, RetriesLeft, Ends
<1>4. Once'
  BY DEF Once, JobFacts, Machines, JobQueueTypeOK, Statuses, ActorStates,
     PublishThrows, Spend, Settles, RetriesLeft, Ends
<1>5. Standing'
  BY DEF Standing, Stands, Current, Slots, JobFacts, Machines, JobQueueTypeOK,
     Statuses, ActorStates, Deletions, PublishThrows, Spend, Settles,
     RetriesLeft, Ends
<1>6. OfferStep
  BY DEF OfferStep, OnOffer, Current, Slots, Once, JobQueueTypeOK, Statuses,
     ActorStates, PublishThrows, Spend, Settles, RetriesLeft, Ends
<1> QED  BY <1>1, <1>2, <1>3, <1>4, <1>5, <1>6

\* A ref deletion ends: it is of no candidate that stands, and a row it closes
\* is not the newest job's.
LEMMA DeletionEndsOffers ==
    ASSUME OfferInv, JobQueueInv', NEW d \in pend, DeletionEnds(d)
    PROVE  OfferParts' /\ OfferStep
<1> USE JobAssumption
    DEF OfferInv, OfferParts, JobQueueInv, bootVars, rowVars, actorVars,
       lockVars, gitVars
<1>0. /\ Current = latest /\ Current' = latest' /\ latest' = latest
      /\ d.candidate \in Job /\ d.job \in Job \cup {None}
      /\ UNCHANGED <<kind, refOf, pub, landed, overtaken, actor>>
  BY DEF Slots, Current, DeletionEnds, JobQueueTypeOK, Deletions
<1>1. JobFacts'
  BY DEF JobFacts, Machines, Closings, JobQueueTypeOK, Statuses, ActorStates,
     DeletionEnds, Spend
<1>2. Slots'
  BY DEF Slots, JobFacts, Machines, JobQueueTypeOK, Statuses, ActorStates,
     DeletionEnds, Spend
<1>3. Deleting'
  BY DEF Deleting, JobFacts, Machines, JobQueueTypeOK, Statuses, ActorStates,
     Deletions,
     DeletionEnds, Spend
<1>4. Once'
  BY DEF Once, JobFacts, Machines, JobQueueTypeOK, Statuses, ActorStates,
     DeletionEnds, Spend
<1>5. ASSUME NEW x \in Job, x # d.job PROVE row'[x] = row[x]
  BY <1>5 DEF DeletionEnds, JobQueueTypeOK
<1>6. d.job # None => d.job # latest /\ refOf[d.job] = d.candidate
  BY DEF Deleting
<1>7. Standing'
  <2> SUFFICES ASSUME NEW s \in Job, Stands(s)'
               PROVE  /\ \A x \in Job \ {s} : refOf'[x] = refOf'[s] => pub'[x] = "idle"
                      /\ \A e \in pend' : e.candidate # refOf'[s]
                      /\ refOf'[s] \in landed' => pub'[s] = "landed"
                      /\ spent'["fault"] = 0
                         /\ (row'[s] = "ready-to-land" \/ pub'[s] \in {"checking", "locked"})
                            => refOf'[s] \in refs'
                      /\ kind'[s] = "land" => row'[refOf'[s]] = "ready-to-land"
    BY DEF Standing
  <2>1. s = latest /\ row'[s] = row[s] /\ Stands(s)
    BY <1>0, <1>5, <1>6 DEF Stands
  <2>2. d.candidate # refOf[s]
    BY <2>1 DEF Standing
  <2>3. spent'["fault"] = 0 => spent["fault"] = 0
    BY DEF DeletionEnds, Spend, JobQueueTypeOK
  <2>4. refOf[s] \in refs => refOf[s] \in refs'
    BY <2>2 DEF DeletionEnds
  <2>5. refOf[s] # d.job /\ refOf[s] \in Job
    BY <1>0, <1>6, <2>1, <2>2 DEF JobFacts, JobQueueTypeOK
  <2>6. row'[refOf[s]] = row[refOf[s]]
    BY <1>5, <2>5
  <2>7. pend' \subseteq pend
    BY DEF DeletionEnds
  <2> QED  BY <1>0, <2>1, <2>3, <2>4, <2>6, <2>7 DEF Standing
<1>8. OfferStep
  BY <1>0, <1>5, <1>6 DEF OfferStep, OnOffer, JobQueueTypeOK
<1> QED  BY <1>1, <1>2, <1>3, <1>4, <1>7, <1>8

\* The startup sweep spares the refs of rows that hold them; a candidate being
\* landed is held by the row that prepared it.
LEMMA CollectOffers ==
    ASSUME OfferInv, JobQueueInv', NEW c \in Job, Collect(c)
    PROVE  OfferParts' /\ OfferStep
<1> USE JobAssumption
    DEF OfferInv, OfferParts, JobQueueInv, bootVars, rowVars, actorVars,
       lockVars, gitVars
<1>1. JobFacts'
  BY DEF JobFacts, Machines, JobQueueTypeOK, Statuses, ActorStates, Collect,
     Holds
<1>2. Slots'
  BY DEF Slots, JobFacts, Machines, JobQueueTypeOK, Statuses, ActorStates,
     Collect, Holds
<1>3. Deleting'
  BY DEF Deleting, JobFacts, Machines, JobQueueTypeOK, Statuses, ActorStates,
     Deletions, Collect, Holds
<1>4. Once'
  BY DEF Once, JobFacts, Machines, JobQueueTypeOK, Statuses, ActorStates,
     Collect, Holds
<1>5. Standing'
  BY DEF Standing, Stands, Current, Slots, JobFacts, Machines, JobQueueTypeOK,
     Statuses, ActorStates, Deletions, Collect, Holds
<1>6. OfferStep
  BY DEF OfferStep, OnOffer, Current, Slots, Once, JobQueueTypeOK, Statuses,
     ActorStates, Collect, Holds
<1> QED  BY <1>1, <1>2, <1>3, <1>4, <1>5, <1>6

\* A crash leaves the newest row's offer as it was.
LEMMA RestartOffers ==
    ASSUME OfferInv, JobQueueInv', Restart
    PROVE  OfferParts' /\ OfferStep
<1> USE JobAssumption
    DEF OfferInv, OfferParts, JobQueueInv, bootVars, rowVars, actorVars,
       lockVars, gitVars
<1>1. JobFacts'
  BY DEF JobFacts, Machines, JobQueueTypeOK, Statuses, ActorStates, Restart,
     Spend, Live
<1>2. Slots'
  BY DEF Slots, JobFacts, Machines, JobQueueTypeOK, Statuses, ActorStates,
     Restart, Spend, Live
<1>3. Deleting'
  BY DEF Deleting, JobFacts, Machines, JobQueueTypeOK, Statuses, ActorStates,
     Deletions, Restart, Spend, Live
<1>4. Once'
  BY DEF Once, JobFacts, Machines, JobQueueTypeOK, Statuses, ActorStates,
     Restart, Spend, Live
<1>5. Standing'
  BY DEF Standing, Stands, Current, Slots, JobFacts, Machines, JobQueueTypeOK,
     Statuses, ActorStates, Deletions, Restart, Spend, Live
<1>6. OfferStep
  BY DEF OfferStep, OnOffer, Current, Slots, Once, JobQueueTypeOK, Statuses,
     ActorStates, Restart, Spend, Live
<1> QED  BY <1>1, <1>2, <1>3, <1>4, <1>5, <1>6

\* The land route's check changes nothing but its request.
LEMMA LandCheckedOffers ==
    ASSUME OfferInv, JobQueueInv', NEW q \in Request, LandChecked(q)
    PROVE  OfferParts' /\ OfferStep
<1> USE JobAssumption
    DEF OfferInv, OfferParts, JobQueueInv, bootVars, rowVars, actorVars,
       lockVars, gitVars
<1>1. JobFacts'
  BY DEF JobFacts, Machines, JobQueueTypeOK, Statuses, ActorStates, LandChecked,
     OnOffer, Current
<1>2. Slots'
  BY DEF Slots, JobFacts, Machines, JobQueueTypeOK, Statuses, ActorStates,
     LandChecked, OnOffer, Current
<1>3. Deleting'
  BY DEF Deleting, JobFacts, Machines, JobQueueTypeOK, Statuses, ActorStates,
     Deletions, LandChecked, OnOffer, Current
<1>4. Once'
  BY DEF Once, JobFacts, Machines, JobQueueTypeOK, Statuses, ActorStates,
     LandChecked, OnOffer, Current
<1>5. Standing'
  BY DEF Standing, Stands, Current, Slots, JobFacts, Machines, JobQueueTypeOK,
     Statuses, ActorStates, Deletions, LandChecked, OnOffer, Current
<1>6. OfferStep
  BY DEF OfferStep, OnOffer, Current, Slots, Once, JobQueueTypeOK, Statuses,
     ActorStates, LandChecked, OnOffer, Current
<1> QED  BY <1>1, <1>2, <1>3, <1>4, <1>5, <1>6

\* Steps outside the queue.
LEMMA SurroundingsOffers ==
    ASSUME OfferInv, JobQueueInv', TargetMoves \/ LaneBegins \/ LaneEnds \/ ForceRelease \/ Started
    PROVE  OfferParts' /\ OfferStep
<1> USE JobAssumption
    DEF OfferInv, OfferParts, JobQueueInv, bootVars, rowVars, actorVars,
       lockVars, gitVars
<1>1. JobFacts'
  BY DEF JobFacts, Machines, JobQueueTypeOK, Statuses, ActorStates, TargetMoves,
     LaneBegins, LaneEnds, ForceRelease, Started, Spend
<1>2. Slots'
  BY DEF Slots, JobFacts, Machines, JobQueueTypeOK, Statuses, ActorStates,
     TargetMoves, LaneBegins, LaneEnds, ForceRelease, Started, Spend
<1>3. Deleting'
  BY DEF Deleting, JobFacts, Machines, JobQueueTypeOK, Statuses, ActorStates,
     Deletions, TargetMoves, LaneBegins, LaneEnds, ForceRelease, Started, Spend
<1>4. Once'
  BY DEF Once, JobFacts, Machines, JobQueueTypeOK, Statuses, ActorStates,
     TargetMoves, LaneBegins, LaneEnds, ForceRelease, Started, Spend
<1>5. Standing'
  BY DEF Standing, Stands, Current, Slots, JobFacts, Machines, JobQueueTypeOK,
     Statuses, ActorStates, Deletions, TargetMoves, LaneBegins, LaneEnds,
     ForceRelease, Started, Spend
<1>6. OfferStep
  BY DEF OfferStep, OnOffer, Current, Slots, Once, JobQueueTypeOK, Statuses,
     ActorStates, TargetMoves, LaneBegins, LaneEnds, ForceRelease, Started,
     Spend
<1> QED  BY <1>1, <1>2, <1>3, <1>4, <1>5, <1>6

\* A ref deleted from outside is a fault.
LEMMA RefVanishesOffers ==
    ASSUME OfferInv, JobQueueInv', NEW c \in Job, RefVanishes(c)
    PROVE  OfferParts' /\ OfferStep
<1> USE JobAssumption
    DEF OfferInv, OfferParts, JobQueueInv, bootVars, rowVars, actorVars,
       lockVars, gitVars
<1>1. JobFacts'
  BY DEF JobFacts, Machines, JobQueueTypeOK, Statuses, ActorStates, RefVanishes,
     Spend
<1>2. Slots'
  BY DEF Slots, JobFacts, Machines, JobQueueTypeOK, Statuses, ActorStates,
     RefVanishes, Spend
<1>3. Deleting'
  BY DEF Deleting, JobFacts, Machines, JobQueueTypeOK, Statuses, ActorStates,
     Deletions, RefVanishes, Spend
<1>4. Once'
  BY DEF Once, JobFacts, Machines, JobQueueTypeOK, Statuses, ActorStates,
     RefVanishes, Spend
<1>5. Standing'
  BY DEF Standing, Stands, Current, Slots, JobFacts, Machines, JobQueueTypeOK,
     Statuses, ActorStates, Deletions, RefVanishes, Spend
<1>6. OfferStep
  BY DEF OfferStep, OnOffer, Current, Slots, Once, JobQueueTypeOK, Statuses,
     ActorStates, RefVanishes, Spend
<1> QED  BY <1>1, <1>2, <1>3, <1>4, <1>5, <1>6

\* Closing out a stale job takes the job that stands down; it withdraws no offer.
LEMMA StaleStandsDown ==
    ASSUME OfferInv, NEW stale \in Recoverable, Recover(stale)
    PROVE  /\ \A x \in stale : x = registry /\ x = latest /\ x \in Job /\ row[x] = "running"
           /\ \A e \in LeftDeleting(stale) :
                 /\ e.job = None /\ e.candidate \in Job
                 /\ \E x \in stale : e.candidate = refOf[x] /\ actor[x] = "discarding"
           /\ spent'["fault"] = spent["fault"]
<1> USE JobAssumption DEF OfferInv, OfferParts, JobQueueInv
<1>1. \A x \in stale : x = registry /\ x \in Job /\ row[x] = "running"
  BY StaleClosed
<1>2. \A x \in stale : x = latest
  BY <1>1 DEF Slots
<1>3. \A e \in LeftDeleting(stale) :
         /\ e.job = None /\ e.candidate \in Job
         /\ \E x \in stale : e.candidate = refOf[x] /\ actor[x] = "discarding"
  BY <1>1 DEF LeftDeleting, JobQueueTypeOK
<1>4. spent'["fault"] = spent["fault"]
  BY DEF Recover, JobQueueTypeOK
<1> QED  BY <1>1, <1>2, <1>3, <1>4

\* A refused dispatch at most closes out a stale job, which then stands for
\* nothing.
LEMMA RefusedOffers ==
    ASSUME OfferInv, JobQueueInv', Refused,
           \A q \in Request : req'[q] \in {req[q], None}
    PROVE  OfferParts' /\ OfferStep
<1> USE JobAssumption
    DEF OfferInv, OfferParts, JobQueueInv, bootVars, lockVars, gitVars
<1> PICK stale \in Recoverable :
        /\ Recover(stale) /\ up
        /\ registry' = IF stale = {} THEN registry ELSE None
        /\ row' = StaleRow(stale)
        /\ actor' = StaleActor(stale)
        /\ pend' = pend \cup LeftDeleting(stale)
        /\ UNCHANGED <<bootVars, latest, kind, refOf, overtaken, stop,
                       attempt, pub, lockVars, gitVars>>
  BY DEF Refused
<1>0. /\ \A x \in stale : x = registry /\ x = latest /\ x \in Job /\ row[x] = "running"
      /\ \A x \in Job : row'[x] = IF x \in stale THEN "failed" ELSE row[x]
      /\ \A x \in Job : actor'[x] = IF x \notin stale THEN actor[x]
                                    ELSE IF EndsAtOnce(x) THEN "finished" ELSE "aborting"
      /\ Current = latest /\ Current' = latest
  BY StaleStandsDown DEF StaleRow, StaleActor, Slots, Current
<1>1. JobFacts'
  BY <1>0 DEF JobFacts, Machines, EndsAtOnce, JobQueueTypeOK
<1>2. Slots'
  BY <1>0 DEF Slots, JobFacts, Machines, JobQueueTypeOK
<1>3. Deleting'
  <2>1. \A x \in Job : row'[x] = "absent" => row[x] = "absent"
    BY <1>0
  <2>2. \A e \in LeftDeleting(stale) : row[e.candidate] # "absent"
    BY <1>0, StaleStandsDown DEF JobFacts, Machines
  <2> QED  BY <2>1, <2>2, StaleStandsDown DEF Deleting, JobQueueTypeOK, Deletions
<1>4. Once'
  BY <1>0 DEF Once, Machines, EndsAtOnce, JobQueueTypeOK
<1>5. Standing'
  <2>1. CASE stale = {}
    BY <1>0, <2>1, StaleStandsDown DEF Standing, Stands, JobFacts,
       JobQueueTypeOK
  <2>2. CASE stale # {}
    BY <1>0, <2>2 DEF Standing, Stands
  <2> QED  BY <2>1, <2>2
<1>6. OfferStep
  BY <1>0 DEF OfferStep, OnOffer, JobQueueTypeOK
<1> QED  BY <1>1, <1>2, <1>3, <1>4, <1>5, <1>6

\* A land refused changes nothing but its request, or closes out a stale job.
LEMMA LandRefusedOffers ==
    ASSUME OfferInv, JobQueueInv', NEW q \in Request, LandRefused(q)
    PROVE  OfferParts' /\ OfferStep
<1>1. \A p \in Request : req'[p] \in {req[p], None}
  BY DEF LandRefused, OfferInv, JobQueueInv, JobQueueTypeOK
<1>2. CASE Refused
  BY <1>1, <1>2, RefusedOffers
<1>3. CASE ~Refused
  <2>1. UNCHANGED <<bootVars, registry, rowVars, actorVars, pub, lockVars, gitVars, pend,
                    spent>>
    BY <1>3 DEF LandRefused
  <2> QED  BY <1>1, <2>1 DEF bootVars, rowVars, actorVars, lockVars, gitVars, OfferInv,
           OfferParts, JobFacts, Slots, Deleting, Once, Standing, Stands, OfferStep, OnOffer,
           Current
<1> QED  BY <1>2, <1>3

\* A dispatch of a new candidate, or of a discard, or of the land of one on
\* offer, takes over; every other deletion and publish is of other candidates.
LEMMA DispatchOffers ==
    ASSUME OfferInv, JobQueueInv',
           NEW j \in Job, NEW k, NEW c \in Job, Dispatch(j, k, c),
           \A q \in Request : req'[q] \in {req[q], None},
           overtaken \subseteq overtaken', overtaken' \subseteq overtaken \cup {j},
           k \notin {"land", "discard"} => c = j,
           k \in {"land", "discard"} =>
              actor[c] = "finished" /\ refOf[c] = c,
           k = "land" /\ j \notin overtaken' =>
              \E x \in OnOffer \ overtaken : refOf[x] = c
    PROVE  OfferParts' /\ OfferStep
<1> USE JobAssumption
    DEF OfferInv, OfferParts, JobQueueInv, bootVars, gitVars
<1> PICK stale \in Recoverable :
        /\ up /\ row[j] = "absent" /\ k \in Kinds
        /\ Recover(stale)
        /\ pend' = pend \cup LeftDeleting(stale)
                \cup {[candidate |-> refOf[x], job |-> None] : x \in Superseded(c)}
                \cup {[candidate |-> refOf[x], job |-> x] : x \in Remembered(c)}
        /\ row' = [x \in Job |-> IF x = j THEN "running"
                                 ELSE IF x \in Superseded(c) THEN "discarded"
                                 ELSE StaleRow(stale)[x]]
        /\ registry' = j /\ latest' = j
        /\ kind' = [kind EXCEPT ![j] = k]
        /\ refOf' = [refOf EXCEPT ![j] = c]
        /\ actor' = [StaleActor(stale) EXCEPT ![j] = FirstState(k)]
        /\ pub' = [pub EXCEPT ![j] = IF k = "land" THEN "checking" ELSE @]
        /\ UNCHANGED <<bootVars, stop, lane, project, gitVars>>
  BY DEF Dispatch
<1>a. /\ \A x \in stale : x = registry /\ x = latest /\ x \in Job /\ row[x] = "running"
      /\ Current = latest /\ Current' = j
      /\ actor[j] = "none" /\ pub[j] = "idle"
  BY StaleStandsDown DEF Slots, Current, Machines
<1>b. /\ Superseded(c) \subseteq Job /\ Remembered(c) \subseteq Job
      /\ \A x \in Superseded(c) \cup Remembered(c) : row[x] = "ready-to-land" /\ refOf[x] # c
  BY DEF Superseded, Remembered
<1>c. /\ \A x \in Job \ {j} :
            /\ kind'[x] = kind[x] /\ refOf'[x] = refOf[x] /\ pub'[x] = pub[x]
            /\ actor'[x] = IF x \notin stale THEN actor[x]
                           ELSE IF EndsAtOnce(x) THEN "finished" ELSE "aborting"
            /\ row'[x] = IF x \in Superseded(c) THEN "discarded"
                         ELSE IF x \in stale THEN "failed" ELSE row[x]
      /\ kind'[j] = k /\ refOf'[j] = c /\ row'[j] = "running"
      /\ actor'[j] = FirstState(k) /\ pub'[j] = IF k = "land" THEN "checking" ELSE "idle"
  BY <1>a DEF StaleRow, StaleActor, JobQueueTypeOK
<1>d. \A x \in Job : refOf[x] \in Job /\ (refOf[x] # j \/ x = j)
  BY <1>a DEF JobFacts, JobQueueTypeOK
<1>1. JobFacts'
  <2>1. \A x \in Job : actor[x] = "finished" => x # j /\ actor'[x] = "finished"
    BY <1>a, <1>c DEF Machines
  <2>2. ASSUME NEW x \in Job \ {j}
        PROVE  /\ row'[x] = "running" => registry' = x
               /\ row'[x] = "ready-to-land" => actor'[x] = "finished" /\ pub'[x] = "idle"
                                               /\ kind'[x] \in {"merge", "land"}
               /\ pub'[x] # "idle" => actor'[x] \in {"publishing", "finished"}
               /\ actor'[x] = "publishing" => kind'[x] \in {"merge", "land"}
               /\ actor'[x] = "discarding" => registry' = x /\ kind'[x] = "discard"
               /\ kind'[x] \notin {"land", "discard"} => refOf'[x] = x
               /\ refOf'[x] # x => actor'[refOf'[x]] = "finished" /\ refOf'[refOf'[x]] = refOf'[x]
    <3>1. /\ row'[x] = "running" => FALSE
          /\ actor'[x] = "discarding" => FALSE
      BY <1>a, <1>c DEF JobFacts, Recoverable, Idle
    <3>2. /\ row'[x] = "ready-to-land" => actor'[x] = "finished" /\ pub'[x] = "idle"
                                          /\ kind'[x] \in {"merge", "land"}
          /\ pub'[x] # "idle" => actor'[x] \in {"publishing", "finished"}
          /\ actor'[x] = "publishing" => kind'[x] \in {"merge", "land"}
          /\ kind'[x] \notin {"land", "discard"} => refOf'[x] = x
      BY <1>a, <1>c DEF JobFacts, Machines, EndsAtOnce
    <3>3. refOf'[x] # x => actor'[refOf'[x]] = "finished" /\ refOf'[refOf'[x]] = refOf'[x]
      BY <1>c, <1>d, <2>1 DEF JobFacts
    <3> QED  BY <3>1, <3>2, <3>3
  <2>3. c # j => actor'[c] = "finished" /\ refOf'[c] = c
    BY <1>c, <2>1
  <2> QED  BY <1>c, <2>2, <2>3 DEF JobFacts, FirstState
<1>2. Slots'
  BY <1>a, <1>c DEF Slots, Machines, JobQueueTypeOK
<1>3. Deleting'
  <2>1. \A x \in Job : row'[x] = "absent" => row[x] = "absent"
    BY <1>c, <1>b
  <2>2. \A x \in Job : row[x] # "absent" => row[refOf[x]] # "absent"
    BY DEF JobFacts, Machines, JobQueueTypeOK
  <2>3. ASSUME NEW e \in pend' 
        PROVE  row'[e.candidate] # "absent"
    BY <1>a, <1>b, <2>1, <2>2, <2>3, StaleStandsDown DEF Deleting,
       JobQueueTypeOK, Deletions
  <2>4. ASSUME NEW e \in pend', e.job # None
        PROVE  e.job # latest' /\ refOf'[e.job] = e.candidate
    <3>1. CASE e \in pend
      BY <1>c, <2>4, <3>1 DEF Deleting, Closings, JobQueueTypeOK, Deletions
    <3>2. CASE e \notin pend
      <4>1. PICK x \in Remembered(c) : e = [candidate |-> refOf[x], job |-> x]
        BY <2>4, <3>2, StaleStandsDown
      <4> QED  BY <1>b, <1>c, <4>1
    <3> QED  BY <3>1, <3>2
  <2> QED  BY <2>3, <2>4 DEF Deleting
<1>4. Once'
  BY <1>a, <1>c DEF Once, Machines, EndsAtOnce, JobQueueTypeOK
<1>5. Standing'
  <2> SUFFICES ASSUME k # "discard", j \notin overtaken'
               PROVE  /\ \A x \in Job \ {j} : refOf[x] = c => pub[x] = "idle"
                      /\ \A e \in pend' : e.candidate # c
                      /\ c \in landed => FALSE
                      /\ spent["fault"] = 0 /\ k = "land" => c \in refs
                      /\ k = "land" => row'[c] = "ready-to-land"
    BY <1>a, <1>c, StaleStandsDown DEF Standing, Stands
  <2>1. \A e \in pend' : e \in pend \/ e \in LeftDeleting(stale) \/ e.candidate # c
    BY <1>b
  <2>2. CASE k # "land"
    <3>1. c = j
      BY <2>2
    <3>2. \A e \in LeftDeleting(stale) : e.candidate # j
      BY <1>a, <1>d, StaleStandsDown
    <3>3. \A e \in pend : e.candidate # j
      BY DEF Deleting
    <3>4. j \notin landed
      BY <1>a DEF Once
    <3> QED  BY <1>d, <2>1, <2>2, <3>1, <3>2, <3>3, <3>4
  <2>3. CASE k = "land"
    <3>1. PICK x \in OnOffer \ overtaken : refOf[x] = c
      BY <2>3
    <3>2. x = latest /\ x \in Job /\ row[x] = "ready-to-land" /\ stale = {} /\ Stands(x)
          /\ pub[x] = "idle"
      BY <1>a, <3>1 DEF OnOffer, Stands, JobFacts, JobQueueTypeOK
    <3>3. LeftDeleting(stale) = {}
      BY <3>2 DEF LeftDeleting
    <3>4. row[c] = "ready-to-land"
      BY <3>1, <3>2 DEF Standing, JobFacts
    <3>5. c # j /\ c \notin Superseded(c)
      BY <1>b, <2>3, <3>4
    <3>6. row'[c] = "ready-to-land"
      BY <1>c, <3>2, <3>4, <3>5
    <3> QED  BY <2>1, <3>1, <3>2, <3>3, <3>6 DEF Standing
  <2> QED  BY <2>2, <2>3
<1>6. OfferStep
  BY <1>a, <1>c DEF OfferStep, OnOffer
<1> QED  BY <1>1, <1>2, <1>3, <1>4, <1>5, <1>6

\* The routes: what a land resolved was on offer, so it has finished.
LEMMA RouteOffers ==
    ASSUME OfferInv, JobQueueInv', Requests
    PROVE  OfferParts' /\ OfferStep
<1> USE JobAssumption DEF OfferInv, OfferParts, JobQueueInv
<1>0. \A x \in Job : actor[x] = "finished" =>
         /\ refOf[x] \in Job /\ actor[refOf[x]] = "finished" /\ refOf[refOf[x]] = refOf[x]
  BY DEF JobFacts, JobQueueTypeOK
<1>1. CASE DispatchRefused
  BY <1>1, RefusedOffers DEF DispatchRefused
<1>2. ASSUME NEW j \in Job, Start(j) PROVE OfferParts' /\ OfferStep
  BY <1>2, DispatchOffers DEF Start, JobQueueTypeOK
<1>3. ASSUME NEW j \in Job, Discard(j) PROVE OfferParts' /\ OfferStep
  <2>1. PICK x \in OnOffer : Dispatch(j, "discard", refOf[x])
    BY <1>3 DEF Discard
  <2>2. x \in Job /\ actor[x] = "finished"
    BY DEF OnOffer, Current, JobFacts, JobQueueTypeOK
  <2> QED  BY <1>0, <1>3, <2>1, <2>2, DispatchOffers DEF Discard, JobQueueTypeOK
<1>4. ASSUME NEW j \in Job, Abort(j) PROVE OfferParts' /\ OfferStep
  BY <1>4, AbortOffers
<1>5. ASSUME NEW q \in Request, LandChecked(q) PROVE OfferParts' /\ OfferStep
  BY <1>5, LandCheckedOffers
<1>6. ASSUME NEW q \in Request, LandRefused(q) PROVE OfferParts' /\ OfferStep
  BY <1>6, LandRefusedOffers
<1>7. ASSUME NEW q \in Request, NEW j \in Job, Land(q, j)
      PROVE  OfferParts' /\ OfferStep
  <2>1. req[q] \in Job /\ actor[req[q]] = "finished"
    BY <1>7 DEF Land, Slots, JobQueueTypeOK
  <2>2. \A p \in Request : req'[p] \in {req[p], None}
    BY <1>7 DEF Land, JobQueueTypeOK
  <2>3. /\ overtaken \subseteq overtaken' /\ overtaken' \subseteq overtaken \cup {j}
        /\ j \notin overtaken' =>
              \E x \in OnOffer \ overtaken : refOf[x] = refOf[req[q]]
    BY <1>7 DEF Land
  <2> QED  BY <1>0, <1>7, <2>1, <2>2, <2>3, DispatchOffers DEF Land
<1> QED  BY <1>1, <1>2, <1>3, <1>4, <1>5, <1>6, <1>7 DEF Requests

LEMMA OfferNext ==
    ASSUME OfferInv, [JobQueueNext]_vars
    PROVE  OfferInv' /\ (UNCHANGED vars \/ OfferStep)
<1>0. CASE UNCHANGED vars
  BY <1>0 DEF vars, bootVars, rowVars, actorVars, lockVars, gitVars, OfferInv,
     OfferParts,
     JobQueueInv, JobQueueTypeOK, Machines, Locked, Landings, Closings, JobFacts, Slots,
     Deleting, Once, Standing, Stands, Current
<1>1. CASE JobQueueNext
  <2>1. JobQueueInv'
    BY <1>1, NextStep DEF OfferInv
  <2>2. CASE Requests
    BY <2>1, <2>2, RouteOffers DEF OfferInv
  <2>3. CASE TargetMoves \/ LaneBegins \/ LaneEnds \/ ForceRelease \/ Started
    BY <2>1, <2>3, SurroundingsOffers DEF OfferInv
  <2>4. CASE Restart
    BY <2>1, <2>4, RestartOffers DEF OfferInv
  <2>5. ASSUME NEW j \in Job, BusyEnds(j) \/ RefVanishes(j) \/ Collect(j)
        PROVE  OfferInv' /\ OfferStep
    BY <2>1, <2>5, BusyEndsOffers, RefVanishesOffers, CollectOffers DEF OfferInv
  <2>6. ASSUME NEW d \in pend, DeletionEnds(d)
        PROVE  OfferInv' /\ OfferStep
    BY <2>1, <2>6, DeletionEndsOffers DEF OfferInv
  <2>7. ASSUME NEW j \in Job, Machine(j)
        PROVE  OfferInv' /\ OfferStep
    BY <2>1, <2>7, PreparedOffers, WorkEndsOffers, AbortEndsOffers, DiscardEndsOffers,
       PublishParksOffers, PublishLocksOffers, PublishFailsOffers, PublishLandsOffers,
       PublishLosesRaceOffers, PublishCompletesOffers, PublishThrowsOffers
       DEF OfferInv, Machine, Publishing
  <2> QED  BY <1>1, <2>2, <2>3, <2>4, <2>5, <2>6, <2>7
           DEF JobQueueNext, Surroundings, Startup
<1> QED  BY <1>0, <1>1

LEMMA OfferInvariant == JobQueueSpec => []OfferInv
<1>1. JobQueueInit => OfferParts
  BY JobAssumption DEF JobQueueInit, OfferParts, JobFacts, Slots, Deleting,
     Once, Standing, Stands
<1>2. OfferInv /\ [JobQueueNext]_vars => OfferInv'
  BY OfferNext
<1>3. JobQueueInv /\ OfferParts => OfferInv
  BY DEF OfferInv
<1> QED  BY <1>1, <1>2, <1>3, JobQueueInvariant, PTL DEF JobQueueSpec

\* What is offered can be landed: however many deletions are in flight and
\* whatever a startup sweep collects, the offered candidate's ref exists,
\* unless a deletion failed or somebody deleted a ref.
THEOREM OffersHaveRefs == JobQueueSpec => []OfferHasRef
<1>1. OfferInv => OfferHasRef
  BY JobAssumption DEF OfferInv, OfferParts, JobQueueInv, JobQueueTypeOK,
     JobFacts, Standing,
     Stands, OfferHasRef, Offers, OnOffer, Current
<1> QED  BY <1>1, OfferInvariant, PTL

\* A candidate on the target is not offered again.
THEOREM LandedAreNotOffered == JobQueueSpec => []LandedIsNotOffered
<1>1. OfferInv => LandedIsNotOffered
  BY JobAssumption DEF OfferInv, OfferParts, JobQueueInv, JobQueueTypeOK,
     JobFacts, Standing,
     Stands, LandedIsNotOffered, Offers, OnOffer, Current
<1> QED  BY <1>1, OfferInvariant, PTL

\* Only the dispatch of another job ends an offer.
THEOREM OffersEndByDispatch == JobQueueSpec => OfferEndsByDispatch
<1>1. OfferInv /\ [JobQueueNext]_vars =>
        [\A j \in OnOffer : j \in OnOffer' \/ latest' # latest]_vars
  BY OfferNext DEF OfferStep
<1> QED  BY <1>1, OfferInvariant, PTL DEF JobQueueSpec, OfferEndsByDispatch

\* However many publishes of a candidate outlive their machines, one moves the
\* target.
THEOREM CandidatesLandOnce == JobQueueSpec => LandsOnce
<1>1. OfferInv /\ [JobQueueNext]_vars =>
        [\A j \in Job : pub[j] = "locked" /\ pub'[j] = "landed" => refOf[j] \notin landed]_vars
  BY OfferNext DEF OfferStep
<1> QED  BY <1>1, OfferInvariant, PTL DEF JobQueueSpec, LandsOnce
-----------------------------------------------------------------------------
(* The refinement: what the queue does, seen as CandidateOffers.           *)

\* A job not dispatched yet is of no kind and has overtaken nothing.
Undispatched == \A j \in Job : row[j] = "absent" => kind[j] = "none" /\ j \notin overtaken

PromiseInv == OfferInv /\ Undispatched

Barred == overtaken \cup {j \in Job : kind[j] \in {"discard", "commit", "rebase"}}
Mapped == Promise!Next /\ Undispatched'

\* What the promise reads of a state: one job at most is at work or on offer.
LEMMA StagesAre ==
    ASSUME OfferInv
    PROVE  /\ Current = latest
           /\ \A j \in Job :
                 /\ StageOf(j) = "new" <=> row[j] = "absent"
                 /\ StageOf(j) = "working" <=> row[j] = "running"
                 /\ StageOf(j) = "offered" <=> row[j] = "ready-to-land" /\ j = latest
                                               /\ j \notin overtaken
                 /\ StageOf(j) = "completed" <=> row[j] = "completed"
                                                 /\ kind[j] \in {"merge", "land"}
                 /\ row[j] = "running" => j = latest
                 /\ StageOf(j) \in {"new", "working", "offered", "completed", "closed"}
<1> USE JobAssumption DEF OfferInv, OfferParts, JobQueueInv
<1>1. Current = latest
  BY DEF Slots, Current
<1>2. \A j \in Job : j \in Offers <=> row[j] = "ready-to-land" /\ j = latest
                                      /\ j \notin overtaken
  BY <1>1 DEF Offers, OnOffer
<1>3. \A j \in Job : row[j] = "running" => j = latest
  BY DEF JobFacts, Slots
<1> QED  BY <1>1, <1>2, <1>3 DEF StageOf

\* The same of the state a step leads to.
LEMMA StagesBecome ==
    ASSUME OfferInv'
    PROVE  /\ Current' = latest'
           /\ \A j \in Job :
                 /\ StageOf(j)' = "new" <=> row'[j] = "absent"
                 /\ StageOf(j)' = "working" <=> row'[j] = "running"
                 /\ StageOf(j)' = "offered" <=> row'[j] = "ready-to-land" /\ j = latest'
                                                /\ j \notin overtaken'
                 /\ StageOf(j)' = "completed" <=> row'[j] = "completed"
                                                  /\ kind'[j] \in {"merge", "land"}
                 /\ StageOf(j)' \in {"new", "working", "offered", "completed", "closed"}
<1> USE JobAssumption DEF OfferInv, OfferParts, JobQueueInv
<1>1. Current' = latest'
  BY DEF Slots, Current
<1>2. \A j \in Job : j \in Offers' <=> row'[j] = "ready-to-land" /\ j = latest'
                                       /\ j \notin overtaken'
  BY <1>1 DEF Offers, OnOffer
<1> QED  BY <1>1, <1>2 DEF StageOf

\* What a step leaves on offer can be landed and has not landed.
LEMMA LeavesLandable ==
    ASSUME OfferInv'
    PROVE  Promise!Landable'
<1>1. \A j \in Job : StageOf(j)' = "offered" =>
         row'[j] = "ready-to-land" /\ j = Current' /\ j \notin overtaken'
  BY StagesBecome
<1>2. \A j \in Job : StageOf(j)' = "offered" =>
         /\ refOf'[j] \in Job /\ refOf'[j] \notin landed'
         /\ spent'["fault"] = 0 => refOf'[j] \in refs'
  BY <1>1 DEF OfferInv, OfferParts, JobQueueInv, JobQueueTypeOK, JobFacts, Standing, Stands
<1> QED  BY <1>2 DEF Promise!Landable, Promise!In

\* A step that gives at most one running job its verdict, and lands nothing.
LEMMA OneVerdict ==
    ASSUME PromiseInv, OfferInv', NEW j \in Job,
           UNCHANGED <<latest, kind, refOf, overtaken, landed>>,
           \/ row' = row
           \/ /\ row[j] = "running"
              /\ \E v \in Statuses \ {"running"} : row' = [row EXCEPT ![j] = v]
    PROVE  Mapped
<1> USE JobAssumption DEF PromiseInv, OfferInv, OfferParts, JobQueueInv
<1> DEFINE S == [x \in Job |-> StageOf(x)]
<1>1. Undispatched'
  BY DEF Undispatched, JobQueueTypeOK, Statuses
<1>2. \A x \in Job : row'[x] = row[x] => StageOf(x)' = StageOf(x)
  BY StagesAre, StagesBecome
<1>3. CASE row' = row
  <2>1. S' = S
    BY <1>2, <1>3
  <2>2. Promise!Housekeeping
    BY <2>1 DEF Promise!Housekeeping
  <2> QED  BY <1>1, <2>2, LeavesLandable DEF Mapped, Promise!Next
<1>4. CASE row' # row
  <2>1. row[j] = "running" /\ row'[j] \in Statuses \ {"running"}
        /\ \A x \in Job \ {j} : row'[x] = row[x]
    BY <1>4 DEF JobQueueTypeOK
  <2>2. StageOf(j) = "working" /\ StageOf(j)' \in {"offered", "completed", "closed"}
        /\ S' = [S EXCEPT ![j] = StageOf(j)']
    <3>1. StageOf(j) = "working" /\ StageOf(j)' \in {"offered", "completed", "closed"}
      BY <2>1, StagesAre, StagesBecome DEF Statuses
    <3> QED  BY <1>2, <2>1, <3>1
  <2>3. StageOf(j)' = "completed" => refOf[j] \in landed
    BY StagesBecome DEF Landings
  <2>4. StageOf(j)' = "offered" => j \notin Barred
    BY StagesBecome DEF JobFacts, Barred
  <2>5. Promise!Settle(j)
    <3>1. CASE StageOf(j)' = "completed"
      BY <2>2, <2>3, <3>1 DEF Promise!Settle, Promise!Completes
    <3>2. CASE StageOf(j)' = "offered"
      BY <2>2, <2>4, <3>2 DEF Promise!Settle, Promise!Parks, Barred
    <3>3. CASE StageOf(j)' = "closed"
      BY <2>2, <3>3 DEF Promise!Settle, Promise!Closes
    <3> QED  BY <2>2, <3>1, <3>2, <3>3
  <2> QED  BY <1>1, <2>5, LeavesLandable DEF Mapped, Promise!Next
<1> QED  BY <1>3, <1>4

\* The machines: a verdict, or none.
LEMMA MachineMaps ==
    ASSUME PromiseInv, OfferInv', NEW j \in Job, Machine(j), ~PublishLands(j)
    PROVE  Mapped
<1> DEFINE Verdict == \/ row' = row
                      \/ /\ row[j] = "running"
                         /\ \E v \in Statuses \ {"running"} : row' = [row EXCEPT ![j] = v]
<1> USE DEF rowVars, gitVars
<1>1. ASSUME NEW v \in Statuses \ {"running"}, Ends(j, v) PROVE Verdict
  BY <1>1 DEF Ends
<1>2. ASSUME NEW v \in {"ready-to-land", "failed", "cas-lost", "completed"}, Settles(j, v)
      PROVE  Verdict
  BY <1>1, <1>2 DEF Settles, Statuses
<1>3. Verdict /\ UNCHANGED <<latest, kind, refOf, overtaken, landed>>
  <2>1. CASE Prepared(j) \/ PublishLocks(j)
    BY <2>1 DEF Prepared, PublishLocks
  <2>2. CASE WorkEnds(j)
    BY <1>1, <2>2 DEF WorkEnds, WorkVerdicts, Statuses
  <2>3. CASE AbortEnds(j)
    BY <1>1, <2>3 DEF AbortEnds, Statuses
  <2>4. CASE DiscardEnds(j)
    BY <1>1, <2>4 DEF DiscardEnds, Statuses
  <2>5. CASE PublishParks(j) \/ PublishFails(j)
    BY <1>2, <2>5 DEF PublishParks, PublishFails
  <2>6. CASE PublishLosesRace(j)
    BY <1>2, <2>6 DEF PublishLosesRace
  <2>7. CASE PublishCompletes(j) \/ PublishThrows(j)
    BY <1>2, <2>7 DEF PublishCompletes, PublishThrows
  <2> QED
    BY <2>1, <2>2, <2>3, <2>4, <2>5, <2>6, <2>7 DEF Machine, Publishing
<1> QED  BY <1>3, OneVerdict

\* The compare-and-set, for a machine at work or for a publish left behind:
\* the candidate was not on the target, and no offer of its job stands.
LEMMA LandingMaps ==
    ASSUME PromiseInv, OfferInv', NEW j \in Job, PublishLands(j)
    PROVE  Mapped
<1> USE JobAssumption DEF PromiseInv, OfferInv, OfferParts, JobQueueInv
<1>1. /\ UNCHANGED <<registry, rowVars, spent, refs>>
      /\ pub[j] = "locked" /\ refOf[j] \in fresh /\ landed' = landed \cup {refOf[j]}
  BY DEF PublishLands
<1>2. \A x \in Job : StageOf(x)' = StageOf(x)
  BY <1>1, StagesAre, StagesBecome DEF rowVars
<1>3. refOf[j] \notin landed
  BY <1>1 DEF Once
<1>4. StageOf(j) \in {"working", "closed"}
  BY <1>1, <1>3, StagesAre DEF Machines, JobFacts, Landings
<1>5. Promise!Land(j)
  BY <1>1, <1>2, <1>3, <1>4 DEF Promise!Land, rowVars
<1>6. Undispatched'
  BY <1>1 DEF Undispatched, rowVars
<1> QED  BY <1>5, <1>6, LeavesLandable DEF Mapped, Promise!Next

\* A deletion that comes back closes a row whose offer was withdrawn.
LEMMA DeletionMaps ==
    ASSUME PromiseInv, OfferInv', NEW d \in pend, DeletionEnds(d)
    PROVE  Mapped
<1> USE JobAssumption DEF PromiseInv, OfferInv, OfferParts, JobQueueInv
<1>1. UNCHANGED <<registry, latest, kind, refOf, overtaken, landed>>
  BY DEF DeletionEnds
<1>2. \A x \in Job : \/ row'[x] = row[x]
                     \/ /\ row'[x] = "discarded" /\ x # latest
                        /\ row[x] \in {"ready-to-land", "discarded"}
  BY DEF DeletionEnds, Deleting, Closings, JobQueueTypeOK, Deletions
<1>3. \A x \in Job : StageOf(x)' = StageOf(x)
  BY <1>1, <1>2, StagesAre, StagesBecome
<1>4. Promise!Housekeeping
  BY <1>1, <1>3 DEF Promise!Housekeeping
<1>5. Undispatched'
  BY <1>1, <1>2 DEF Undispatched
<1> QED  BY <1>4, <1>5, LeavesLandable DEF Mapped, Promise!Next

\* A crash gives the job that was running its verdict.
LEMMA RestartMaps ==
    ASSUME PromiseInv, OfferInv', Restart
    PROVE  Mapped
<1> USE JobAssumption DEF PromiseInv, OfferInv, OfferParts, JobQueueInv
<1>1. /\ UNCHANGED <<latest, kind, refOf, overtaken, landed>>
      /\ row' = [x \in Job |-> IF row[x] = "running" THEN "failed" ELSE row[x]]
  BY DEF Restart, gitVars
<1>2. CASE \E j \in Job : row[j] = "running"
  <2>1. PICK j \in Job : row[j] = "running"
    BY <1>2
  <2>2. \A x \in Job : row[x] = "running" => x = j
    BY <2>1 DEF JobFacts
  <2>3. row' = [row EXCEPT ![j] = "failed"]
    BY <1>1, <2>1, <2>2 DEF JobQueueTypeOK
  <2> QED  BY <1>1, <2>1, <2>3, OneVerdict DEF Statuses
<1>3. CASE ~\E j \in Job : row[j] = "running"
  <2>1. row' = row
    BY <1>1, <1>3 DEF JobQueueTypeOK
  <2>2. CASE Job = {}
    BY <1>1, <2>1, <2>2, LeavesLandable DEF Mapped, Promise!Next, Promise!Housekeeping,
       Undispatched
  <2>3. CASE Job # {}
    BY <1>1, <2>1, <2>3, OneVerdict
  <2> QED  BY <2>2, <2>3
<1> QED  BY <1>2, <1>3

\* A refused dispatch gives at most a stale job its verdict.
LEMMA RefusedMaps ==
    ASSUME PromiseInv, OfferInv', Refused
    PROVE  Mapped
<1> USE JobAssumption DEF PromiseInv, OfferInv, OfferParts, JobQueueInv
<1> PICK stale \in Recoverable :
        /\ Recover(stale)
        /\ row' = StaleRow(stale)
        /\ UNCHANGED <<latest, kind, refOf, overtaken, gitVars>>
  BY DEF Refused
<1>1. \A x \in stale : x = registry /\ x \in Job /\ row[x] = "running"
  BY StaleStandsDown
<1>2. CASE stale = {}
  <2>1. row' = row
    BY <1>2 DEF StaleRow, JobQueueTypeOK
  <2>2. \A x \in Job : StageOf(x)' = StageOf(x)
    BY <2>1, StagesAre, StagesBecome
  <2>3. Promise!Housekeeping /\ Undispatched'
    BY <2>1, <2>2 DEF Promise!Housekeeping, Undispatched, gitVars
  <2> QED  BY <2>3, LeavesLandable DEF Mapped, Promise!Next
<1>3. CASE stale # {}
  <2>1. registry \in Job /\ row[registry] = "running" /\ stale = {registry}
    BY <1>1, <1>3
  <2>2. row' = [row EXCEPT ![registry] = "failed"]
    BY <2>1 DEF StaleRow, JobQueueTypeOK
  <2> QED  BY <2>1, <2>2, OneVerdict DEF Statuses, gitVars
<1> QED  BY <1>2, <1>3

\* A dispatch takes whatever was at work or on offer off.
LEMMA DispatchMaps ==
    ASSUME PromiseInv, OfferInv',
           NEW j \in Job, NEW k \in Kinds, NEW c \in Job, Dispatch(j, k, c),
           \/ UNCHANGED overtaken /\ k \in {"merge", "commit", "rebase"} /\ c = j
           \/ /\ UNCHANGED overtaken /\ k = "land"
              /\ \E x \in OnOffer \ overtaken : refOf[x] = c
           \/ /\ overtaken' = overtaken \cup {j} \/ (UNCHANGED overtaken /\ k = "discard")
              /\ \E x \in Job : row[x] # "absent" /\ refOf[x] = c
    PROVE  Mapped
<1> USE JobAssumption DEF PromiseInv, OfferInv, OfferParts, JobQueueInv
<1> PICK stale \in Recoverable :
        /\ row[j] = "absent" /\ k \in Kinds
        /\ Recover(stale)
        /\ row' = [x \in Job |-> IF x = j THEN "running"
                                 ELSE IF x \in Superseded(c) THEN "discarded"
                                 ELSE StaleRow(stale)[x]]
        /\ latest' = j
        /\ kind' = [kind EXCEPT ![j] = k]
        /\ refOf' = [refOf EXCEPT ![j] = c]
        /\ UNCHANGED gitVars
  BY DEF Dispatch
<1> DEFINE S == [x \in Job |-> StageOf(x)]
<1>1. \A x \in Job : row[x] = "running" => x \in stale
  BY DEF JobFacts, Recoverable, Idle, Dispatch
<1>2. \A x \in stale : x \in Job /\ row[x] = "running"
  BY StaleStandsDown
<1>3. kind[j] = "none" /\ j \notin overtaken /\ StageOf(j) = "new" /\ StageOf(j)' = "working"
  BY StagesAre, StagesBecome DEF Undispatched
<1>4. ASSUME NEW x \in Job \ {j}
      PROVE  StageOf(x)' = IF StageOf(x) \in {"working", "offered"} THEN "closed" ELSE StageOf(x)
  <2>1. row'[x] = IF x \in Superseded(c) THEN "discarded"
                  ELSE IF x \in stale THEN "failed" ELSE row[x]
    BY DEF StaleRow
  <2>2. x \in Superseded(c) => row[x] = "ready-to-land"
    BY DEF Superseded
  <2>3. kind'[x] = kind[x]
    BY DEF JobQueueTypeOK
  <2> QED  BY <1>1, <1>2, <2>1, <2>2, <2>3, StagesAre, StagesBecome
<1>5. S' = [x \in Job |-> IF x = j THEN "working"
                          ELSE IF S[x] \in {"working", "offered"} THEN "closed" ELSE S[x]]
  BY <1>3, <1>4
<1>6. Barred' = IF j \in overtaken' \/ k \in {"discard", "commit", "rebase"}
                THEN Barred \cup {j} ELSE Barred
  BY <1>3 DEF Barred, JobQueueTypeOK
<1>7. /\ \A x \in OnOffer \ overtaken : x \in Job /\ S[x] = "offered"
      /\ \A x \in Job : row[x] # "absent" => S[x] # "new"
  BY StagesAre DEF OnOffer, JobQueueTypeOK
<1>8. /\ c \in {j} \cup {refOf[x] : x \in Job \ Promise!In("new")}
      /\ \/ c \in {j} \cup {refOf[x] : x \in Promise!In("offered")} /\ Barred' = Barred
         \/ Barred' = Barred \cup {j}
  BY <1>3, <1>6, <1>7 DEF Promise!In
<1>9. Promise!Dispatch(j)
  BY <1>3, <1>5, <1>8 DEF Promise!Dispatch, gitVars, Barred
<1>10. Undispatched'
  BY <1>3 DEF Undispatched, JobQueueTypeOK, StaleRow
<1> QED  BY <1>9, <1>10, LeavesLandable DEF Mapped, Promise!Next

\* The routes: each dispatch brings a candidate of its own, or one that an
\* earlier job brought.
LEMMA RoutesMap ==
    ASSUME PromiseInv, OfferInv', Requests
    PROVE  Mapped
<1> USE JobAssumption DEF PromiseInv, OfferInv, OfferParts, JobQueueInv
<1>0. \A x \in OnOffer : x \in Job /\ row[x] = "ready-to-land" /\ refOf[x] \in Job
  BY DEF OnOffer, Current, JobQueueTypeOK
<1>1. CASE DispatchRefused
  BY <1>1, RefusedMaps DEF DispatchRefused
<1>2. ASSUME NEW j \in Job, Start(j) PROVE Mapped
  <2>1. PICK k \in {"merge", "commit", "rebase"} : Dispatch(j, k, j)
    BY <1>2 DEF Start
  <2>2. k \in Kinds /\ UNCHANGED overtaken
    BY <1>2, <2>1 DEF Start, Dispatch
  <2> QED  BY <2>1, <2>2, DispatchMaps
<1>3. ASSUME NEW j \in Job, Discard(j) PROVE Mapped
  <2>1. PICK x \in OnOffer : Dispatch(j, "discard", refOf[x])
    BY <1>3 DEF Discard
  <2>2. "discard" \in Kinds /\ UNCHANGED overtaken
    BY <1>3, <2>1 DEF Discard, Dispatch
  <2> QED  BY <1>0, <2>1, <2>2, DispatchMaps
<1>4. ASSUME NEW j \in Job, Abort(j) PROVE Mapped
  <2>1. /\ UNCHANGED <<latest, kind, refOf, overtaken, landed>>
        /\ \/ row' = row
           \/ row[j] = "running" /\ row' = [row EXCEPT ![j] = "failed"]
    BY <1>4 DEF Abort, Ends, gitVars
  <2> QED  BY <2>1, OneVerdict DEF Statuses
<1>5. ASSUME NEW q \in Request, LandChecked(q) PROVE Mapped
  <2>1. PICK j \in Job : TRUE
    BY <1>0, <1>5 DEF LandChecked
  <2> QED  BY <1>5, OneVerdict DEF LandChecked, rowVars, gitVars
<1>6. ASSUME NEW q \in Request, LandRefused(q) PROVE Mapped
  <2>1. CASE Refused
    BY <2>1, RefusedMaps
  <2>2. CASE ~Refused
    <3>1. UNCHANGED <<rowVars, gitVars>> /\ registry \in Job
      BY <1>6, <2>2 DEF LandRefused, Idle, JobQueueTypeOK
    <3> QED  BY <3>1, OneVerdict DEF rowVars, gitVars
  <2> QED  BY <2>1, <2>2
<1>7. ASSUME NEW q \in Request, NEW j \in Job, Land(q, j) PROVE Mapped
  <2>1. req[q] \in Job /\ refOf[req[q]] \in Job /\ row[req[q]] # "absent"
    BY <1>7 DEF Land, Slots, Machines, JobQueueTypeOK
  <2>2. "land" \in Kinds /\ Dispatch(j, "land", refOf[req[q]])
    BY <1>7 DEF Land, Dispatch
  <2>3. \/ UNCHANGED overtaken /\ \E x \in OnOffer \ overtaken : refOf[x] = refOf[req[q]]
        \/ overtaken' = overtaken \cup {j}
    BY <1>7 DEF Land
  <2> QED  BY <2>1, <2>2, <2>3, DispatchMaps
<1> QED  BY <1>1, <1>2, <1>3, <1>4, <1>5, <1>6, <1>7 DEF Requests

\* Every step of the queue is one of the promise.
LEMMA NextMaps ==
    ASSUME PromiseInv, OfferInv', JobQueueNext
    PROVE  Mapped
<1>1. CASE Requests
  BY <1>1, RoutesMap
<1>2. ASSUME UNCHANGED <<latest, kind, refOf, overtaken, landed, row>> PROVE Mapped
  <2>1. \A x \in Job : StageOf(x)' = StageOf(x)
    BY <1>2, StagesAre, StagesBecome DEF PromiseInv
  <2>2. Promise!Housekeeping /\ Undispatched'
    BY <1>2, <2>1 DEF Promise!Housekeeping, PromiseInv, Undispatched
  <2> QED  BY <2>2, LeavesLandable DEF Mapped, Promise!Next
<1>3. CASE TargetMoves \/ LaneBegins \/ LaneEnds \/ ForceRelease \/ Started
  BY <1>2, <1>3 DEF TargetMoves, LaneBegins, LaneEnds, ForceRelease, Started,
     rowVars, gitVars
<1>4. ASSUME NEW j \in Job, BusyEnds(j) \/ RefVanishes(j) \/ Collect(j) PROVE Mapped
  BY <1>2, <1>4 DEF BusyEnds, RefVanishes, Collect, rowVars
<1>5. CASE Restart
  BY <1>5, RestartMaps
<1>6. ASSUME NEW d \in pend, DeletionEnds(d) PROVE Mapped
  BY <1>6, DeletionMaps
<1>7. ASSUME NEW j \in Job, Machine(j) PROVE Mapped
  BY <1>7, MachineMaps, LandingMaps
<1> QED  BY <1>1, <1>3, <1>4, <1>5, <1>6, <1>7
         DEF JobQueueNext, Surroundings, Startup

(***************************************************************************)
(* The queue with its locks, machines, recoveries, publishes left behind,  *)
(* deletions in flight and crashes keeps the promise made to whoever       *)
(* dispatches jobs: one job at work, no verdict taken back, one offer at   *)
(* most, landable until the next dispatch, each candidate landed once.     *)
(***************************************************************************)
THEOREM JobsKeepOfferPromise == JobQueueSpec => KeepsOfferPromise
<1>1. JobQueueInit /\ OfferInv => Promise!Init /\ Undispatched
  <2> SUFFICES ASSUME JobQueueInit, OfferInv PROVE Promise!Init /\ Undispatched
    OBVIOUS
  <2>1. \A j \in Job : StageOf(j) = "new"
    <3>1. \A j \in Job : row[j] = "absent"
      BY DEF JobQueueInit
    <3> QED  BY <3>1, StagesAre
  <2> QED  BY <2>1 DEF JobQueueInit, Promise!Init, Undispatched
<1>2. PromiseInv /\ OfferInv' /\ [JobQueueNext]_vars =>
        PromiseInv' /\ [Promise!Next]_(Promise!vars)
  <2> SUFFICES ASSUME PromiseInv, OfferInv', [JobQueueNext]_vars
               PROVE  Undispatched' /\ [Promise!Next]_(Promise!vars)
    BY DEF PromiseInv
  <2>1. CASE JobQueueNext
    BY <2>1, NextMaps DEF Mapped
  <2>2. CASE UNCHANGED vars
    <3>1. \A j \in Job : StageOf(j)' = StageOf(j)
      BY <2>2, StagesAre, StagesBecome DEF vars, rowVars, PromiseInv
    <3>2. UNCHANGED Promise!vars /\ Undispatched'
      BY <2>2, <3>1 DEF vars, rowVars, gitVars, Promise!vars, PromiseInv, Undispatched
    <3> QED  BY <3>2
  <2> QED  BY <2>1, <2>2
<1>3. OfferInv /\ Undispatched => PromiseInv
  BY DEF PromiseInv
<1> QED
  BY <1>1, <1>2, <1>3, OfferInvariant, PTL DEF JobQueueSpec, KeepsOfferPromise, Promise!Spec
-----------------------------------------------------------------------------
(* What it takes to contradict the code's comments: the two statements the *)
(* runs find violated hold but for the behaviours named here.              *)

\* Until a job is given up as stale, a machine works for a running row and a
\* publish for its machine.
Attached ==
    spent["stale"] = 0 =>
        \A j \in Job : /\ actor[j] \notin {"none", "finished"} => row[j] = "running"
                       /\ pub[j] # "idle" => actor[j] = "publishing"

LEMMA AttachedStep ==
    ASSUME OfferInv, Attached, [JobQueueNext]_vars
    PROVE  Attached'
<1> USE JobAssumption DEF OfferInv, JobQueueInv
<1>a. spent["stale"] \in Nat
  BY DEF JobQueueTypeOK
<1> DEFINE Same == UNCHANGED <<row, actor, pub>> /\ spent'["stale"] = spent["stale"]
<1>1. ASSUME Same PROVE Attached'
  BY <1>1 DEF Attached
<1>2. ASSUME NEW stale \in Recoverable, Recover(stale)
      PROVE  stale = {} \/ spent'["stale"] # 0
  <2>1. stale = {} \/ stale = {registry}
    BY DEF Recoverable
  <2>2. Cardinality({registry}) = 1
    BY FS_Singleton
  <2>3. spent'["stale"] = spent["stale"] + Cardinality(stale)
    BY <1>2 DEF Recover, JobQueueTypeOK
  <2> QED  BY <1>a, <2>1, <2>2, <2>3
<1>3. ASSUME Refused PROVE Attached'
  <2>1. PICK stale \in Recoverable :
          Recover(stale) /\ row' = StaleRow(stale) /\ actor' = StaleActor(stale)
          /\ UNCHANGED pub
    BY <1>3 DEF Refused
  <2>2. CASE stale = {}
    <3>1. row' = row /\ actor' = actor
      BY <2>1, <2>2 DEF StaleRow, StaleActor, JobQueueTypeOK
    <3>2. spent'["stale"] = 0 => spent["stale"] = 0
      BY <1>a, <2>1, <2>2, FS_EmptySet DEF Recover, JobQueueTypeOK
    <3> QED  BY <2>1, <3>1, <3>2 DEF Attached
  <2>3. CASE stale # {}
    BY <1>2, <2>1, <2>3 DEF Attached
  <2> QED  BY <2>2, <2>3
<1>4. ASSUME NEW j \in Job, NEW k, NEW c, Dispatch(j, k, c) PROVE Attached'
  <2>1. PICK stale \in Recoverable :
          /\ Recover(stale) /\ row[j] = "absent"
          /\ row' = [x \in Job |-> IF x = j THEN "running"
                                   ELSE IF x \in Superseded(c) THEN "discarded"
                                   ELSE StaleRow(stale)[x]]
          /\ actor' = [StaleActor(stale) EXCEPT ![j] = FirstState(k)]
          /\ pub' = [pub EXCEPT ![j] = IF k = "land" THEN "checking" ELSE @]
    BY <1>4 DEF Dispatch
  <2>2. CASE stale # {}
    BY <1>2, <2>1, <2>2 DEF Attached
  <2>3. CASE stale = {}
    <3>1. spent'["stale"] = 0 => spent["stale"] = 0
      BY <1>a, <2>1, <2>3, FS_EmptySet DEF Recover, JobQueueTypeOK
    <3>2. /\ row'[j] = "running" /\ pub[j] = "idle"
          /\ pub'[j] # "idle" => actor'[j] = "publishing"
      BY <2>1 DEF Machines, JobQueueTypeOK, FirstState, StaleActor
    <3>3. \A x \in Job \ {j} : /\ actor'[x] = actor[x] /\ pub'[x] = pub[x]
                               /\ row'[x] = row[x] \/ row[x] = "ready-to-land"
      BY <2>1, <2>3 DEF StaleRow, StaleActor, JobQueueTypeOK, Superseded
    <3> QED  BY <3>1, <3>2, <3>3 DEF Attached
  <2> QED  BY <2>2, <2>3
<1>5. ASSUME NEW j \in Job, Machine(j) PROVE Attached'
  <2>1. spent'["stale"] = spent["stale"]
    BY <1>5 DEF Machine, Publishing, Prepared, WorkEnds, AbortEnds, DiscardEnds,
       PublishParks, PublishLocks, PublishFails, PublishLands, PublishLosesRace,
       PublishCompletes, PublishThrows, Spend, JobQueueTypeOK
  <2>2. \A x \in Job \ {j} : /\ actor'[x] = actor[x] /\ row'[x] = row[x] /\ pub'[x] = pub[x]
    BY <1>5 DEF Machine, Publishing, Prepared, WorkEnds, AbortEnds, DiscardEnds,
       PublishParks, PublishLocks, PublishFails, PublishLands, PublishLosesRace,
       PublishCompletes, PublishThrows, Settles, Ends, JobQueueTypeOK, rowVars, actorVars
  <2>3. CASE Prepared(j) \/ WorkEnds(j) \/ AbortEnds(j) \/ DiscardEnds(j)
    <3>1. /\ actor[j] \in {"working", "aborting", "discarding"}
          /\ actor'[j] \in {"publishing", "finished"}
          /\ actor'[j] = "publishing" => row'[j] = row[j]
          /\ pub'[j] # "idle" => pub'[j] = pub[j] \/ actor'[j] = "publishing"
      BY <2>3 DEF Prepared, WorkEnds, AbortEnds, DiscardEnds, Ends, JobQueueTypeOK, rowVars
    <3> QED  BY <2>1, <2>2, <3>1 DEF Attached
  <2>4. CASE PublishLocks(j) \/ PublishLands(j)
    <3>1. UNCHANGED <<row, actor>> /\ pub[j] # "idle"
      BY <2>4 DEF PublishLocks, PublishLands, rowVars, actorVars
    <3> QED  BY <2>1, <2>2, <3>1 DEF Attached
  <2>5. CASE PublishParks(j) \/ PublishFails(j) \/ PublishLosesRace(j) \/ PublishCompletes(j)
             \/ PublishThrows(j)
    <3>1. /\ pub'[j] = "idle"
          /\ actor'[j] \in {actor[j], "working", "aborting", "finished"}
          /\ row'[j] = row[j] \/ actor'[j] = "finished"
          /\ actor'[j] \notin {"none", "finished"} => actor[j] \notin {"none", "finished"}
      BY <2>5 DEF PublishParks, PublishFails, PublishLosesRace, PublishCompletes,
         PublishThrows, Settles, Ends, JobQueueTypeOK
    <3> QED  BY <2>1, <2>2, <3>1 DEF Attached
  <2> QED  BY <1>5, <2>3, <2>4, <2>5 DEF Machine, Publishing
<1>6. ASSUME NEW j \in Job, Abort(j) PROVE Attached'
  <2>1. /\ UNCHANGED <<pub, spent>>
        /\ \A x \in Job \ {j} : actor'[x] = actor[x] /\ row'[x] = row[x]
        /\ \/ actor'[j] = actor[j] /\ row'[j] = row[j]
           \/ actor'[j] = "finished" /\ actor[j] = "working"
           \/ actor'[j] = "aborting" /\ row'[j] = row[j] /\ row[j] = "running"
              /\ actor[j] \in {"working", "discarding"}
    BY <1>6 DEF Abort, Ends, JobQueueTypeOK
  <2> QED  BY <2>1 DEF Attached
<1>7. ASSUME Restart PROVE Attached'
  BY <1>7 DEF Restart, Live, Attached
<1>8. ASSUME NEW d \in pend, DeletionEnds(d) PROVE Attached'
  <2>1. /\ UNCHANGED <<actor, pub>> /\ spent'["stale"] = spent["stale"]
        /\ \A x \in Job : row'[x] = row[x] \/ row[x] # "running"
    BY <1>8 DEF DeletionEnds, Spend, Closings, Deletions, JobQueueTypeOK, actorVars
  <2> QED  BY <2>1 DEF Attached
<1>9. ASSUME Requests PROVE Attached'
  <2>1. ASSUME NEW q \in Request, LandChecked(q) \/ LandRefused(q) PROVE Attached'
    BY <1>1, <1>3, <2>1 DEF LandChecked, LandRefused, rowVars, actorVars
  <2>2. ASSUME NEW q \in Request, NEW j \in Job, Land(q, j) PROVE Attached'
    BY <1>4, <2>2 DEF Land
  <2>3. ASSUME NEW j \in Job, Start(j) \/ Discard(j) \/ Abort(j) PROVE Attached'
    BY <1>4, <1>6, <2>3 DEF Start, Discard
  <2> QED  BY <1>3, <1>9, <2>1, <2>2, <2>3 DEF Requests, DispatchRefused
<1>10. ASSUME TargetMoves \/ LaneBegins \/ LaneEnds \/ ForceRelease \/ Started
              \/ \E j \in Job : BusyEnds(j) \/ RefVanishes(j) \/ Collect(j)
       PROVE  Attached'
  <2>1. Same
    BY <1>10 DEF TargetMoves, LaneBegins, LaneEnds, ForceRelease, Started, BusyEnds,
       RefVanishes, Collect, Spend, rowVars, actorVars, JobQueueTypeOK
  <2> QED  BY <1>1, <2>1
<1>11. ASSUME UNCHANGED vars PROVE Attached'
  BY <1>1, <1>11 DEF vars, rowVars, actorVars
<1> QED
  BY <1>5, <1>7, <1>8, <1>9, <1>10, <1>11 DEF JobQueueNext, Surroundings, Startup

LEMMA AttachedInvariant == JobQueueSpec => [](OfferInv /\ Attached)
<1>1. JobQueueInit => Attached
  BY DEF JobQueueInit, Attached
<1>2. OfferInv /\ Attached /\ [JobQueueNext]_vars => Attached'
  BY AttachedStep
<1> QED  BY <1>1, <1>2, OfferInvariant, PTL DEF JobQueueSpec

(***************************************************************************)
(* DiscardedNeverLands holds but for two windows: a land dispatched for an *)
(* offer withdrawn since the route checked it, and a publish left behind   *)
(* by a job given up as stale.  No other race of publishes, deletions,     *)
(* aborts and restarts puts a withdrawn candidate on the target.           *)
(***************************************************************************)
THEOREM DiscardedLandsOnlyIfLeftBehind ==
    JobQueueSpec =>
        [][\A j \in Job : pub[j] = "locked" /\ pub'[j] = "landed"
                          /\ row[refOf[j]] = "discarded"
                              => j \in overtaken \/ spent["stale"] # 0]_vars
<1>1. OfferInv /\ Attached =>
        \A j \in Job : pub[j] = "locked" /\ row[refOf[j]] = "discarded"
                           => j \in overtaken \/ spent["stale"] # 0
  <2> SUFFICES ASSUME OfferInv, Attached, NEW j \in Job, pub[j] = "locked",
                      spent["stale"] = 0, j \notin overtaken
               PROVE  row[refOf[j]] # "discarded"
    OBVIOUS
  <2>1. row[j] = "running" /\ actor[j] = "publishing"
    BY DEF Attached
  <2>2. kind[j] \in {"merge", "land"} /\ j = Current
    BY <2>1, StagesAre DEF OfferInv, OfferParts, JobFacts
  <2>3. CASE kind[j] = "merge"
    BY <2>1, <2>3 DEF OfferInv, OfferParts, JobFacts
  <2>4. CASE kind[j] = "land"
    BY <2>1, <2>2, <2>4 DEF OfferInv, OfferParts, Standing, Stands
  <2> QED  BY <2>2, <2>3, <2>4
<1>2. OfferInv /\ Attached /\ [JobQueueNext]_vars =>
        [\A j \in Job : pub[j] = "locked" /\ pub'[j] = "landed"
                        /\ row[refOf[j]] = "discarded"
                            => j \in overtaken \/ spent["stale"] # 0]_vars
  BY <1>1
<1> QED  BY <1>2, AttachedInvariant, PTL DEF JobQueueSpec

\* What machines that have ended or been stopped leave at work.
LeftBehind == busy \cup {j \in Job : actor[j] = "finished" /\ pub[j] = "landed"}

(***************************************************************************)
(* WorktreeSerialized holds but for what is left behind: until the         *)
(* operator forces the lock, two jobs are in the worktree only when one of *)
(* them is a git command that outlived an abort, a recovery or a crash, or *)
(* a publish that outlived its machine.                                    *)
(***************************************************************************)
THEOREM WorktreeSharedOnlyWithLeftovers ==
    JobQueueSpec =>
        [](spent["force"] = 0 =>
              \A i, j \in Job \ LeftBehind : InWorktree(i) /\ InWorktree(j) => i = j)
<1>1. OfferInv =>
        (spent["force"] = 0 =>
            \A i, j \in Job \ LeftBehind : InWorktree(i) /\ InWorktree(j) => i = j)
  <2> SUFFICES ASSUME OfferInv, spent["force"] = 0,
                      NEW i \in Job \ LeftBehind, NEW j \in Job \ LeftBehind,
                      InWorktree(i), InWorktree(j)
               PROVE  i = j
    OBVIOUS
  <2>1. actor[i] \notin {"none", "finished"} /\ actor[j] \notin {"none", "finished"}
    BY DEF InWorktree, LeftBehind, OfferInv, OfferParts, JobFacts
  <2> QED  BY <2>1 DEF OfferInv, JobQueueInv, Locked
<1> QED  BY <1>1, OfferInvariant, PTL
=============================================================================
