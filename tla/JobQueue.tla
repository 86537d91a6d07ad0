------------------------------ MODULE JobQueue ------------------------------
(***************************************************************************)
(* The background jobs of one session (src/src/lib/jobs): one merge,       *)
(* commit or rebase at a time, run by a state machine under the session's  *)
(* lock.  A merge that cannot publish at once parks its prepared commit    *)
(* under a ref and offers it; the operator lands or discards it with a     *)
(* later job, or any other job of the session supersedes it.               *)
(*                                                                         *)
(* A candidate is named by the merge job that prepared it, as its ref is.  *)
(* Other sessions appear only as the target branch moving.  Time is        *)
(* abstract: a running job may be found stale at any dispatch (MaxStale    *)
(* times).  One server process works on the database.  Rows and their      *)
(* in-memory jobs are one variable: the code writes both in the same tick, *)
(* and a failed write is not modelled; nor is the merge that finds nothing *)
(* to land.                                                                *)
(***************************************************************************)
EXTENDS Integers, FiniteSets

CONSTANTS
    Job,        \* job ids, in the order-free supply dispatch draws from
    Request,    \* land requests that may be in flight together
    None,       \* no job, no holder
    Lane,       \* a workflow lane's git operation, as a holder of the lock
    Kinds,      \* the kinds of job this instance dispatches
    MaxCas,     \* publish attempts of one merge (maxCasAttempts)
    MaxStale,   \* bound: stale recoveries
    MaxForce,   \* bound: locks force-released by the operator
    MaxCrash,   \* bound: crashes of the server
    MaxFault    \* bound: failed deletions and finalizations, vanished refs

ASSUME JobAssumption ==
    /\ None \notin Job /\ Lane \notin Job /\ None # Lane
    /\ MaxCas \in Nat \ {0}
    /\ Kinds \subseteq {"merge", "land", "discard", "commit", "rebase"}

VARIABLES
    up,         \* startup is over: requests are answered
    sweeping,   \* refs the startup sweep has still to look at
    registry,   \* the session's slot of the in-memory job registry
    latest,     \* the newest job row of the session
    row,        \* status of each job's row
    kind,       \* what each job was dispatched as
    refOf,      \* the candidate whose ref the job works on
    actor,      \* where each job's machine is
    stop,       \* jobs whose machine recorded an abort while publishing
    pub,        \* where each job's publish promise is, machine or no machine
    attempt,    \* publish attempts the job's machine has begun
    busy,       \* jobs with a git command still in the worktree after its state
    lock,       \* holder of the session lock
    lane,       \* a lane's git operation is under way
    project,    \* holder of the project lock
    refs,       \* candidates whose parked ref exists
    fresh,      \* candidates prepared on the target's present tip
    landed,     \* candidates the target branch contains
    pend,       \* ref deletions under way that nobody waits for
    req,        \* the candidate job each land request has resolved
    overtaken,  \* lands dispatched for a candidate no longer on offer
    spent       \* how much of each bound is used up

rowVars   == <<latest, row, kind, refOf, overtaken>>
actorVars == <<actor, stop, attempt, busy>>
lockVars  == <<lock, lane, project>>
gitVars   == <<refs, fresh, landed>>
bootVars  == <<up, sweeping>>
vars == <<bootVars, registry, rowVars, actorVars, pub, lockVars, gitVars,
          pend, req, spent>>

Statuses == {"running", "completed", "failed", "conflicts", "ready-to-land",
             "discarded"}
ActorStates == {"none", "working", "publishing", "discarding", "aborting",
                "finished"}
Live == {j \in Job : actor[j] \notin {"none", "finished"}}

Deletions == [candidate : Job, job : Job \cup {None}]

JobQueueTypeOK ==
    /\ up \in BOOLEAN /\ sweeping \subseteq Job
    /\ registry \in Job \cup {None} /\ latest \in Job \cup {None}
    /\ row \in [Job -> Statuses \cup {"absent"}]
    /\ kind \in [Job -> Kinds \cup {"none"}]
    /\ refOf \in [Job -> Job]
    /\ actor \in [Job -> ActorStates]
    /\ pub \in [Job -> {"idle", "checking", "locked", "landed"}]
    /\ attempt \in [Job -> 0 .. MaxCas]
    /\ lock \in Job \cup {None, Lane} /\ lane \in BOOLEAN
    /\ project \in Job \cup {None}
    /\ stop \subseteq Job /\ busy \subseteq Job
    /\ refs \subseteq Job /\ fresh \subseteq Job /\ landed \subseteq Job
    /\ overtaken \subseteq Job
    /\ pend \subseteq Deletions
    /\ req \in [Request -> Job \cup {None}]
    /\ spent \in [{"stale", "force", "crash", "fault"} -> Nat]

JobQueueInit ==
    /\ up = TRUE /\ sweeping = {}
    /\ registry = None /\ latest = None
    /\ row = [j \in Job |-> "absent"]
    /\ kind = [j \in Job |-> "none"]
    /\ refOf = [j \in Job |-> j]
    /\ actor = [j \in Job |-> "none"]
    /\ pub = [j \in Job |-> "idle"]
    /\ attempt = [j \in Job |-> 0]
    /\ lock = None /\ lane = FALSE /\ project = None
    /\ stop = {} /\ busy = {}
    /\ refs = {} /\ fresh = {} /\ landed = {}
    /\ overtaken = {}
    /\ pend = {}
    /\ req = [q \in Request |-> None]
    /\ spent = [b \in {"stale", "force", "crash", "fault"} |-> 0]

Spend(bound, max) ==
    /\ spent[bound] < max
    /\ spent' = [spent EXCEPT ![bound] = @ + 1]

-----------------------------------------------------------------------------
(* Dispatch: stale recovery, the lock, supersession and registration, all  *)
(* in one tick of the event loop.                                          *)

CurrentFallsThrough ==                                          \* mutant
    LET ready == {j \in Job : row[j] = "ready-to-land"}
    IN  IF registry # None THEN registry
        ELSE IF ready # {} THEN CHOOSE j \in ready : TRUE ELSE latest

\* The job whose decision stands: the registry's, or after a restart the
\* newest row's; it is an offer only while it is ready to land.
Current == IF registry # None THEN registry ELSE latest
OnOffer == {j \in {Current} \ {None} : row[j] = "ready-to-land"}

Idle == registry = None \/ row[registry] # "running"

\* The jobs this dispatch may close out before it asks for the lock.
Recoverable == IF Idle THEN {{}}
               ELSE IF spent["stale"] < MaxStale THEN {{registry}} ELSE {}

\* An ABORT that leaves the machine where it was makes the teardown stop it,
\* and a commit's machine ends on the spot: either way it completes at once.
EndsAtOnce(j) == kind[j] \in {"commit", "rebase"}
                 \/ actor[j] \in {"publishing", "aborting"}

StaleRow(stale) == [j \in Job |-> IF j \in stale THEN "failed" ELSE row[j]]
StaleActor(stale) == [j \in Job |-> IF j \notin stale THEN actor[j]
                                    ELSE IF EndsAtOnce(j) THEN "finished"
                                    ELSE "aborting"]
StaleLockAtOnce(stale) == IF stale # {} THEN None ELSE lock     \* mutant

\* Releasing the lock deletes its entry, whoever holds it by then.
StaleLock(stale) == IF \E j \in stale : EndsAtOnce(j) THEN None ELSE lock

\* Git commands and ref deletions that outlive the state they were begun in.
LeftBusy(js) == {j \in js : actor[j] \in {"working", "aborting"}}
LeftDeleting(js) == {[candidate |-> refOf[j], job |-> None] :
                        j \in {i \in js : actor[i] = "discarding"}}

Recover(stale) ==
    /\ stale \in Recoverable
    /\ busy' = busy \cup LeftBusy(stale)
    /\ spent' = [spent EXCEPT !["stale"] = @ + Cardinality(stale)]

RefusedAfterSuperseding ==                                      \* mutant
    /\ up /\ lock # None
    /\ row' = [j \in Job |-> IF j \in OnOffer THEN "discarded" ELSE row[j]]
    /\ UNCHANGED <<bootVars, registry, latest, kind, refOf, overtaken,
                   actorVars, pub, lockVars, gitVars, pend, spent>>

\* The lock refuses the dispatch: nothing is replaced.
Refused ==
    \E stale \in Recoverable :
        /\ up
        /\ StaleLock(stale) # None
        /\ Recover(stale)
        /\ registry' = IF stale = {} THEN registry ELSE None
        /\ row' = StaleRow(stale)
        /\ actor' = StaleActor(stale)
        /\ pend' = pend \cup LeftDeleting(stale)
        /\ UNCHANGED <<bootVars, latest, kind, refOf, overtaken, stop,
                       attempt, pub, lockVars, gitVars>>

DispatchRefused == Refused /\ UNCHANGED req

\* Offers the new job does not continue.  The registry's is withdrawn on the
\* spot; the rows' when their deletion comes back.
Superseded(c) == {j \in {registry} \cap Job :
                    row[j] = "ready-to-land" /\ refOf[j] # c}

RememberedInAnyState(c) ==                                      \* mutant
    {j \in Job : row[j] \notin {"absent", "running"} /\ refOf[j] # c}

Remembered(c) == {j \in Job \ Superseded(c) :
                    row[j] = "ready-to-land" /\ refOf[j] # c}

FirstState(k) == CASE k = "land"    -> "publishing"
                   [] k = "discard" -> "discarding"
                   [] OTHER         -> "working"

Dispatch(j, k, c) ==
    \E stale \in Recoverable :
        /\ up
        /\ row[j] = "absent" /\ k \in Kinds
        /\ StaleLock(stale) = None
        /\ Recover(stale)
        /\ pend' = pend \cup LeftDeleting(stale)
                \cup {[candidate |-> refOf[x], job |-> None] : x \in Superseded(c)}
                \cup {[candidate |-> refOf[x], job |-> x] : x \in Remembered(c)}
        /\ row' = [x \in Job |-> IF x = j THEN "running"
                                 ELSE IF x \in Superseded(c) THEN "discarded"
                                 ELSE StaleRow(stale)[x]]
        /\ registry' = j /\ latest' = j /\ lock' = j
        /\ kind' = [kind EXCEPT ![j] = k]
        /\ refOf' = [refOf EXCEPT ![j] = c]
        /\ actor' = [StaleActor(stale) EXCEPT ![j] = FirstState(k)]
        /\ attempt' = [attempt EXCEPT ![j] = 1]
        /\ pub' = [pub EXCEPT ![j] = IF k = "land" THEN "checking" ELSE @]
        /\ UNCHANGED <<bootVars, stop, lane, project, gitVars>>

\* A new merge, commit or rebase job.
Start(j) ==
    /\ \E k \in {"merge", "commit", "rebase"} : Dispatch(j, k, j)
    /\ UNCHANGED <<overtaken, req>>

\* The land route's check: the offer stands and its ref is still there.
LandChecked(q) ==
    /\ up /\ req[q] = None /\ "land" \in Kinds
    /\ \E j \in OnOffer : refOf[j] \in refs /\ req' = [req EXCEPT ![q] = j]
    /\ UNCHANGED <<bootVars, registry, rowVars, actorVars, pub, lockVars,
                   gitVars, pend, spent>>

\* The land route's dispatch, after it has awaited the merge target.
Land(q, j) ==
    /\ req[q] # None
    /\ Dispatch(j, "land", refOf[req[q]])
    /\ req' = [req EXCEPT ![q] = None]
    /\ overtaken' = IF \E x \in OnOffer \ overtaken : refOf[x] = refOf[req[q]]
                    THEN overtaken ELSE overtaken \cup {j}

\* The route answers 409: a job is running, or the session is busy.
LandRefused(q) ==
    /\ up /\ req[q] # None
    /\ req' = [req EXCEPT ![q] = None]
    /\ \/ Refused
       \/ /\ ~Idle
          /\ UNCHANGED <<bootVars, registry, rowVars, actorVars, pub, lockVars,
                         gitVars, pend, spent>>

\* The discard route does not ask whether the ref is still there.
Discard(j) ==
    /\ \E x \in OnOffer : Dispatch(j, "discard", refOf[x])
    /\ UNCHANGED <<overtaken, req>>
-----------------------------------------------------------------------------
(* The machines.                                                           *)

EndsHoldingLock(j, verdict) ==                                  \* mutant
    /\ actor' = [actor EXCEPT ![j] = "finished"]
    /\ row' = IF row[j] = "running" THEN [row EXCEPT ![j] = verdict] ELSE row
    /\ UNCHANGED lock

\* A machine's end: its verdict is recorded unless the host has already
\* closed the job out, and the lock's entry is deleted.
Ends(j, verdict) ==
    /\ actor' = [actor EXCEPT ![j] = "finished"]
    /\ row' = IF row[j] = "running" THEN [row EXCEPT ![j] = verdict] ELSE row
    /\ lock' = None

\* The candidate is prepared on the target's tip and its ref written.
Prepared(j) ==
    /\ actor[j] = "working" /\ kind[j] = "merge"
    /\ refs' = refs \cup {j} /\ fresh' = fresh \cup {j}
    /\ actor' = [actor EXCEPT ![j] = "publishing"]
    /\ pub' = [pub EXCEPT ![j] = "checking"]
    /\ UNCHANGED <<bootVars, registry, rowVars, stop, attempt, busy, lockVars,
                   landed, pend, req, spent>>

WorkVerdicts(k) == IF k = "merge" THEN {"failed", "conflicts"}
                   ELSE {"failed", "completed"}

WorkEnds(j) ==
    /\ actor[j] = "working"
    /\ \E verdict \in WorkVerdicts(kind[j]) : Ends(j, verdict)
    /\ UNCHANGED <<bootVars, registry, latest, kind, refOf, overtaken,
                   stop, attempt, busy, pub, lane, project, gitVars, pend, req,
                   spent>>

\* The operator's stop.  A publishing machine only records it; a rebase is
\* not offered one; an aborting machine starts its cleanup over.
Abort(j) ==
    /\ up /\ registry = j /\ row[j] = "running"
    /\ \/ /\ actor[j] = "publishing"
          /\ stop' = stop \cup {j}
          /\ UNCHANGED <<row, lock, actor>>
       \/ /\ actor[j] = "working" /\ kind[j] = "commit"
          /\ Ends(j, "failed")
          /\ UNCHANGED stop
       \/ /\ actor[j] \in {"working", "discarding"}
          /\ kind[j] \notin {"commit", "rebase"}
          /\ actor' = [actor EXCEPT ![j] = "aborting"]
          /\ UNCHANGED <<row, lock, stop>>
    /\ busy' = busy \cup LeftBusy({j})
    /\ pend' = pend \cup LeftDeleting({j})
    /\ UNCHANGED <<bootVars, registry, latest, kind, refOf, overtaken,
                   attempt, pub, lane, project, gitVars, req, spent>>

AbortEnds(j) ==
    /\ actor[j] = "aborting"
    /\ Ends(j, "failed")
    /\ UNCHANGED <<bootVars, registry, latest, kind, refOf, overtaken,
                   stop, attempt, busy, pub, lane, project, gitVars, pend, req,
                   spent>>

\* Git refuses to delete a ref that is not there when told what it held.
DiscardEnds(j) ==
    /\ actor[j] = "discarding"
    /\ Ends(j, IF refOf[j] \in refs THEN "discarded" ELSE "failed")
    /\ refs' = refs \ {refOf[j]}
    /\ UNCHANGED <<bootVars, registry, latest, kind, refOf, overtaken,
                   stop, attempt, busy, pub, lane, project, fresh, landed, pend,
                   req, spent>>

\* A git command begun before an abort ends; it may have been the one that
\* writes a prepared candidate's ref.
BusyEnds(j) ==
    /\ j \in busy
    /\ busy' = busy \ {j}
    /\ refs' \in {refs} \cup {refs \cup {x} : x \in {j} \cap {i \in Job : kind[i] = "merge"}}
    /\ UNCHANGED <<bootVars, registry, rowVars, actor, stop, attempt, pub,
                   lockVars, fresh, landed, pend, req, spent>>
-----------------------------------------------------------------------------
(* The publish promise.  It runs to its end even when its machine is gone.  *)

RetriesLeft(j) == kind[j] = "merge" /\ attempt[j] < MaxCas

SettlesUnbounded(j, outcome) ==                                 \* mutant
    /\ pub' = [pub EXCEPT ![j] = "idle"]
    /\ project' = IF project = j THEN None ELSE project
    /\ CASE actor[j] # "publishing" ->
                UNCHANGED <<actor, row, lock, attempt>>
         [] actor[j] = "publishing" /\ outcome = "cas-lost" ->
                /\ actor' = [actor EXCEPT ![j] = "working"]
                /\ UNCHANGED <<row, lock, attempt>>
         [] OTHER -> Ends(j, outcome) /\ UNCHANGED attempt

SettlesCasLossCompleted(j, outcome) ==                          \* mutant
    /\ pub' = [pub EXCEPT ![j] = "idle"]
    /\ project' = IF project = j THEN None ELSE project
    /\ IF actor[j] # "publishing" THEN UNCHANGED <<actor, row, lock>>
       ELSE Ends(j, IF outcome = "cas-lost" THEN "completed" ELSE outcome)
    /\ UNCHANGED attempt

SettlesOneTooMany(j, outcome) ==                                \* mutant
    /\ pub' = [pub EXCEPT ![j] = "idle"]
    /\ project' = IF project = j THEN None ELSE project
    /\ actor' = [actor EXCEPT ![j] = "working"]
    /\ attempt' = [attempt EXCEPT ![j] = @ + 1]
    /\ UNCHANGED <<row, lock>>

\* What a machine still in its publishing state does with the outcome.
Settles(j, outcome) ==
    /\ pub' = [pub EXCEPT ![j] = "idle"]
    /\ project' = IF project = j THEN None ELSE project
    /\ \/ /\ actor[j] # "publishing"
          /\ UNCHANGED <<actor, row, lock, attempt>>
       \/ /\ actor[j] = "publishing" /\ outcome = "cas-lost" /\ j \in stop
          /\ actor' = [actor EXCEPT ![j] = "aborting"]
          /\ UNCHANGED <<row, lock, attempt>>
       \/ /\ actor[j] = "publishing" /\ outcome = "cas-lost" /\ j \notin stop
          /\ RetriesLeft(j)
          /\ actor' = [actor EXCEPT ![j] = "working"]
          /\ attempt' = [attempt EXCEPT ![j] = @ + 1]
          /\ UNCHANGED <<row, lock>>
       \/ /\ actor[j] = "publishing"
          /\ outcome = "cas-lost" => j \notin stop /\ ~RetriesLeft(j)
          /\ Ends(j, IF outcome = "cas-lost" THEN "failed" ELSE outcome)
          /\ UNCHANGED attempt

\* The target's checkout has changes of its own.
PublishParks(j) ==
    /\ pub[j] \in {"checking", "locked"}
    /\ Settles(j, "ready-to-land")
    /\ UNCHANGED <<bootVars, registry, latest, kind, refOf, overtaken,
                   stop, busy, lane, gitVars, pend, req, spent>>

PublishLocks(j) ==
    /\ pub[j] = "checking" /\ project = None
    /\ project' = j
    /\ pub' = [pub EXCEPT ![j] = "locked"]
    /\ UNCHANGED <<bootVars, registry, rowVars, actorVars, lock, lane, gitVars,
                   pend, req, spent>>

\* The project lock's wait runs out, a run or background work forbids the
\* merge, or git rejects the update on an unmoved tip.
PublishFails(j) ==
    /\ pub[j] \in {"checking", "locked"}
    /\ Settles(j, "failed")
    /\ UNCHANGED <<bootVars, registry, latest, kind, refOf, overtaken,
                   stop, busy, lane, gitVars, pend, req, spent>>

\* The compare-and-set of the target branch.  Whether the ref still stands is
\* not asked again.
PublishLands(j) ==
    /\ pub[j] = "locked" /\ refOf[j] \in fresh
    /\ landed' = landed \cup {refOf[j]}
    /\ fresh' = {}
    /\ pub' = [pub EXCEPT ![j] = "landed"]
    /\ UNCHANGED <<bootVars, registry, rowVars, actorVars, lockVars, refs, pend,
                   req, spent>>

PublishLosesRace(j) ==
    /\ pub[j] = "locked" /\ refOf[j] \notin fresh
    /\ Settles(j, "cas-lost")
    /\ UNCHANGED <<bootVars, registry, latest, kind, refOf, overtaken,
                   stop, busy, lane, gitVars, pend, req, spent>>

\* The ref is deleted, the merge recorded in the session's worktree and the
\* session finished.  A failed deletion is only logged.
PublishCompletes(j) ==
    /\ pub[j] = "landed"
    /\ Settles(j, "completed")
    /\ \/ refs' = refs \ {refOf[j]} /\ UNCHANGED spent
       \/ refs' = refs /\ Spend("fault", MaxFault)
    /\ UNCHANGED <<bootVars, registry, latest, kind, refOf, overtaken,
                   stop, busy, lane, fresh, landed, pend, req>>

\* Finishing the session throws, after the target has moved.
PublishThrows(j) ==
    /\ pub[j] = "landed"
    /\ Spend("fault", MaxFault)
    /\ Settles(j, "failed")
    /\ refs' = refs \ {refOf[j]}
    /\ UNCHANGED <<bootVars, registry, latest, kind, refOf, overtaken,
                   stop, busy, lane, fresh, landed, pend, req>>
-----------------------------------------------------------------------------
(* Ref deletions nobody waits for, and the world outside the queue.        *)

\* With job None the row is already closed; otherwise the row is closed now.
DeletionEnds(d) ==
    /\ d \in pend /\ up
    /\ pend' = pend \ {d}
    /\ \E deleted \in BOOLEAN :
        /\ IF deleted THEN d.candidate \in refs /\ UNCHANGED spent
           ELSE IF d.candidate \in refs THEN Spend("fault", MaxFault)
           ELSE UNCHANGED spent
        /\ refs' = IF deleted THEN refs \ {d.candidate} ELSE refs
        /\ row' = IF d.job = None THEN row ELSE [row EXCEPT ![d.job] = "discarded"]
    /\ UNCHANGED <<bootVars, registry, latest, kind, refOf, overtaken, actorVars,
                   pub, lockVars, fresh, landed, req>>

\* Another session lands, or somebody commits to the target branch.
TargetMoves ==
    /\ up /\ fresh # {}
    /\ fresh' = {}
    /\ UNCHANGED <<bootVars, registry, rowVars, actorVars, pub, lockVars, refs,
                   landed, pend, req, spent>>

\* Somebody deletes a parked ref with git.
RefVanishes(c) ==
    /\ up /\ c \in refs
    /\ Spend("fault", MaxFault)
    /\ refs' = refs \ {c}
    /\ UNCHANGED <<bootVars, registry, rowVars, actorVars, pub, lockVars, fresh,
                   landed, pend, req>>

LaneBegins ==
    /\ up /\ ~lane /\ lock = None
    /\ lane' = TRUE /\ lock' = Lane
    /\ UNCHANGED <<bootVars, registry, rowVars, actorVars, pub, project, gitVars,
                   pend, req, spent>>

LaneEnds ==
    /\ lane
    /\ lane' = FALSE /\ lock' = None
    /\ UNCHANGED <<bootVars, registry, rowVars, actorVars, pub, project, gitVars,
                   pend, req, spent>>

ForceRelease ==
    /\ up /\ lock # None
    /\ lock' = None
    /\ Spend("force", MaxForce)
    /\ UNCHANGED <<bootVars, registry, rowVars, actorVars, pub, lane, project,
                   gitVars, pend, req>>
-----------------------------------------------------------------------------
(* Crash and startup.                                                      *)

\* Everything in memory goes.  Startup fails the rows left running, whose owner
\* process is gone (the code spares those of other servers that are alive),
\* before the sweep reads the refs and before the first request is answered.
Restart ==
    /\ Spend("crash", MaxCrash)
    /\ registry' = None
    /\ row' = [j \in Job |-> IF row[j] = "running" THEN "failed" ELSE row[j]]
    /\ actor' = [j \in Job |-> IF j \in Live THEN "finished" ELSE actor[j]]
    /\ pub' = [j \in Job |-> "idle"]
    /\ busy' = busy \cup LeftBusy(Job)
    /\ lock' = None /\ lane' = FALSE /\ project' = None
    /\ pend' = {} /\ req' = [q \in Request |-> None]
    /\ up' = FALSE /\ sweeping' = refs
    /\ UNCHANGED <<latest, kind, refOf, overtaken, stop, attempt,
                   gitVars>>

HoldsRunning(c) == row[c] = "running"                            \* mutant

\* Rows that keep the sweep from deleting the ref of the same job.
Holds(c) == row[c] \in {"ready-to-land", "running"}

Collect(c) ==
    /\ ~up /\ c \in sweeping
    /\ sweeping' = sweeping \ {c}
    /\ refs' = IF Holds(c) THEN refs ELSE refs \ {c}
    /\ UNCHANGED <<up, registry, rowVars, actorVars, pub, lockVars, fresh, landed,
                   pend, req, spent>>

Started ==
    /\ ~up /\ sweeping = {}
    /\ up' = TRUE
    /\ UNCHANGED <<sweeping, registry, rowVars, actorVars, pub, lockVars, gitVars, pend,
                   req, spent>>
-----------------------------------------------------------------------------
Publishing(j) == PublishParks(j) \/ PublishLocks(j) \/ PublishFails(j)
                 \/ PublishLands(j) \/ PublishLosesRace(j) \/ PublishCompletes(j)
                 \/ PublishThrows(j)

Machine(j) == Prepared(j) \/ WorkEnds(j) \/ AbortEnds(j) \/ DiscardEnds(j)
              \/ Publishing(j)

Requests == \/ DispatchRefused
            \/ \E j \in Job : Start(j) \/ Discard(j) \/ Abort(j)
            \/ \E q \in Request : LandChecked(q) \/ LandRefused(q)
                                  \/ \E j \in Job : Land(q, j)

Surroundings == \/ TargetMoves \/ LaneBegins \/ LaneEnds \/ ForceRelease
                \/ \E j \in Job : BusyEnds(j) \/ RefVanishes(j)
                \/ \E d \in pend : DeletionEnds(d)

Startup == Restart \/ Started \/ \E c \in Job : Collect(c)

JobQueueNext == \/ Requests \/ Surroundings \/ Startup
                \/ \E j \in Job : Machine(j)

JobQueueSpec == JobQueueInit /\ [][JobQueueNext]_vars

\* The git commands, agents and waits inside a machine's states and inside a
\* lane's operation return.
JobQueueFairSpec ==
    /\ JobQueueSpec
    /\ \A j \in Job : WF_vars(Machine(j))
    /\ WF_vars(LaneEnds)
-----------------------------------------------------------------------------
(* Properties.                                                             *)

\* The lock covers the job: as long as nobody forces it open, every machine
\* that has not ended holds the session lock (prompt/single-flight.ts:9-10),
\* across aborts, stale recoveries, retries of the publish and restarts.
LiveMachineHoldsLock ==
    spent["force"] = 0 => \A j \in Live : lock = j

\* A job's verdict is final: no machine, publish or deletion that outlives it
\* changes what the operator was shown (jobs/queue.ts:416-421).  Only an offer
\* may still end, and then as a discard.
VerdictIsFinal ==
    [][\A j \in Job :
          /\ row[j] \in {"completed", "failed", "conflicts", "discarded"}
                => row'[j] = row[j]
          /\ row[j] = "ready-to-land" => row'[j] \in {row[j], "discarded"}]_vars

\* A job is reported completed only if the target branch contains what it
\* delivered, whatever races, crashes and aborts its publish met.
CompletedHasLanded ==
    \A j \in Job : kind[j] \in {"merge", "land"} /\ row[j] = "completed"
                       => refOf[j] \in landed

\* The landable offers: those that go back to a prepared merge by lands that
\* were each dispatched while their candidate was still on offer.
Offers == OnOffer \ overtaken

\* A candidate that has landed is not offered again, by the registry or by
\* the rows after a restart (git/route-handlers.ts:241-247).
LandedIsNotOffered == \A j \in Offers : refOf[j] \notin landed

\* What is offered can be landed: the offered candidate's ref exists, whatever
\* deletions are in flight and whatever the startup sweep has collected, as
\* long as no ref is deleted from outside and no deletion fails.
OfferHasRef ==
    spent["fault"] = 0 => \A j \in Offers : refOf[j] \in refs

\* An offer ends only with the dispatch of another job: a dispatch the lock
\* refuses, a crash or a restart leaves it landable (jobs/queue.ts:677-679).
OfferEndsByDispatch ==
    [][\A j \in OnOffer : j \in OnOffer' \/ latest' # latest]_vars

\* Two publishes of one candidate, one of them left behind by a machine that
\* was stopped, move the target once (jobs/machine-host.ts:122-138).
LandsOnce ==
    [][\A j \in Job : pub[j] = "locked" /\ pub'[j] = "landed"
                          => refOf[j] \notin landed]_vars

\* No lock is left behind: whoever the session lock names is still at work and
\* will let go of it, through aborts, stale recoveries, force-releases and
\* publishes that outlive their machines (prompt/single-flight.ts:134-138); a
\* machine that waits for its publish waits for one that is under way.
NoLockLeftBehind ==
    /\ lock = Lane => lane
    /\ lock \in Job => /\ lock \in Live
                       /\ actor[lock] = "publishing" => pub[lock] # "idle"

\* Every job, and every lane operation, lets go of the session in the end:
\* retries of a publish that keeps losing the target to others are bounded,
\* aborts and discards end.
SessionIsFreed == \A h \in Job \cup {Lane} : lock = h ~> lock # h

-----------------------------------------------------------------------------
(* Statements of the code's own comments that its runs contradict.         *)

\* prompt/single-flight.ts:9: "Session locks serialize git-mutating background
\* jobs (merge / commit / resolve-conflicts) within a session": no two jobs
\* have git at work in the session's worktree at a time.
InWorktree(j) == \/ actor[j] \in {"working", "aborting"} \/ j \in busy
                 \/ pub[j] = "landed"
WorktreeSerialized ==
    \A i, j \in Job : InWorktree(i) /\ InWorktree(j) => i = j

\* git/route-handlers.ts:250: "Landing a commit that is gone is impossible, so
\* land requires the ref": a candidate withdrawn or discarded before its
\* publish took the project lock is not landed.
DiscardedNeverLands ==
    [][\A j \in Job : pub[j] = "locked" /\ pub'[j] = "landed"
                          => row[refOf[j]] # "discarded"]_vars
=============================================================================
