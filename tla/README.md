# Command Center: a TLA+ model of its concurrent core

Command Center is a Next.js server that runs coding agents, background git jobs and
validation commands on one machine. This directory models the parts of it whose
correctness depends on the order in which asynchronous steps, process deaths and
restarts happen. Paths below are relative to `src/lib/` unless they say otherwise.

## 1. The system

| part | state | operations | interacts with | hard behaviour |
| --- | --- | --- | --- | --- |
| Validation ledger (`validation/scheduler.ts`, `state-store/validation-runs-repo.ts`) | one durable row per run: status, weight, queue position, start stamp and pid | submit, mark started, release, pump; each one SQLite transaction | called by the service and by recovery | a limit that changes between decisions; FIFO with weights; two releases of one row |
| Validation service (`validation/service.ts`, `lease.ts`, `recovery.ts`, `singleton.ts`) | in memory: owned rows, handles, spawns in flight, parked cancellations, forced verdicts, results, the run of each agent identity | submit, poll (renews the lease), cancel, pump, lease sweep, shutdown, reconcile at start | ledger; process runner; configuration | awaits between reserving, spawning and tracking; sweeps that overlap; crash and restart with live process groups |
| Process runner (`validation/process-runner.ts`) | an OS process group: supervisor behind a start barrier, command, strays | spawn, confirm start, timeout, cancel (SIGTERM, SIGKILL, probe) | service | the supervisor dies before what it started; a group that survives SIGKILL |
| Session and project locks (`prompt/single-flight.ts`) | two in-memory maps | acquire (throws when held), release closure, force release | jobs, merge publication, prompts | a closure that releases by key |
| Job queue and machine host (`jobs/queue.ts`, `jobs/machine-host.ts`, `jobs/repo.ts`) | registry by session, actor handles by job, durable job rows | dispatch, abort, stale recovery, parked-candidate discard, terminal projection, startup recovery | locks, merge machine, parked git refs | a job declared stale while its actor still runs; restart with a parked candidate |
| Merge and commit workflows (`workflows/merge`, `workflows/commit`, `workflows/validation-fix`) | a state machine per job; the session's worktree and branch | classify, commit, merge main, resolve, validate and fix, prepare, publish by compare-and-swap | agents, validation service, locks, target branch | agents that commit, abort or leave markers; a stop at any state; retries; someone else's merge in the worktree |
| Conversation delivery (`conversations/message-queue-*.ts`, `prompt/queue*.ts`, `conversation-core/executor.ts`, `interactive-turns.ts`) | durable: queue rows with status, attempt and count; a mailbox; the turn's attempt; the owner. In memory: live dispatches, drains, the runner, leases, releases still owed | enqueue, cancel, review; drain, claim, hand over; deliver into a running turn; run a turn; recover at boot | agent back ends, supervision, collaborations, maintenance leases | a claim, its delivery and its settlement are separate steps, and any of them may fail, race a turn's end or die with the server |
| Other conversation state (`conversation-core/`) | records, custody, checkpoints, seats, tasks | resume, rewind, fork, retire | turn engine | custody over a restart |
| Supervision and runs (`supervision/`, `runs/`, `workspace/`) | run schedule, lanes, worktrees | launch, amend, land | jobs, git | several lanes publishing |
| Dev servers (`dev-server/`) | registry, ports | start, stop, reconcile | OS | port ownership after restart |
| Events and subscriptions (`events/`, `subscriptions/`, `notifications/`) | broadcast buffers | publish, reconnect | every part | lost and repeated events |
| State store (`state-store/`) | SQLite | write queue, migrations | every part | serialised writes |
| Tickets, specs, memory, notepads, voice, UI, CLI | documents | edit | state store | little concurrency |

What makes each part correct is stated as properties in the modules; what can go wrong
is listed, line by line, under `hazards` in `PROJECT.json`.

## 2. Validation

### Modules

`ValidationScheduler` is the ledger. A row is `absent`, `queued`, `running` or terminal.
Every method of the scheduler is one transaction, so one action. The limit is an
argument of each decision, because the code reads the configuration anew for each; all
properties therefore hold under a limit that moves arbitrarily. The two refusals insert
no row and are no action. `Pump` describes the head-first loop by its result: the maximal
prefix of the queue (`HeadSets`) whose weights fit.

`ValidationService` is the process around it. An action is the code between two awaits.

| code | actions |
| --- | --- |
| `submit`, `submitSystem` after their last await | `SubmitAndSpawn`, `SubmitAndWait` |
| `spawnAdmitted` | `SpawnFails`, `SpawnSucceeds`, `SpawnSettles` (the `finally`, and the pump's loop going on) |
| `pumpQueue` | `pumps` counts the calls awaiting the configuration; `PumpQueue`, `PumpGivesUp` |
| `cancelRun` | `CancelRun` = `ParkCancel`, `CancelTracked` or `CancelUnspawned`; `ResumeCancel` after the join |
| `finalizeWith` | `Finalize`, `FinalizeIfActive` |
| lease manager | `LeaseExpires`, `Renew`, `SweepBegins`, `SweepVisits`, `SweepResumes`; one sweep per `Sweeper`, because the timer never waits for the last |
| `shutdown` and its signal hook | `ShutdownBegins`, `ShutdownDrains`, `ShutdownDone` |
| process death, `reconcileValidationLedger` | `Crash`, `CrashBeforeRelease`, `Start`, `RecoverRow`, `LeaveUnverified`, `RecoveryEnds` |
| the process group | `LeaderExits`, `StraysDie`, `GroupKilled`, `BarrierAborts`, `TimesOut`, `GroupDeathObserved` |

The ledger, the leases and the process groups survive a crash; everything else is lost.
A group is `barriered` (supervisor waiting for `go`), `working`, `stray` (supervisor gone,
members left), or `dead`. `Undead` names the runs whose group survives SIGKILL.

`CapacityReservation` is the abstract promise: one line, capacity taken from its front
within the limit of the decision, and a run's weight in use until nothing of the run
executes. `ValidationPromise` maps the whole
service to it, where a live group counts as executing whatever its row says.

A name marked `mutant` next to a definition is a plausible wrong version of it; it is used
nowhere and documents which mistake the properties catch.

### Runs

| run | instance | shows |
| --- | --- | --- |
| `service_spawn` | 3 runs, weights 1 and 2, limit 2 | the spawn window: FIFO, the budget, reservations with and without a process, no waiter left while capacity is free, parked cancellations. Three runs are the least for a pump that admits two waiters and spawns them one after the other |
| `service_restart` | 2 runs, one undead, limits 1 and 2, 2 crashes, shutdown, 1 failing configuration read | recovery and shutdown, and that the whole service implements `CapacityReservation`. Two crashes cover a crash during recovery and a crash of a recovered server |
| `service_live` | an agent's run and a user's run, weight 2, limits 1 and 2, two sweeps, fair | every accepted run gets a verdict when the timeouts fire; without them the sweeps alone settle a dead client's run, spare one whose lease was renewed, and verdicts stay. Two sweeps are the least that overlap; a weight above the lower limit makes retirement occur |
| `service_lost_pump` | 2 runs, 1 failing configuration read, fair, timers | finding: the pump is lost, a waiter is stranded |

Runs are interchangeable in `service_spawn`, where the model values of `Run` are permuted;
the restart run names an undead one and the liveness runs use no symmetry. Deadlock is not checked: a service with every run settled stops.

### Fairness

`Fairness` is weak fairness of what the event loop and the kernel do by themselves:
continuations (`SpawnStep`, `ResumeCancel`, `Pumping`, `SweepStep`, shutdown) and the
signals already sent (`GroupKilled`, `StraysDie`, `GroupDeathObserved`). `TimersFire` is
weak fairness of the run timers: a premise of `TimedRunsSettle`, part of
`TimedServiceSpec`, and absent from `ExpiredRunsReaped`, which is the sweep's own promise.
Nothing is assumed of clients, of commands exiting, or of crashes.

### Proofs

`ValidationScheduler_proofs` proves, for all runs, weights and limits, `LedgerTypeOK`,
`Fifo`, `VerdictIsFinal` and `BudgetBounded`. `Fifo` alone is inductive for releases and pumps but not for
an insertion: a new row must be younger than every row, which needs `MAX(queue_order)` to
exist. `LedgerInv` therefore adds `OrdersBounded`, and `NextOrderIsLast` derives the
position of a new row from it. `BudgetBounded` needs that a sum over a finite set can be
taken in any order. No induction theorem helps there, so the lemmas (`FoldingExists`,
`FoldingUnique`, `SumRemoves`, `SumAgrees`, `SumAdds`) each go by the smallest set for which
they would fail.

`ValidationService_proofs` proves `ServiceTypeOK`, `ReservationHeld` and `Fifo` of the whole
service, for any number of crashes, sweepers and undead groups. `ReservationHeld` alone is
not inductive: a release would have to know that the group is dead. The strengthening
`ServiceInv` says why it does: a process that is not open holds nothing in memory
(`MemoryOnlyWhenOpen`), so only owned rows of an open service are finalised; a live group
of an open service has a handle (`LiveBookkeeping`), so a row without one has no process;
rows no spawn has touched are known (`RowBookkeeping`), and the pump's loop reaches each of
its rows once (`PumpBookkeeping`, for which `PumpSuccessors` follows the loop along distinct
queue positions); reconciliation lists every active row before it opens
(`StaleRowsListed`, `OpenOwnsActive`). There is one lemma per action.

`ValidationVerdicts_proofs` proves what the service owes the owner of a run:
`NoOrphanReservation`, `ResultsMatchLedger`, `CleanShutdown`, `ParkedNeverStarts`,
`FenceAdmitsNothing`, `ForeignRowsKept`, `SweepSparesRenewed`, `VerdictIsFinal`, and, with
the sums, `BudgetBounded`, `MachineWithinLimit` and `NoIdleQueue`. `StepMoves` says which
moves a row may make and in which state of the server; fence, degraded service and finality
follow. The others need `VerdictInv`, which adds: a running row is with a process, with a
spawn or next in a pump's loop, and a waiting one has its parameters (`Carried`, where
`PumpPredecessor` shows that the loop reaches every row it admitted); what a sweep waits for
is dying or settled (`KillsAreUnderWay`), so the sweep's late `finalizeWith` changes nothing;
a drain awaits every active row (`Closing`). `NoIdleQueue` is false once a reading of the
configuration has failed, see finding 1; `IdleOnlyAfterFault` proves that this is the only
way: until then it holds through every crash, shutdown and cancellation, and always
(`QueueIsNotIdle`) where the configuration can be read.

The proofs rest on the named assumptions of the constants only: finite `Run`, positive
weights and limits and at least one limit, agents among the runs, keys only for agents.

`ServiceKeepsPromise` is the refinement. A step maps by what it does to rows and groups: it
submits, pumps, spawns, lets a group come closer to its death, or only settles rows
(`OthersMap`, from `StepMoves` and from `OnlyAdmissionTakes`). It needs one fact more than
`ServiceInv`: a row that waits, is not submitted yet or is next in a pump's loop never had
a process group (`Untouched`), so its reservation starts as one.

Only model-checked: the liveness properties `TimedRunsSettle` and `ExpiredRunsReaped`.
What they rest on is proved: each active row of an open service has someone to settle it,
a process, a spawn, a pump on its way or a runner in front of it (`NoReservationIsOrphaned`
and `IdleOnlyAfterFault`).

## 3. Jobs

`JobQueue` is one session's background jobs: merge, commit, rebase, land and discard, at
most one at a time, each run by a state machine under the session's lock. A merge that
must not publish at once parks its prepared commit under a git ref and offers it
(`ready-to-land`); a later job lands it, discards it or supersedes it.

| code | actions |
| --- | --- |
| `prepareDispatch`, `recoverStaleJob`, the `dispatch…Job` functions (`jobs/queue.ts`) | `Start`, `Land`, `Discard`: all of `Recover`, `Superseded` and registration happen in the tick of the dispatch. `DispatchRefused` is the dispatch that only recovers a stale job and then meets a held lock |
| `landSession`, `resolvePreparedJob` (`git/route-handlers.ts`) | `LandChecked` (the offer and its ref are read), then, after the await, `Land` or `LandRefused` |
| `abortSessionJob`, the machines' ABORT | `Abort`, `AbortEnds` |
| a machine up to its prepare | `WorkEnds`, `Prepared` |
| `publishPreparedMerge` and the actor around it | `PublishParks`, `PublishLocks`, `PublishFails`, `PublishLands`, `PublishLosesRace`, `PublishCompletes`, `PublishThrows`; the promise `pub[j]` goes on when its machine is gone |
| `discardParkedRefActor`, deletions of superseded refs | `DiscardEnds`, `DeletionEnds` |
| server death, `recoverStaleJobs`, `collectOrphanedParkedRefs` | `Restart`, `Collect`, `Started` |
| `forceReleaseSessionLock`, a lane's git operation | `ForceRelease`, `LaneBegins`, `LaneEnds` |
| git commands that outlive an abort (no signal reaches them) | `BusyEnds` |

Abstractions. One server process works on the database, and no process id is used twice:
startup fails every row left running (`Restart`), where the code spares a row whose recorded
owner process is alive (`jobs/repo.ts:576-581`), for other servers of the same host that share
the file. Other sessions are only the target branch moving (`TargetMoves`) and the
project lock's other holders. Time is abstract: any dispatch may find the running job
stale, `MaxStale` times. A job's row and its entry in memory are one variable; a failed
row write and a merge with nothing to land are left out. What a machine does to the worktree is
`MergeMachine`'s matter.

`CandidateOffers` is the promise to whoever dispatches jobs: one job works at a time, a
verdict stands, at most one candidate is on offer, it can be landed and has not landed,
only a dispatch takes it off, and a candidate reaches the target once. `JobPromise` maps
the queue to it: a job's stage comes from its row and from whether its offer stands
(`Offers`), its candidate is `refOf`, and a land sent for an offer that had gone is `barred`
from offering. Refs are promised while none is deleted from outside and no deletion fails.
Locks, machines, stale publishes and deletions in flight are invisible there.

| run | instance | shows |
| --- | --- | --- |
| `jobs` | 3 jobs, 2 land requests, 2 publish attempts, 2 stale recoveries, 1 crash | the safety of verdicts, offers and landings, and that the queue implements `CandidateOffers`. Three jobs are the least for merge, land and a job dispatched between the land's check and its dispatch |
| `jobs_freed` | 2 jobs, 3 attempts as in the code, 1 stale recovery, 1 forced lock, 1 fault, fair | the session is let go: whoever holds its lock is at work, and lets go in the end |
| `jobs_worktree` | 2 jobs, merge and commit | finding: two jobs' git commands in one worktree |
| `jobs_discarded_lands` | 4 jobs, 1 land request | finding: a withdrawn candidate lands |

Jobs and requests are permuted in `jobs`. Deadlock is not checked: the supply of job ids
is finite. Fairness (`JobQueueFairSpec`): each job's machine and a lane's git operation
go on, since git commands return and agents' turns have timeouts. Requests, aborts,
crashes and force-releases are never assumed.

Proofs (`JobQueue_proofs`), for any number of jobs and any bounds: `JobQueueTypeOK`,
`LiveMachineHoldsLock`, `CompletedHasLanded`, `VerdictIsFinal`. The inductive invariant
`JobQueueInv` adds to the type invariant four parts. `Machines`: a running row has a live
machine, so a recovery knows what it tears down, and an absent row nothing. `Locked`: a
live machine holds the lock, so a dispatch that gets the lock finds no live machine, whose
row it could overwrite; a lane inside holds it too. `Landings`: a publish past its
compare-and-set has its candidate on the target, which a completion reported later relies on.
`Closings`: a ref deletion that closes a row closes an offer or a discard, never a verdict.
Finality is then a fact about each step (`Kept`).

`JobOffers_proofs` proves the life of an offer: `OfferHasRef` and `LandedIsNotOffered`, and,
of each step, that an offer ends only by a dispatch (`OffersEndByDispatch`) and that a
candidate lands once (`CandidatesLandOnce`). Five parts are added to `JobQueueInv`. `JobFacts`: an
offer's machine has finished, only merges and lands publish, and a borrowed candidate is one a
finished job prepared. `Slots`: the registry holds the newest job or, as after a restart, none.
`Deleting`: a ref deletion under way never closes the newest row. `Once`: what is on the
target is never prepared again. `Standing`, the core: of a job whose decision stands, which
is the session's last row or the one the registry leads to, with no land of it overtaken,
nobody else publishes or deletes the candidate, and its ref exists. The proof decided what
"overtaken" must mean: the candidate a land parks again after a lost race is that land's
offer, and if the land had been overtaken, so is whoever lands this one. With four jobs
TLC finds the case the definition would otherwise miss.

`JobsKeepOfferPromise` is the refinement, for any number of jobs, faults and crashes. Beyond
the invariant of the offers it needs that a job not dispatched yet has its own
candidate and is not overtaken (`Undispatched`), so that its dispatch starts it. A step maps by what
it does to rows and to the target: a dispatch closes the running row it recovers and the offer
it supersedes in one abstract step (`DispatchMaps`), a machine's verdict is `Settle`
(`MachineMaps`), a publish that passes its compare-and-set is `Land` also when its job
was given up long ago (`LandingMaps`), and deletions, restarts and refusals change refs only
or close what offers nothing (`DeletionMaps`, `RestartMaps`, `RefusedMaps`). After each, what
is left on offer must still be landable (`LeavesLandable`).

`SessionIsFreed` is liveness and stays with TLC. Its two safety halves are proved:
`LocksHaveLiveHolders` (`NoLockLeftBehind`), that the lock names somebody at work, and a machine
waiting for its publish waits for one under way; and `JobsAreBounded`, that a machine and its
publish take at most `4 * MaxCas` steps between them, counted by `MovesLeft`, which no abort,
recovery, crash or other job raises. What fairness adds is only that these steps are taken.
`FreedInv` strengthens `JobQueueInv` for both by `Taken` and `Publishes`.

The two properties the runs find violated are proved outside the behaviours that violate them,
which shows that the findings are complete as far as the model goes.
`DiscardedLandsOnlyIfLeftBehind`: a withdrawn candidate lands only by a land that was overtaken
between its check and its dispatch, or after a stale recovery, whose publish goes on
(both happen). `WorktreeSharedOnlyWithLeftovers`: until the operator forces the lock, two
jobs are in the worktree only when one is a git command that outlived an abort, a
recovery or a crash, or a publish that outlived its machine.

## 4. The merge and commit machines

`MergeMachine` follows the Smart Merge and Smart Commit machines
(`workflows/merge/machine.ts`, `workflows/commit/machine.ts`, the shared
`workflows/validation-fix/states.ts`) state by state. `at` is the machine's state, `ctx`
its context, and each action is what a state invokes together with the transition it
takes; `ActorFails` and `Stop` let the invoked work have happened, in part or whole, by the time the
state is left (`Effect`).

| states | actions |
| --- | --- |
| verifyingBranch, classifyingWorktree, committing | `VerifyBranch`, `Classify`, `Unreadable`, `Commit` |
| mergingMain, analyzingConflicts, resolvingConflicts, committingResolution | `MergeMain`, `Analyze`, `Resolve`, `CommitResolution` |
| validating, revalidating | `Validated`, `Invalid` |
| fixingValidation, checkingFixChanges, committingFix | `Fixed`, `CheckFix`, `CommitFix` |
| preparing, publishing | `Prepare`, `Publish`, `Park`, `CasLost` |
| aborting | `CleanUp` |
| dispatch by the routes | `StartMerge`, `StartCommit`, `StartResolve` |

The worktree is five facts: whose merge is in progress (`owner`), whether there are
unmerged entries or markers (`artifacts`), other changes (`edits`), what the tip is
(`head`: a merge commit, validated as it stands, carrying markers), and whether it holds the target's
tip (`merged`). Agents are adversarial within what their prompts leave them: a resolver
may stage, commit (markers included), abort the merge or do nothing; a fix turn may edit,
leave markers, or commit what has none. Between runs a person edits, commits, merges or
aborts.

Assumed: a person acts only between runs; a fix turn does not commit markers; a resolver
opens no merge of its own; validation is not skipped. Left out: `abortingStaleMerge`,
because every production dispatch passes the policy "refuse" or, as the lane integrator, nothing
and gets it as the default (`workflows/merge/machine.ts:281`), and the land and discard
entries, which `JobQueue` has. Publishing is one step with all its outcomes.

| run | instance | shows |
| --- | --- | --- |
| `merge` | 2 fix rounds as in the code, 2 publish attempts, 2 runs, 2 steps of a person, 1 crash, fair | only validated and marker-free work is published, nobody's merge is thrown away, every run ends. Two runs are the least for a merge left by one and met by the next |
| `merge_retry` | the same with 3 runs | finding: a refused commit between a conflicted merge and its retry makes the retry finish the session |

Fairness: weak fairness of `MachineStep`. What a state invokes ends: git commands return,
turns and validation commands have timeouts. Stops are never assumed. Deadlock is
not checked: the runs are finitely many.

Proofs (`MergeMachine_proofs`), for all bounds: `MergeTypeOK`, `ValidatedLands`,
`ConflictsDoNotLand`, `MergesAreNotThrownAway`. The inductive invariant `MergeInv` adds two parts. `Unspent`: no
fix round is spent before the first validation ends; `validating` does not look at the
count, so this is what bounds it. `Ours`: once a run has opened its merge, a merge in
progress is not another's; the cleanup after a stop looks only at whether the run opened
one and whether it is unresolved, so this is what makes that enough. The proof treats the worktree once,
by lemmas on what git commands and turns may do, and then each transition.

`ConflictsDoNotLand` needs `Unsoiled`: while a merge runs, its branch's tip carries no markers
it did not carry at dispatch, and a run that resolves knows the files its own merge left in
conflict, which is what its commit is refused over.

`RunsAreBounded` is the safety half of `RunsEnd`: `MovesLeft` starts at no more than
3 * `MaxCasAttempts` + 4 * `MaxFixAttempts` + 8, every transition and every stop lowers it, and
neither the target nor a person raises it during a run. The liveness, that fair runs take those
steps, stays with TLC.

`RetriesKeepSession` bounds finding 4: a conflict retry that finds the merge it resumes, or an earlier
retry of it (`FindsItsMerge`), finishes the session only if that merge would have.
The proof is the invariant `Remembers`: the flag goes from the merge's context to its
job, from there to the retry, and back to the retry's job, through stops, failures and crashes.
The look-up at dispatch is the only place where it is lost.

## 5. Conversation delivery

A person's message, a command, a generated report or a subscription's wake is a row of
the conversation's queue. It reaches the agent as part of the batch a drain claims and the
runner runs as a turn, or by joining the turn that is running. A direct message goes to
the runner's mailbox without the queue.

`MessageQueue` is the queue's rows and the functions that rewrite them, each one
transaction of `conversations/message-queue-service.ts`: the two claims, the results of an
attempt, recovery. It has no variables, so that a claim can be read, checked and proved
about next to its code. `ConversationDelivery` is everything around it.

| code | actions |
| --- | --- |
| `queueMessage`, `cancelQueuedMessage`, `reviewQueuedMessage` | `Enqueue`, `Cancel`, `Retry`, `Discard` |
| `queueMessageInOrder`, `deliverThroughCore` (`prompt/queue.ts`): one dispatch at a time, in order | `DispatchAccepts`, `LiveClaims`; `DispatchDeclines` for every way to leave the row to the next turn; `DispatchEnds`, which each ending performs, asks for a drain; `DispatchThrows`, when a row cannot be written back and the request fails without one |
| `deliverLive`, `deliverInto` (`interactive-turns.ts`) | `LiveJoins`, `LiveSends`, then `LiveAccepted`, `LiveRefused` or `LiveUncertain`; `LiveReturns` when the turn takes nothing any more |
| `drainQueue` (`supervision.ts`), `drainConversationQueueInto` | `DrainLooks`, `DrainClaims`, `BatchReturns` |
| `runQueuedCommand` | `CommandRuns`, `CommandEnds` |
| `sendUserMessage`: `readHolds`, `admission` (`executor.ts`) | `BatchReads`, `BatchPasses`, `BatchHandedOver`; `DirectReads`, `DirectPasses`, `DirectRefused`, `DirectMailed` |
| the runner: `drainConversation`, `runTurn`, `unstarted`, `leaveMailbox` | `TurnOpens`, `TurnHeld`, `TurnNotStarted`, `TurnAdmitted`, `ItemLeaves`, `RemoveAgain`, `RunnerStops`, `RunnerGone` |
| the turn: `TurnInput`, `run`, `settleQueued`, `settleAttempt` | `TurnSends`, `TurnAccepted`, `TurnRefused`, `TurnEnds`, `TurnSettles`, `TurnConsumed`; `TurnNotConsumed` for the catch of `drainConversation` when that transaction fails |
| `handleInputAccepted`, `settleRetained` | `Releases`; `RetainedSettles` for a release that failed and is still owed |
| `hold`, `conversationReleased` | `LeaseTaken`, `LeaseClaims`, `LeaseReleased`, `OwnerLeaves` |
| process death, `Executor.recover`, `Supervision.boot` | `Crash`, `BootTurns`, `BootTells`, `BootQueue` |

Rows, mailbox, the turn's attempt and the owner survive a crash. `got` is whether the
agent really took an input: the server learns it from an acceptance or a refusal, or
never, and `reached` remembers it for the properties. A write that may fail has an
argument `ok`; what then is left claimed is remembered in `stranded`. Both are history and
no action reads them.

`InOrderDelivery` is the promise to the person: one delivery at a time, in order, taken at
most once for each time it was asked for, gone only as delivered or withdrawn.
`DeliveryPromise` maps the system to it: the fate of a message is its row's status, what
the agent took is `reached`.

Abstractions:

- Several requests for a drain that has not looked yet are one (`asked`).
- A refusal and the row's way back are one step: nothing is awaited between them. So are a
  review's look at the conversation and its resolution.
- An attempt's id is kept on a row only while code compares it, that is while the row is
  delivering or uncertain; the new row id a retry gets has no other effect than this. Ids
  are random and only compared, so a fresh one is taken deterministically.
- A wake's claim asks a permission and then claims; here the permission is arbitrary
  (`allow`) at the claim.
- A subscription that withdraws its pending wake is a `Cancel`. What repairs a wake's
  acceptance from the subscription's side (`confirmSubscriptionWakeAccepted`) removes a wake's row
  in any status and is not in the model; it touches no ordinary row.
- The removal of an item whose turn could not be consumed is taken to succeed: without it the
  item would be in the mailbox with its attempt admitted, which the next boot clears.
- A graceful stop is taken as a crash. Requests are served after the boot, as the server
  starts listening only then.
- Three leases in a row during one admission make it give up; `MaxLeases` stays below.
- Not in the model: debug mode, questions and their answers, background custody, tasks,
  seats, permits, retirement.

| run | instance | shows |
| --- | --- | --- |
| `delivery` | 2 texts, 3 attempts, 1 direct message, 1 drain at a time, 1 crash, 1 failing write, 1 lease, but not all three of these, no retries, cap of 2 claims | the inductive invariant; nothing is sent twice; every claim has an owner; no wake-up is lost; direct messages are answered; every step is one `InOrderDelivery` allows. Texts sent are bounded by 2 and `MaxRows` is 3, because a handed back direct message becomes a row; a third attempt lets a retained one, a live one and a batch be different |
| `delivery_live` | 2 rows of every kind and 2 models, 1 retry each, 1 crash, no faults or leases, fair | every ordinary message that waits is taken in the end or a person has to decide; the promise for commands, reports, wakes and retries. Two rows are the least for overtaking, and for a batch that a command or another model splits |

A crash, a failing write and a lease in one behaviour (`TwoTroubles` excludes it), and
retries together with faults and direct messages, are beyond the runs' size; the proofs cover
every combination. Deadlock is not checked: with every message settled, the system rests.

Fairness (`FairSpec`): weak fairness of the server's own steps (`Dispatching`, `Draining`,
`Booting`, `Running`), since an agent's turn ends or is timed out and awaited writes
return; of `LeaseReleased`, since a lease lasts for one awaited callback; and of
`OwnerLeaves`, since a collaboration ends. People, crashes and failing writes owe nothing.

Proofs (`ConversationDelivery_proofs`, `DeliveryPromise_proofs`), for any number of rows,
attempts, direct messages, crashes, faults and retries. None of the properties is
inductive: that a row given back was not sent needs to know where its attempt is, and what
that place says of the agent. `DeliveryInv` has a part for each such fact. `RowsMatch`: a
row's status determines whether it has an attempt, and there is one attempt out at a time.
`PlacesMatch`: an attempt is in one of live delivery, batch, mailbox or owed release.
`WayMatches`: what is under way has its rows out, all of them, so a confirmation or a
return affects the batch it belongs to. `SentMatches`: each place knows whether the agent
has taken the input. `LeftMatches`: rows left behind are owed a release or known as
stranded. `DirectsMatch`: the same for direct messages. One lemma per action shows the
parts it can disturb; `DirectsAnswered` and the refinement are then facts about each step,
the refinement by one lemma per action of `InOrderDelivery` and one case per action here.

`NoForgottenRow` needs `WakeInv`: at rest nothing ordinary waits, or a row under review or
being delivered is in front of it (`Calm`). For that, without failed writes nothing is owed,
a live delivery has its dispatch, and only a runner has a turn; so every step that ends a
conversation's work either asks for a drain or is itself a drain that found nothing
(`DrainCalms`, where `FirstMessage` names the row a claim would have begun with), and
resolving a review asks for one too. A failed write is excluded because it can lose the
wake-up with the row, as the property says.

Only model-checked: `EveryMessageServed`, of which `NoForgottenRow` is the safety half: at
rest nothing waits that nobody will look at.

## 6. Findings

Each has a run whose counterexample is the scenario; quotations are in `PROJECT.json`.

1. `service_lost_pump`. A release wakes the queue through `void pumpQueue()`, which awaits
   the configuration without a catch (`validation/service.ts:606`, `:777`). One failing
   read loses the wake-up, and with nothing left running the waiters stay queued.
2. `jobs_worktree`. An aborted job's git command keeps running while the lock is released
   and the next job starts in the same worktree (`jobs/machine-host.ts:122`).
3. `jobs_discarded_lands`. A land is dispatched on an offer checked before an await; a
   job that came and went in between has withdrawn the candidate, and its commit lands
   (`git/route-handlers.ts:720`).
4. `merge_retry`. A conflict retry takes any job in memory for the merge it resumes
   (`git/route-handlers.ts:594`); after a refused commit it forgets `skipMarkMerged` and
   finishes the session.

Met while reading and modelling, with no run of their own:

- A runner whose group survives SIGKILL blocks each lease sweep before it reaches expired
  waiters (`validation/lease.ts:104-137`); `ExpiredRunsReaped` is therefore claimed of
  groups that die when killed.
- A crash between the compare-and-set and the deletion of the ref leaves a landed
  candidate with a row that recovery may announce as discarded when the next job
  supersedes it (`jobs/queue.ts:539-542`).
- Stale recovery can fail a job whose publish is under way and lands.
- Finishing the session may throw after the target moved; the job fails though its merge
  has landed (`workflows/merge/actors.ts:538-586`).
- Discarding a candidate whose ref is gone fails each time: git refuses to delete a ref
  that does not have the expected value (`workflows/merge/actors.ts:781`).
- A resolver that commits the markers itself halts its own run, but the markers are then in
  the tip the next merge starts from. `ConflictsDoNotLand` excludes tips soiled before
  the run.
- The look-up of finding 4 also misses a merge whose retry died with the server: the saved
  row it then finds is the retry's, failed, and the next retry finishes the session.
- The automatic commit after a passing validation commits what the commands rewrote,
  and a publish that lost the race prepares against a target tip nobody validated with.
  `ValidatedLands` is about the branch's tip as the commands left it.
- The marker scan before a commit and its `git add -A` are two steps
  (`git/commits.ts:238`).
- The rebase machine has no transition for an abort.
- A batch whose submission failed and whose way back failed too stays claimed and blocks
  its conversation's queue until the next restart (`conversations/message-queue-drain.ts:424`).
- A direct message can be handed back twice: when its removal from the mailbox failed, its
  sender retried the row, and the server died again (`conversation-core/executor.ts:958-982`).
- When the row for a direct message that never started cannot be written, only a log line
  is left of it (`conversation-core/production-records.ts:381`).
- When the settlement of a sent batch and then the consumption of its turn both fail to be
  written, the batch's rows are marked failed as not sent, and a retry sends them again
  (`conversation-core/executor.ts:1896-1908`).
- A job whose recorded process id belongs to another process when the server starts again
  keeps its row running until a later start (`jobs/repo.ts:576-581`).
- A command that ran but could not be marked delivered is shown as failed, and may be
  retried (`conversations/message-queue-drain.ts:240`).

## 7. Plan

In this order:

1. The rest of the turn engine and supervision: interruption, questions, background
   custody over a restart, seats and permits, the graceful stop.
2. Job rows and registry as two variables, with failing writes; the rebase machine next to
   `MergeMachine`.
3. The small concurrency utilities under them: `shared/query-semaphore.ts`,
   `shared/keyed-mutex.ts`, `intents/reconcile-scheduler.ts`.
4. Graph workflow runs with control permits and lane workspaces.

Every invariant and every action property of the passing runs is proved for all values of the
constants, and so are the three refinements. The theorem next: that a merge run of
`MergeMachine` with its publish in one step is what `JobQueue` does in several.

Out of the prover's reach and left to TLC: liveness under fairness and `ENABLED`, that is
`TimedRunsSettle`, `ExpiredRunsReaped`, `SessionIsFreed`, `RunsEnd` and `EveryMessageServed`; what a recursive
definition computes on every input, except where the smallest counterexample can be
named, as for the sums of weights.

## 8. Not modelled

`PROJECT.json` lists every component with the reason. In short: what the plan above has
not reached; documents and their stores (tickets, specs, memory, notepads, templates),
which are edited in requests and on which no modelled part depends; events and notifications, which
no modelled part reads; adapters to external agents, whose turns are nondeterministic
choices here; configuration, whose every reading is taken as arbitrary; logging, voice,
images, the command line and the user interface.
