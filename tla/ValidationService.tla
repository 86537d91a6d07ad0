-------------------------- MODULE ValidationService --------------------------
(***************************************************************************)
(* The validation service of one server process                            *)
(* (src/lib/validation/service.ts, lease.ts, recovery.ts) around the       *)
(* ledger of ValidationScheduler, together with the process groups that    *)
(* its runner spawns (process-runner.ts).  An action is the code one       *)
(* handler or promise continuation runs between two awaits.                *)
(*                                                                         *)
(* The ledger and the process groups survive a crash of the server;        *)
(* everything under "memory of the server process" does not.               *)
(***************************************************************************)
EXTENDS ValidationScheduler

CONSTANTS
    Agent,      \* the runs agents submit: they hold a lease, others the system
    Key,        \* (conversation, worktree, command, scope, paths) identities
    KeyOf,      \* [Run -> Key \cup {NoKey}]; NoKey without a conversation
    NoKey, NoRun,
    Sweeper,    \* overlapping lease sweeps: the timer never waits for the last
    Undead,     \* runs whose process group outlives SIGKILL
    Stops,      \* whether a termination signal may arrive
    MaxCrashes, \* bound: how often the server process dies abruptly
    MaxFaults   \* bound: how often reading the global configuration fails

ASSUME NoKeyAssumption == NoKey \notin Key
ASSUME NoRunAssumption == NoRun \notin Run
ASSUME AgentAssumption == Agent \subseteq Run
ASSUME KeyAssumption ==
    /\ KeyOf \in [Run -> Key \cup {NoKey}]
    /\ \A r \in Run \ Agent : KeyOf[r] = NoKey
ASSUME UndeadAssumption == Undead \subseteq Run
ASSUME StopsAssumption == Stops \in BOOLEAN
ASSUME BoundAssumption == MaxCrashes \in Nat /\ MaxFaults \in Nat

VARIABLES
    expired,     \* durable: rows whose leaseExpiresAt has passed
    (* the operating system *)
    proc,        \* the run's process group
    (* memory of the server process *)
    server,      \* down, recovering, open, or degraded (recovery failed)
    owned,       \* locallyOwned
    prepared,    \* preparedSpawns
    spawn,       \* spawnsInFlight: idle, pending, or settled (not yet deleted)
    parked,      \* pendingSpawnCancels
    handles,     \* the runs with an attached process handle
    ending,      \* per handle: its cancelled / timedOut flag
    forced,      \* forcedVerdicts
    joining,     \* cancellations awaiting a spawn in flight
    keyHolder,   \* activeAgentRunsByKey
    results,     \* runs whose terminal result has been recorded
    pumps,       \* pumpQueue calls awaiting the configuration
    nextSpawn,   \* the row a pump spawns once this row's spawn settled
    sweep,       \* per sweeper: candidates still to visit, and the kill it awaits
    shutdown,    \* no, killing, draining or done
    awaited,     \* the runs whose cancellation the shutdown awaits
    toRecover,   \* stale rows reconciliation has not settled yet
    unverified,  \* groups reconciliation could not verify
    (* bounds *)
    crashes, faults

settleVars == <<ledgerVars, prepared, parked, handles, ending, forced,
                keyHolder, results, pumps>>
reconVars  == <<server, toRecover, unverified>>
closeVars  == <<shutdown, awaited>>
boundVars  == <<crashes, faults>>
serviceVars ==
    <<settleVars, expired, proc, reconVars, owned, spawn, joining,
      nextSpawn, sweep, closeVars, boundVars>>

Sweep   == [runners : SUBSET Run, waiters : SUBSET Run, killing : Run \cup {NoRun}]
NoSweep == [runners |-> {}, waiters |-> {}, killing |-> NoRun]

Live   == {"working", "stray"}       \* the registered command, or what it left
Leader == {"barriered", "working"}   \* the supervisor has not exited

ServiceTypeOK ==
    /\ LedgerTypeOK
    /\ expired \subseteq Run
    /\ proc \in [Run -> {"none", "barriered", "working", "stray", "dead"}]
    /\ server \in {"down", "recovering", "open", "degraded"}
    /\ owned \subseteq Run
    /\ prepared \subseteq Run
    /\ spawn \in [Run -> {"idle", "pending", "settled"}]
    /\ parked \in [Run -> {"none", "cancelled", "interrupted"}]
    /\ handles \subseteq Run
    /\ ending \in [Run -> {"none", "cancelled", "timed_out"}]
    /\ forced \subseteq Run
    /\ joining \subseteq Run
    /\ keyHolder \in [Key -> Run \cup {NoRun}]
    /\ results \subseteq Run
    /\ pumps \in Nat
    /\ nextSpawn \in [Run -> Run \cup {NoRun}]
    /\ sweep \in [Sweeper -> Sweep]
    /\ shutdown \in {"no", "killing", "draining", "done"}
    /\ awaited \subseteq Run
    /\ toRecover \subseteq Run
    /\ unverified \subseteq Run
    /\ crashes \in Nat
    /\ faults \in Nat

ServiceInit ==
    /\ LedgerInit
    /\ expired = {}
    /\ proc = [r \in Run |-> "none"]
    /\ server = "down"
    /\ owned = {} /\ prepared = {} /\ handles = {} /\ forced = {}
    /\ joining = {} /\ results = {} /\ awaited = {} /\ pumps = 0
    /\ spawn = [r \in Run |-> "idle"]
    /\ parked = [r \in Run |-> "none"]
    /\ ending = [r \in Run |-> "none"]
    /\ nextSpawn = [r \in Run |-> NoRun]
    /\ keyHolder = [k \in Key |-> NoRun]
    /\ sweep = [w \in Sweeper |-> NoSweep]
    /\ shutdown = "no"
    /\ toRecover = {} /\ unverified = {}
    /\ crashes = 0 /\ faults = 0

-----------------------------------------------------------------------------
(* Settling a run.                                                          *)

ForgetResult(S) ==   \* mutant: the result goes with the rest
    /\ handles' = handles \ S /\ prepared' = prepared \ S /\ forced' = forced \ S
    /\ ending' = [r \in Run |-> IF r \in S THEN "none" ELSE ending[r]]
    /\ UNCHANGED <<parked, keyHolder, results>>

\* finalizeWith after its scheduler.release, for the rows S one step releases:
\* drop the run's memory, record its result, free its key, pump the queue.
Forget(S) ==
    /\ handles' = handles \ S
    /\ ending' = [r \in Run |-> IF r \in S THEN "none" ELSE ending[r]]
    /\ prepared' = prepared \ S
    /\ forced' = forced \ S
    /\ parked' = [r \in Run |-> IF r \in S THEN "none" ELSE parked[r]]
    /\ keyHolder' = [k \in Key |->
                       IF keyHolder[k] \in S THEN NoRun ELSE keyHolder[k]]
    /\ results' = results \cup S

FinalizeForeign(r, verdict) ==   \* mutant: rows of an earlier process too
    Release(r, verdict) /\ Forget({r}) /\ UNCHANGED pumps

FinalizeQuietly(r, verdict) ==   \* mutant: frees capacity and pumps nothing
    r \in owned /\ Release(r, verdict) /\ Forget({r}) /\ UNCHANGED pumps

\* Only rows this process admitted itself, and only the first verdict.
Finalize(r, verdict) ==
    /\ r \in owned
    /\ Release(r, verdict)
    /\ Forget({r})
    /\ pumps' = IF shutdown = "no" THEN pumps + 1 ELSE pumps

LateVerdict(r, verdict) ==   \* mutant: the last verdict wins
    IF r \in owned
    THEN ReleaseAgain(r, verdict) /\ Forget({r}) /\ UNCHANGED pumps
    ELSE UNCHANGED settleVars

\* The same call where a refused or late verdict changes nothing.
FinalizeIfActive(r, verdict) ==
    IF r \in owned /\ status[r] \in Active
    THEN Finalize(r, verdict)
    ELSE UNCHANGED settleVars

CancelledAsForced(S) ==   \* mutant: the forced verdict on the handle's flag
    [r \in Run |-> IF r \in S THEN "interrupted" ELSE ending[r]]

\* handle.cancel(): a leader that exited, or a timeout, keeps its outcome.
Cancelled(S) ==
    [r \in Run |-> IF r \in S /\ proc[r] \in Leader /\ ending[r] = "none"
                   THEN "cancelled" ELSE ending[r]]

-----------------------------------------------------------------------------
(* cancelRun, the part before its first await.                              *)

ParkCancel(r, as) ==
    /\ spawn[r] # "idle"
    /\ parked' = [parked EXCEPT ![r] = as]
    /\ joining' = joining \cup {r}
    /\ UNCHANGED <<ledgerVars, prepared, handles, ending, forced, keyHolder,
                   results, pumps>>

CancelTracked(r, as) ==
    /\ spawn[r] = "idle"
    /\ r \in handles
    /\ forced' = IF as = "interrupted" THEN forced \cup {r} ELSE forced
    /\ ending' = Cancelled({r})
    /\ UNCHANGED <<ledgerVars, prepared, parked, handles, keyHolder, results,
                   pumps, joining>>

CancelUnspawned(r, as) ==
    /\ spawn[r] = "idle"
    /\ r \notin handles
    /\ Finalize(r, as)
    /\ UNCHANGED joining

CancelRun(r, as) ==
    \/ ParkCancel(r, as)
    \/ CancelTracked(r, as)
    \/ CancelUnspawned(r, as)

(***************************************************************************)
(* service.cancel and cancelSystemOwned: the lease holder, or the system   *)
(* caller of a lease-less row, cancels a row that is not terminal.         *)
(***************************************************************************)
Cancel(r) ==
    /\ server # "down"
    /\ status[r] \in Active
    /\ CancelRun(r, "cancelled")
    /\ UNCHANGED <<expired, proc, reconVars, owned, spawn, nextSpawn,
                   sweep, closeVars, boundVars>>

(***************************************************************************)
(* A canceller that joined a spawn in flight resumes once the task has     *)
(* settled and cancels the handle, if there is one by then.                *)
(***************************************************************************)
ResumeCancel(r) ==
    /\ r \in joining
    /\ spawn[r] # "pending"
    /\ joining' = joining \ {r}
    /\ ending' = IF r \in handles THEN Cancelled({r}) ELSE ending
    /\ UNCHANGED <<ledgerVars, prepared, parked, handles, forced, keyHolder,
                   results, pumps, expired, proc, reconVars, owned,
                   spawn, nextSpawn, sweep, closeVars, boundVars>>

-----------------------------------------------------------------------------
(* Submission.  One step: after the last configuration read there is no     *)
(* await up to the ledger transaction and the call of runner.spawn.         *)

AdmissibleUnfenced(r) ==   \* mutant: not re-checked after the last await
    LET k == KeyOf[r] IN
    server = "open" /\ (k # NoKey /\ keyHolder[k] # NoRun => status[keyHolder[k]] \notin Active)

\* Neither shutdown nor a failed recovery lets a run into the ledger, and an
\* active run of the same conversation, worktree, command and scope refuses it.
Admissible(r) ==
    LET k == KeyOf[r] IN
    /\ server = "open"
    /\ shutdown = "no"
    /\ k # NoKey /\ keyHolder[k] # NoRun => status[keyHolder[k]] \notin Active

Accept(r) ==
    /\ owned' = owned \cup {r}
    /\ prepared' = prepared \cup {r}
    /\ keyHolder' = [k \in Key |-> IF k = KeyOf[r] THEN r ELSE keyHolder[k]]
    /\ UNCHANGED <<parked, handles, ending, forced, results, pumps, expired,
                   reconVars, joining, nextSpawn, sweep, closeVars, boundVars>>

\* runner.spawn either fails or leaves a supervisor blocked on its start barrier.
SpawnCalled(r) ==
    \E p \in {"none", "barriered"} : proc' = [proc EXCEPT ![r] = p]

SubmitAndSpawn(r, c, limit) ==
    /\ Admissible(r)
    /\ SubmitAdmitted(r, c, limit)
    /\ Accept(r)
    /\ SpawnCalled(r)
    /\ spawn' = [spawn EXCEPT ![r] = "pending"]

SubmitAndWait(r, c, limit) ==
    /\ Admissible(r)
    /\ SubmitQueued(r, c, limit)
    /\ Accept(r)
    /\ UNCHANGED <<proc, spawn>>

-----------------------------------------------------------------------------
(* spawnAdmitted, after the runner answered.                                *)

SpawnFails(r) ==
    /\ spawn[r] = "pending"
    /\ proc[r] = "none"
    /\ FinalizeIfActive(r, IF parked[r] = "none" THEN "failed" ELSE parked[r])
    /\ spawn' = [spawn EXCEPT ![r] = "settled"]
    /\ UNCHANGED <<expired, proc, reconVars, owned, joining, nextSpawn,
                   sweep, closeVars, boundVars>>

StartsAnyway(r) ==   \* mutant: confirmStart without a look at the parked verdict
    status[r] = "running" /\ ~started[r]

JustAdmitted(r) == status[r] = "running" /\ ~started[r]

\* Only a row just admitted whose cancellation is not parked passes the barrier.
PassesBarrier(r) == JustAdmitted(r) /\ parked[r] = "none"

\* The pid is persisted before anything else.
SpawnSucceeds(r) ==
    LET released == PassesBarrier(r)
    IN /\ spawn[r] = "pending"
       /\ proc[r] = "barriered"
       /\ IF JustAdmitted(r) THEN MarkStarted(r) ELSE UNCHANGED ledgerVars
       /\ handles' = handles \cup {r}
       /\ parked' = [parked EXCEPT ![r] = "none"]
       /\ forced' = IF parked[r] = "interrupted" THEN forced \cup {r} ELSE forced
       /\ proc' = IF released THEN [proc EXCEPT ![r] = "working"] ELSE proc
       /\ ending' = IF released THEN ending ELSE Cancelled({r})
       /\ spawn' = [spawn EXCEPT ![r] = "settled"]
       /\ UNCHANGED <<prepared, keyHolder, results, pumps, expired,
                      reconVars, owned, joining, nextSpawn, sweep, closeVars,
                      boundVars>>

SpawnSettlesAlone(r) ==   \* mutant: the pump's loop ends with its first spawn
    /\ spawn[r] = "settled"
    /\ spawn' = [spawn EXCEPT ![r] = "idle"] /\ nextSpawn' = [nextSpawn EXCEPT ![r] = NoRun]
    /\ UNCHANGED <<settleVars, proc, expired, reconVars, owned, joining, sweep,
                   closeVars, boundVars>>

\* The finally clause, and the pump's loop going on to its next admitted row.
\* A row cancelled meanwhile has no parameters left and is not spawned.
SpawnSettles(r) ==
    LET x == nextSpawn[r] IN
    /\ spawn[r] = "settled"
    /\ nextSpawn' = [nextSpawn EXCEPT ![r] = NoRun]
    /\ \/ /\ x = NoRun
          /\ spawn' = [spawn EXCEPT ![r] = "idle"]
          /\ UNCHANGED <<settleVars, proc>>
       \/ /\ x \in prepared
          /\ spawn' = [spawn EXCEPT ![r] = "idle", ![x] = "pending"]
          /\ SpawnCalled(x)
          /\ UNCHANGED settleVars
       \/ /\ x \in Run \ prepared
          /\ spawn' = [spawn EXCEPT ![r] = "idle", ![x] = "settled"]
          /\ FinalizeIfActive(x, "failed")
          /\ UNCHANGED proc
    /\ UNCHANGED <<expired, reconVars, owned, joining, sweep, closeVars,
                   boundVars>>

-----------------------------------------------------------------------------
(* pumpQueue, after it has read the configuration.                          *)

Oldest(S) == CHOOSE r \in S : \A s \in S \ {r} : Older(r, s)

PumpQueue(limit, admitted) ==
    LET retired == Oversized(limit)
        Rest(r) == {s \in admitted : Older(r, s)}
    IN /\ pumps > 0
       /\ shutdown = "no"
       /\ Pump(limit, admitted)
       /\ pumps' = pumps - 1
       /\ prepared' = prepared \ retired
       /\ results' = results \cup retired
       /\ keyHolder' = [k \in Key |->
              IF keyHolder[k] \in retired THEN NoRun ELSE keyHolder[k]]
       /\ nextSpawn' = [r \in Run |->
              IF r \in admitted
              THEN IF Rest(r) = {} THEN NoRun ELSE Oldest(Rest(r))
              ELSE nextSpawn[r]]
       /\ IF admitted = {}
          THEN UNCHANGED <<spawn, proc>>
          ELSE /\ spawn' = [spawn EXCEPT ![Oldest(admitted)] = "pending"]
               /\ SpawnCalled(Oldest(admitted))
       /\ UNCHANGED <<parked, handles, ending, forced, expired,
                      reconVars, owned, joining, sweep, closeVars, boundVars>>

\* Shutdown began while the pump read the configuration, or the read failed.
PumpGivesUp ==
    /\ pumps > 0
    /\ \/ shutdown # "no" /\ UNCHANGED faults
       \/ faults < MaxFaults /\ faults' = faults + 1
    /\ pumps' = pumps - 1
    /\ UNCHANGED <<ledgerVars, prepared, parked, handles, ending, forced,
                   keyHolder, results, expired, proc, reconVars, owned,
                   spawn, joining, nextSpawn, sweep, closeVars, crashes>>

-----------------------------------------------------------------------------
(* The process groups, and the outcome the server sees.                     *)

procOnly == <<settleVars, expired, reconVars, owned, spawn, joining,
              nextSpawn, sweep, closeVars, boundVars>>

Becomes(r, p) == proc' = [proc EXCEPT ![r] = p] /\ UNCHANGED procOnly

\* The supervisor exits last, unless it is killed alone and leaves strays.
LeaderExits(r) ==
    /\ proc[r] = "working"
    /\ r \notin Undead
    /\ \E p \in {"stray", "dead"} : Becomes(r, p)

StraysDie(r) == proc[r] = "stray" /\ r \notin Undead /\ Becomes(r, "dead")

\* The SIGTERM-then-SIGKILL of a cancellation or a timeout has worked.
GroupKilled(r) ==
    /\ r \in handles
    /\ ending[r] # "none"
    /\ proc[r] \in Leader
    /\ r \notin Undead
    /\ Becomes(r, "dead")

\* The server died before the release: the supervisor reads EOF and exits.
BarrierAborts(r) ==
    /\ proc[r] = "barriered"
    /\ spawn[r] # "pending" /\ r \notin handles
    /\ Becomes(r, "dead")

TimesOut(r) ==
    /\ r \in handles
    /\ proc[r] \in Leader
    /\ ending[r] = "none"
    /\ ending' = [ending EXCEPT ![r] = "timed_out"]
    /\ UNCHANGED <<ledgerVars, prepared, parked, handles, forced, keyHolder,
                   results, pumps, expired, proc, reconVars, owned,
                   spawn, joining, nextSpawn, sweep, closeVars, boundVars>>

Outcomes(r) ==
    IF r \in forced THEN {"interrupted"}
    ELSE IF ending[r] # "none" THEN {ending[r]}
    ELSE {"passed", "failed"}

LeaderExitObserved(r) ==   \* mutant: waits for the supervisor only
    /\ r \in handles /\ proc[r] \in {"stray", "dead"}
    /\ \E v \in Outcomes(r) : FinalizeIfActive(r, v)
    /\ UNCHANGED <<expired, proc, reconVars, owned, spawn, joining,
                   nextSpawn, sweep, closeVars, boundVars>>

\* wait() resolves once the whole group is confirmed dead.
GroupDeathObserved(r) ==
    /\ r \in handles
    /\ proc[r] = "dead"
    /\ \E v \in Outcomes(r) : FinalizeIfActive(r, v)
    /\ UNCHANGED <<expired, proc, reconVars, owned, spawn, joining,
                   nextSpawn, sweep, closeVars, boundVars>>

-----------------------------------------------------------------------------
(* Leases.                                                                  *)

leaseFrame == <<proc, reconVars, owned, spawn, nextSpawn, closeVars,
                boundVars>>

\* A minute passes without a poll by the lease holder.
LeaseExpires(r) ==
    /\ r \in Agent /\ status[r] \in Active /\ r \notin expired
    /\ expired' = expired \cup {r}
    /\ UNCHANGED <<settleVars, joining, sweep, leaseFrame>>

\* poll with the row's own token.
Renew(r) ==
    /\ server # "down"
    /\ r \in Agent /\ status[r] \in Active /\ r \in expired
    /\ expired' = expired \ {r}
    /\ UNCHANGED <<settleVars, joining, sweep, leaseFrame>>

Lapsed == {r \in expired : status[r] \in Active}

RunnersOnly == [runners |-> Lapsed \cap Running, waiters |-> {}, killing |-> NoRun]   \* mutant

Snapshot == [runners |-> Lapsed \cap Running, waiters |-> Lapsed \cap Queued,
             killing |-> NoRun]

\* The timer starts a sweep: snapshot the expired rows, runners first.
SweepBegins(w) ==
    /\ server = "open"
    /\ sweep[w] = NoSweep
    /\ Lapsed # {}
    /\ sweep' = [sweep EXCEPT ![w] = Snapshot]
    /\ UNCHANGED <<settleVars, joining, expired, leaseFrame>>

Candidates(w) == IF sweep[w].runners # {} THEN sweep[w].runners ELSE sweep[w].waiters

Visited(w, r, kill) ==
    sweep' = [sweep EXCEPT ![w] =
                [runners |-> sweep[w].runners \ {r},
                 waiters |-> sweep[w].waiters \ {r}, killing |-> kill]]

StillActive(r) == status[r] \in Active   \* mutant: a renewal since is not seen

\* The claim re-reads the row: a renewal, a verdict or an admission since the
\* snapshot decides what the sweep does with it, with no await in between.
Claimed(r) == r \in Lapsed

SweepVisits(w, r) ==
    /\ sweep[w].killing = NoRun
    /\ r \in Candidates(w)
    /\ \/ /\ ~Claimed(r)
          /\ Visited(w, r, NoRun)
          /\ UNCHANGED <<settleVars, joining>>
       \/ /\ Claimed(r) /\ r \in Running
          /\ CancelRun(r, "interrupted")
          /\ Visited(w, r, IF spawn[r] # "idle" \/ r \in handles THEN r ELSE NoRun)
       \/ /\ Claimed(r) /\ r \in Queued
          /\ FinalizeIfActive(r, "interrupted")
          /\ Visited(w, r, NoRun)
          /\ UNCHANGED joining
    /\ UNCHANGED <<expired, leaseFrame>>

\* killRun resolved: the joined spawn settled and the group's death was seen.
SweepResumes(w) ==
    LET r == sweep[w].killing IN
    /\ r # NoRun
    /\ r \notin joining /\ spawn[r] # "pending" /\ r \notin handles
    /\ FinalizeIfActive(r, "interrupted")
    /\ sweep' = [sweep EXCEPT ![w].killing = NoRun]
    /\ UNCHANGED <<joining, expired, leaseFrame>>

-----------------------------------------------------------------------------
\* What a process that is no longer running keeps in memory: nothing.
LoseMemory ==
    /\ owned' = {} /\ prepared' = {} /\ handles' = {} /\ forced' = {}
    /\ joining' = {} /\ results' = {} /\ awaited' = {} /\ pumps' = 0
    /\ spawn' = [r \in Run |-> "idle"]
    /\ parked' = [r \in Run |-> "none"]
    /\ ending' = [r \in Run |-> "none"]
    /\ nextSpawn' = [r \in Run |-> NoRun]
    /\ keyHolder' = [k \in Key |-> NoRun]
    /\ sweep' = [w \in Sweeper |-> NoSweep]

-----------------------------------------------------------------------------
(* Graceful shutdown: cancelRun on every tracked run, then on every row     *)
(* still active.                                                            *)

shutFrame == <<expired, proc, reconVars, owned, spawn, nextSpawn,
               sweep, boundVars>>

\* cancelRun(r, "interrupted") for the runs S that hold a handle or a spawn.
InterruptTracked(S) ==
    LET inFlight == {r \in S : spawn[r] # "idle"}
        tracked  == (S \ inFlight) \cap handles
    IN /\ joining' = joining \cup inFlight
       /\ parked' = [r \in Run |-> IF r \in inFlight THEN "interrupted" ELSE parked[r]]
       /\ forced' = forced \cup tracked
       /\ ending' = Cancelled(tracked)

ShutdownBegins ==
    /\ Stops
    /\ server = "open"
    /\ shutdown = "no"
    /\ shutdown' = "killing"
    /\ awaited' = handles
    /\ InterruptTracked(handles)
    /\ UNCHANGED <<ledgerVars, prepared, handles, keyHolder, results, pumps,
                   shutFrame>>

HandlesSettled == awaited \cap handles = {}   \* mutant: forgets spawns in flight

AllSettled == awaited \cap (handles \cup joining) = {}

\* Rows without a process settle at once; the others are awaited once more.
ShutdownDrains ==
    LET active    == Running \cup Queued
        unspawned == {r \in active : spawn[r] = "idle" /\ r \notin handles} \cap owned
    IN /\ shutdown = "killing"
       /\ AllSettled
       /\ shutdown' = "draining"
       /\ awaited' = active
       /\ InterruptTracked(active)
       /\ status' = [r \in Run |-> IF r \in unspawned THEN "interrupted" ELSE status[r]]
       /\ prepared' = prepared \ unspawned
       /\ keyHolder' = [k \in Key |->
              IF keyHolder[k] \in unspawned THEN NoRun ELSE keyHolder[k]]
       /\ results' = results \cup unspawned
       /\ UNCHANGED <<cost, queueOrder, started, handles, pumps, shutFrame>>

\* The signal is raised again and the process ends.
ShutdownDone ==
    /\ shutdown = "draining"
    /\ AllSettled
    /\ shutdown' = "done"
    /\ server' = "down"
    /\ LoseMemory
    /\ UNCHANGED <<ledgerVars, expired, proc, toRecover, unverified,
                   boundVars>>

-----------------------------------------------------------------------------
(* Abrupt death, and reconciliation before admission opens again.           *)

ServerDies ==
    /\ server # "down" /\ crashes < MaxCrashes
    /\ crashes' = crashes + 1
    /\ server' = "down" /\ shutdown' = "no"
    /\ toRecover' = {} /\ unverified' = {}
    /\ LoseMemory
    /\ UNCHANGED <<expired, proc, faults>>

Crash == ServerDies /\ UNCHANGED ledgerVars

\* The process dies after persisting the pid and before releasing the barrier.
CrashBeforeRelease(r) ==
    /\ spawn[r] = "pending" /\ proc[r] = "barriered"
    /\ MarkStarted(r)
    /\ ServerDies

StaleRunners == Running   \* mutant: forgets the stale waiters

StaleRows == Running \cup Queued

Start ==
    /\ server = "down"
    /\ server' = "recovering" /\ shutdown' = "no"
    /\ toRecover' = StaleRows
    /\ UNCHANGED <<settleVars, expired, proc, unverified, owned, spawn,
                   joining, nextSpawn, sweep, awaited, boundVars>>

recoverFrame == <<prepared, parked, handles, ending, forced, keyHolder, pumps,
                  expired, owned, spawn, joining, nextSpawn, sweep,
                  closeVars, boundVars>>

Recorded(r) == status[r] = "running" /\ started[r]

NothingUnverifiable(r) == FALSE   \* mutant: a leaderless group is not ours

\* Members without a leader cannot be verified.
Unverifiable(r) == Recorded(r) /\ proc[r] = "stray"

\* An owned group is killed and confirmed dead before its row is settled; a row
\* without a pid has no workload, its supervisor aborts on the closed pipe.
RecoverRow(r) ==
    /\ server = "recovering"
    /\ r \in toRecover
    /\ ~Unverifiable(r)
    /\ ~(Recorded(r) /\ proc[r] \in Leader /\ r \in Undead)
    /\ proc' = IF Recorded(r) /\ proc[r] \in Leader
               THEN [proc EXCEPT ![r] = "dead"] ELSE proc
    /\ Release(r, "interrupted")
    /\ results' = results \cup {r}
    /\ toRecover' = toRecover \ {r}
    /\ UNCHANGED <<server, unverified, recoverFrame>>

\* The row keeps its reservation for the operator to look at.
LeaveUnverified(r) ==
    /\ server = "recovering"
    /\ r \in toRecover
    /\ Unverifiable(r)
    /\ toRecover' = toRecover \ {r}
    /\ unverified' = unverified \cup {r}
    /\ UNCHANGED <<ledgerVars, results, proc, server, recoverFrame>>

\* killGroup throws on an undead group, or reconciliation ends.
RecoveryEnds ==
    LET undead == \E r \in toRecover \cap Undead :
                      Recorded(r) /\ proc[r] \in Leader
    IN /\ server = "recovering"
       /\ toRecover = {} \/ undead
       /\ server' = IF unverified # {} \/ toRecover # {} THEN "degraded" ELSE "open"
       /\ toRecover' = {} /\ unverified' = {}
       /\ UNCHANGED <<ledgerVars, results, proc, recoverFrame>>

-----------------------------------------------------------------------------

Submit ==
    \E r \in Run, c \in Costs, limit \in Limits :
        SubmitAndSpawn(r, c, limit) \/ SubmitAndWait(r, c, limit)

SpawnStep(r) == SpawnFails(r) \/ SpawnSucceeds(r) \/ SpawnSettles(r)
Pumping == \E limit \in Limits, A \in SUBSET Queued : PumpQueue(limit, A)
ProcStep(r) ==
    \/ LeaderExits(r) \/ StraysDie(r) \/ GroupKilled(r) \/ BarrierAborts(r)
    \/ TimesOut(r) \/ GroupDeathObserved(r)
SweepStep(w) ==
    SweepBegins(w) \/ (\E r \in Run : SweepVisits(w, r)) \/ SweepResumes(w)
ShutdownStep == ShutdownBegins \/ ShutdownDrains \/ ShutdownDone
RestartStep ==
    \/ Crash \/ (\E r \in Run : CrashBeforeRelease(r)) \/ Start
    \/ (\E r \in Run : RecoverRow(r) \/ LeaveUnverified(r)) \/ RecoveryEnds

ServiceNext ==
    \/ Submit
    \/ \E r \in Run : Cancel(r) \/ ResumeCancel(r) \/ SpawnStep(r) \/ ProcStep(r)
    \/ \E r \in Run : LeaseExpires(r) \/ Renew(r)
    \/ Pumping \/ PumpGivesUp
    \/ \E w \in Sweeper : SweepStep(w)
    \/ ShutdownStep
    \/ RestartStep

ServiceSpec == ServiceInit /\ [][ServiceNext]_serviceVars

-----------------------------------------------------------------------------
(* Safety *)

(***************************************************************************)
(* A reservation outlives its process group: while the registered command  *)
(* or anything it left runs, the row is running with its pid on record.    *)
(* This is across cancellation in the spawn window, timeout, shutdown, a   *)
(* crash between any two steps, and recovery (spawnAdmitted, cancelRun).   *)
(***************************************************************************)
ReservationHeld ==
    \A r \in Run : proc[r] \in Live => Recorded(r)

(***************************************************************************)
(* The machine is never overcommitted: the weights of the groups really    *)
(* alive fit the largest limit, also when a restarted server admits a      *)
(* fresh budget after a crash left groups behind (recovery.ts).            *)
(***************************************************************************)
MachineWithinLimit ==
    \E limit \in Limits : CostOf({r \in Run : proc[r] \in Live}) <= limit

(***************************************************************************)
(* No reservation is orphaned: a running row of an open service has a      *)
(* handle, a spawn in flight, or a pump that is going to spawn it.         *)
(***************************************************************************)
NoOrphanReservation ==
    server = "open" =>
        \A r \in Running :
            \/ r \in handles
            \/ spawn[r] # "idle"
            \/ r \in prepared /\ \E q \in Run : nextSpawn[q] = r

(***************************************************************************)
(* No lost wake-up: waiters with nobody running always have a pump on its  *)
(* way (finalizeWith pumps after every release).                           *)
(***************************************************************************)
NoIdleQueue ==
    server = "open" /\ shutdown = "no" /\ Queued # {} /\ Running = {}
        => pumps > 0

(***************************************************************************)
(* A client blocked on a run gets its verdict: every run this process      *)
(* accepted has a recorded result as soon as its row is terminal, and none *)
(* before.                                                                 *)
(***************************************************************************)
ResultsMatchLedger ==
    \A r \in owned : r \in results <=> status[r] \in Terminal

(***************************************************************************)
(* Graceful shutdown leaves nothing behind: no active row and no command   *)
(* still running, whatever was queued, spawning or mid-cancellation.       *)
(***************************************************************************)
CleanShutdown ==
    shutdown = "done" =>
        \A r \in Run : status[r] \notin Active /\ proc[r] \notin Live

(***************************************************************************)
(* A cancellation accepted while the spawn is in flight is honoured: the   *)
(* workload never passes the start barrier.                                *)
(***************************************************************************)
ParkedNeverStarts ==
    [][\A r \in Run :
          parked[r] # "none" /\ proc[r] \in {"none", "barriered"}
              => proc'[r] # "working"]_serviceVars

(***************************************************************************)
(* After the shutdown fence no run enters the ledger or gains capacity.    *)
(***************************************************************************)
FenceAdmitsNothing ==
    [][shutdown # "no" =>
          \A r \in Run : status'[r] \in Active => status'[r] = status[r]]_serviceVars

(***************************************************************************)
(* After a failed recovery the retained rows keep their status until the   *)
(* next start, whatever their lease holders ask for (locallyOwned).        *)
(***************************************************************************)
ForeignRowsKept ==
    [][server = "degraded" => status' = status]_serviceVars

(***************************************************************************)
(* A renewed lease is never reaped: while the service is neither stopping  *)
(* nor reconciling, only a run whose lease is expired at that very moment  *)
(* is interrupted (the sweep's second look at the row).                    *)
(***************************************************************************)
Interrupting(r) ==
    \/ r \in forced' /\ r \notin forced /\ parked[r] # "interrupted"
    \/ parked'[r] = "interrupted" /\ parked[r] # "interrupted"
    \/ status'[r] = "interrupted" /\ status[r] # "interrupted"
           /\ r \notin forced /\ parked[r] # "interrupted"
SweepSparesRenewed ==
    [][server = "open" /\ shutdown = "no" /\ shutdown' = "no" =>
          \A r \in Run : Interrupting(r) => r \in expired]_serviceVars

-----------------------------------------------------------------------------
(* The inductive invariant behind ReservationHeld.                          *)

\* Rows that no spawn has touched yet.
Unspawned(r) == spawn[r] = "idle" /\ r \notin handles /\ ~started[r]

\* A process that has not finished reconciling holds nothing in memory.
MemoryOnlyWhenOpen ==
    server # "open" =>
        /\ owned = {} /\ prepared = {} /\ handles = {} /\ pumps = 0
        /\ \A r \in Run : spawn[r] = "idle" /\ nextSpawn[r] = NoRun

\* While it reconciles, every active row is on its list or was left alone.
StaleRowsListed ==
    server = "recovering" =>
        \A r \in Run : status[r] \in Active => r \in toRecover \cup unverified

RowBookkeeping ==
    \A r \in Run :
        /\ status[r] \in {"absent", "queued"} => Unspawned(r)
        /\ r \in handles => Recorded(r)
        /\ r \in prepared => r \in owned /\ status[r] \in Active
        /\ spawn[r] = "pending" =>
              /\ status[r] = "running" /\ ~started[r] /\ r \notin handles
              /\ proc[r] \notin Live /\ r \in owned

\* A command runs only behind a recorded pid, and an open service can reach it.
LiveBookkeeping ==
    \A r \in Run : proc[r] \in Live =>
        /\ Recorded(r)
        /\ server = "open" => r \in handles

OpenOwnsActive ==
    server = "open" => \A r \in Run : status[r] \in Active => r \in owned

\* A row a pump is still to spawn is untouched, and only one pump is to spawn it.
PumpBookkeeping ==
    /\ \A r \in Run : nextSpawn[r] # NoRun =>
          /\ Unspawned(nextSpawn[r])
          /\ status[nextSpawn[r]] \notin {"absent", "queued"}
    /\ \A p, q \in Run :
          nextSpawn[p] = nextSpawn[q] /\ nextSpawn[p] # NoRun => p = q

OrdersDistinct ==
    \A r, s \in Rows : queueOrder[r] = queueOrder[s] => r = s

ServiceInv ==
    /\ MemoryOnlyWhenOpen
    /\ StaleRowsListed
    /\ RowBookkeeping
    /\ LiveBookkeeping
    /\ OpenOwnsActive
    /\ PumpBookkeeping
    /\ OrdersDistinct

-----------------------------------------------------------------------------
(* Liveness *)

(***************************************************************************)
(* The event loop runs every continuation it has, and the kernel kills     *)
(* what is signalled.  Nothing else is assumed: no client polls, cancels   *)
(* or submits, and no command exits by itself.                             *)
(***************************************************************************)
Fairness ==
    /\ \A r \in Run :
        /\ WF_serviceVars(SpawnStep(r))
        /\ WF_serviceVars(ResumeCancel(r))
        /\ WF_serviceVars(GroupKilled(r))
        /\ WF_serviceVars(StraysDie(r))
        /\ WF_serviceVars(GroupDeathObserved(r))
    /\ WF_serviceVars(Pumping)
    /\ WF_serviceVars(ShutdownDrains)
    /\ WF_serviceVars(ShutdownDone)
    /\ \A w \in Sweeper : WF_serviceVars(SweepStep(w))

FairServiceSpec == ServiceSpec /\ Fairness

\* The timer of every command fires as well, if the command is still there.
TimersFire == \A r \in Run : WF_serviceVars(TimesOut(r))

TimedServiceSpec == FairServiceSpec /\ TimersFire

(***************************************************************************)
(* `cctl validate run` "always blocks to a verdict": every accepted run    *)
(* settles, unless the server process itself goes away first.              *)
(***************************************************************************)
EveryRunSettles ==
    \A r \in Run : r \in owned ~> r \in results \/ r \notin owned

\* The same of a server whose clients may leave any command running, as long as
\* the timeouts of the commands fire.
TimedRunsSettle == TimersFire => EveryRunSettles

(***************************************************************************)
(* A dead client's run does not stay: a run whose lease stays expired is   *)
(* settled without waiting for the timeout of its own command or of those  *)
(* ahead of it (lease.ts, sweepExpired).                                   *)
(***************************************************************************)
ExpiredRunsReaped ==
    \A r \in Run :
        status[r] \in Active /\ r \in expired /\ server = "open"
            ~> status[r] \notin Active \/ r \notin expired \/ server # "open"
=============================================================================
