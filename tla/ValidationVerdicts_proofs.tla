---------------------- MODULE ValidationVerdicts_proofs ----------------------
(***************************************************************************)
(* What the service owes the owner of a run: a verdict, given once, and    *)
(* a row that somebody will settle; and what it owes its machine.  Proofs  *)
(* for every set of runs and sweepers and any number of crashes, on top of *)
(* the invariant IInv.                                                     *)
(***************************************************************************)
EXTENDS ValidationService_proofs, ValidationPromise

\* A running row of an open service is with its process, with the spawn in
\* flight, or next in the loop of a pump; a waiting one can still be spawned,
\* and no loop goes on from it yet.
Carried ==
    server = "open" =>
        /\ \A r \in Running :
              \/ r \in handles \/ spawn[r] = "pending"
              \/ r \in prepared /\ \E q \in Run : nextSpawn[q] = r
        /\ Queued \subseteq prepared
        /\ \A q \in Run : status[q] \in {"absent", "queued"} => nextSpawn[q] = NoRun

\* What a sweep waits for is dying, or is settled already.
KillsAreUnderWay ==
    \A w \in Sweeper : LET r == sweep[w].killing IN
        r # NoRun => status[r] \in Terminal \/ r \in handles \/ spawn[r] = "pending"

ResultsAreVerdicts == \A r \in results : status[r] \in Terminal

\* Only an open service stops; once it drains it awaits every active row.
Closing ==
    /\ shutdown \in {"killing", "draining"} => server = "open"
    /\ shutdown = "draining" =>
          \A r \in Run : status[r] \in Active =>
              /\ r \in awaited
              /\ r \in handles \/ (r \in joining /\ spawn[r] = "pending")
    /\ shutdown = "done" => server = "down"

VerdictParts ==
    /\ Carried
    /\ KillsAreUnderWay
    /\ ResultsAreVerdicts
    /\ ResultsMatchLedger
    /\ Closing
    /\ CleanShutdown

VerdictInv == IInv /\ VerdictParts

-----------------------------------------------------------------------------
(* The moves of a row, whatever the step.                                   *)

Moves(r) ==
    \/ status'[r] = status[r]
    \/ server \in {"open", "recovering"} /\ status[r] \in Active /\ status'[r] \in Terminal
    \/ /\ server = "open" /\ shutdown = "no"
       /\ \/ status[r] = "absent" /\ status'[r] \in Active
          \/ status[r] = "queued" /\ status'[r] = "running"

RowsMove == \A r \in Run : Moves(r) /\ (started[r] => started'[r])

LEMMA FinalizeMoves ==
    ASSUME IInv, NEW r \in Run, NEW v \in Terminal, FinalizeIfActive(r, v)
    PROVE  RowsMove
BY DEF IInv, ServiceTypeOK, LedgerTypeOK, FinalizeIfActive, Finalize, Release,
   ServiceInv, MemoryOnlyWhenOpen, RowsMove, Moves, settleVars, ledgerVars

LEMMA CancelRunMoves ==
    ASSUME IInv, NEW r \in Run, NEW as \in {"cancelled", "interrupted"},
           CancelRun(r, as)
    PROVE  RowsMove
<1>1. CASE CancelUnspawned(r, as)
  <2>1. FinalizeIfActive(r, as) /\ as \in Terminal
    BY <1>1 DEF CancelUnspawned, Finalize, Release, FinalizeIfActive, Terminal, Verdicts
  <2> QED  BY <2>1, FinalizeMoves
<1>2. CASE ParkCancel(r, as) \/ CancelTracked(r, as)
  BY <1>2 DEF ParkCancel, CancelTracked, RowsMove, Moves, ledgerVars
<1> QED  BY <1>1, <1>2 DEF CancelRun

LEMMA SubmitMoves ==
    ASSUME IInv, NEW r \in Run, NEW c \in Costs, NEW limit \in Limits,
           SubmitAndSpawn(r, c, limit) \/ SubmitAndWait(r, c, limit)
    PROVE  RowsMove
BY DEF IInv, ServiceTypeOK, LedgerTypeOK, SubmitAndSpawn, SubmitAndWait,
   SubmitAdmitted, SubmitQueued, Insert, Admissible, RowsMove, Moves, Active

LEMMA SpawnMoves ==
    ASSUME IInv, NEW r \in Run, SpawnStep(r)
    PROVE  RowsMove
<1>1. CASE SpawnFails(r)
  <2> DEFINE v == IF parked[r] = "none" THEN "failed" ELSE parked[r]
  <2>1. v \in Terminal
    BY DEF IInv, Terminal, Verdicts, ServiceTypeOK
  <2> QED  BY <1>1, <2>1, FinalizeMoves DEF SpawnFails
<1>2. CASE SpawnSucceeds(r)
  BY <1>2 DEF SpawnSucceeds, MarkStarted, IInv, ServiceTypeOK, LedgerTypeOK,
     ledgerVars, RowsMove, Moves
<1>3. CASE SpawnSettles(r)
  <2>1. CASE UNCHANGED settleVars
    BY <2>1 DEF settleVars, ledgerVars, RowsMove, Moves
  <2>2. CASE \E x \in Run : FinalizeIfActive(x, "failed")
    <3>1. "failed" \in Terminal
      BY DEF Terminal, Verdicts
    <3> QED  BY <2>2, <3>1, FinalizeMoves
  <2> QED  BY <1>3, <2>1, <2>2 DEF SpawnSettles
<1> QED  BY <1>1, <1>2, <1>3 DEF SpawnStep

LEMMA PumpMoves ==
    ASSUME IInv, Pumping \/ PumpGivesUp
    PROVE  RowsMove
<1>1. CASE PumpGivesUp
  BY <1>1 DEF PumpGivesUp, ledgerVars, RowsMove, Moves
<1>2. ASSUME NEW limit \in Limits, NEW A \in SUBSET Queued, PumpQueue(limit, A)
      PROVE  RowsMove
  <2>1. server = "open" /\ shutdown = "no"
    BY <1>2 DEF PumpQueue, IInv, ServiceTypeOK, ServiceInv, MemoryOnlyWhenOpen
  <2> QED  BY <1>2, <2>1 DEF PumpQueue, Pump, SweepAdmits, HeadSets, Oversized,
           Queued, Active, Terminal, RowsMove, Moves
<1> QED  BY <1>1, <1>2 DEF Pumping

LEMMA ProcMoves ==
    ASSUME IInv, NEW r \in Run, ProcStep(r)
    PROVE  RowsMove
<1>1. CASE GroupDeathObserved(r)
  <2>1. \A v \in Outcomes(r) : v \in Terminal
    BY DEF IInv, Outcomes, Terminal, Verdicts, ServiceTypeOK
  <2> QED  BY <1>1, <2>1, FinalizeMoves DEF GroupDeathObserved
<1>2. CASE UNCHANGED ledgerVars
  BY <1>2 DEF ledgerVars, RowsMove, Moves
<1> QED  BY <1>1, <1>2 DEF ProcStep, LeaderExits, StraysDie, GroupKilled,
         BarrierAborts, TimesOut, Becomes, procOnly, settleVars

LEMMA SweepMoves ==
    ASSUME IInv, NEW w \in Sweeper, SweepStep(w)
    PROVE  RowsMove
<1>1. CASE UNCHANGED settleVars
  BY <1>1 DEF settleVars, ledgerVars, RowsMove, Moves
<1>2. ASSUME NEW r \in Run, FinalizeIfActive(r, "interrupted") \/ CancelRun(r, "interrupted")
      PROVE  RowsMove
  <2>1. "interrupted" \in Terminal
    BY DEF Terminal, Verdicts
  <2> QED  BY <1>2, <2>1, FinalizeMoves, CancelRunMoves
<1>3. SweepResumes(w) => sweep[w].killing \in Run
  BY DEF SweepResumes, IInv, ServiceTypeOK, Sweep
<1> QED  BY <1>1, <1>2, <1>3 DEF SweepStep, SweepBegins, SweepVisits, SweepResumes

LEMMA CloseMoves ==
    ASSUME IInv, ShutdownStep
    PROVE  RowsMove
<1>1. CASE UNCHANGED ledgerVars
  BY <1>1 DEF ledgerVars, RowsMove, Moves
<1>2. CASE ShutdownDrains
  BY <1>2 DEF ShutdownDrains, Running, Queued, IInv, ServiceTypeOK, ServiceInv,
     MemoryOnlyWhenOpen, Active, Terminal, Verdicts, RowsMove, Moves
<1> QED  BY <1>1, <1>2 DEF ShutdownStep, ShutdownBegins, ShutdownDone

LEMMA RestartMoves ==
    ASSUME IInv, RestartStep
    PROVE  RowsMove
<1>1. CASE UNCHANGED ledgerVars
  BY <1>1 DEF ledgerVars, RowsMove, Moves
<1>2. ASSUME NEW r \in Run, CrashBeforeRelease(r) \/ RecoverRow(r)
      PROVE  RowsMove
  BY <1>2 DEF CrashBeforeRelease, RecoverRow, MarkStarted, Release, IInv,
     ServiceTypeOK, LedgerTypeOK, Terminal, Verdicts, RowsMove, Moves
<1> QED  BY <1>1, <1>2 DEF RestartStep, Crash, Start, LeaveUnverified, RecoveryEnds,
         settleVars

LEMMA StepMoves ==
    ASSUME IInv, [ServiceNext]_serviceVars
    PROVE  RowsMove
<1>1. CASE UNCHANGED ledgerVars
  BY <1>1 DEF ledgerVars, RowsMove, Moves
<1>2. ASSUME NEW r \in Run, Cancel(r)
      PROVE  RowsMove
  BY <1>2, CancelRunMoves DEF Cancel
<1>3. \A r \in Run : ResumeCancel(r) \/ LeaseExpires(r) \/ Renew(r) => UNCHANGED ledgerVars
  BY DEF ResumeCancel, LeaseExpires, Renew, settleVars
<1>4. CASE UNCHANGED serviceVars
  BY <1>1, <1>4 DEF serviceVars, settleVars
<1>5. CASE ServiceNext
  BY <1>1, <1>2, <1>3, <1>5, SubmitMoves, SpawnMoves, ProcMoves, PumpMoves, SweepMoves,
     CloseMoves, RestartMoves DEF ServiceNext, Submit
<1> QED  BY <1>4, <1>5

(* After the shutdown fence no run enters the ledger or gains capacity:    *)
(* every admission looks at the fence after its last await.                *)
THEOREM FenceHolds == ServiceSpec => FenceAdmitsNothing
<1>1. IInv /\ [ServiceNext]_serviceVars =>
        [shutdown # "no" =>
          \A r \in Run : status'[r] \in Active => status'[r] = status[r]]_serviceVars
  BY StepMoves DEF RowsMove, Moves, Active, Terminal, Verdicts
<1> QED  BY <1>1, ServiceInvariant, PTL DEF ServiceSpec, FenceAdmitsNothing

(* A service whose recovery failed keeps its hands off every row.          *)
THEOREM ForeignRowsStay == ServiceSpec => ForeignRowsKept
<1>1. IInv /\ [ServiceNext]_serviceVars =>
        [server = "degraded" => status' = status]_serviceVars
  <2> SUFFICES ASSUME IInv, [ServiceNext]_serviceVars, server = "degraded"
               PROVE  status' = status
    OBVIOUS
  <2>1. \A r \in Run : status'[r] = status[r]
    BY StepMoves DEF RowsMove, Moves
  <2>2. status \in [Run -> Status] /\ status' \in [Run -> Status]
    BY StepKeeps DEF IInv, ServiceTypeOK, LedgerTypeOK
  <2> QED  BY <2>1, <2>2
<1> QED  BY <1>1, ServiceInvariant, PTL DEF ServiceSpec, ForeignRowsKept

(* Also of the service with its crashes and recoveries: a verdict is given *)
(* once and no row moves backwards.                                        *)
THEOREM ServiceVerdictsAreFinal == ServiceSpec => VerdictIsFinal
<1>1. IInv /\ [ServiceNext]_serviceVars =>
        [\A r \in Run :
          /\ status[r] \in Terminal => status'[r] = status[r]
          /\ status[r] = "running" => status'[r] # "queued"
          /\ started[r] => started'[r]]_ledgerVars
  BY StepMoves DEF RowsMove, Moves, Active, Terminal, Verdicts
<1> QED  BY <1>1, ServiceInvariant, PTL DEF ServiceSpec, VerdictIsFinal

-----------------------------------------------------------------------------
(* The start barrier.                                                       *)

\* Only a spawn whose cancellation is not parked makes a group work.
BarrierHolds == \A r \in Run : proc'[r] = "working" => proc[r] = "working" \/ parked[r] = "none"

LEMMA StepKeepsBarrier ==
    ASSUME IInv, [ServiceNext]_serviceVars
    PROVE  BarrierHolds
<1> USE DEF IInv, ServiceTypeOK, BarrierHolds
<1>1. CASE UNCHANGED proc
  BY <1>1
<1>2. ASSUME NEW r \in Run, SpawnCalled(r)
      PROVE  BarrierHolds
  BY <1>2 DEF SpawnCalled
<1>3. ASSUME NEW r \in Run, SpawnStep(r) \/ Cancel(r) \/ ResumeCancel(r)
      PROVE  BarrierHolds
  <2>1. CASE SpawnSucceeds(r)
    BY <2>1 DEF SpawnSucceeds, PassesBarrier
  <2>2. SpawnSettles(r) /\ ~UNCHANGED proc => \E x \in Run : SpawnCalled(x)
    BY DEF SpawnSettles, ServiceInv, RowBookkeeping
  <2> QED  BY <1>1, <1>2, <1>3, <2>1, <2>2 DEF SpawnStep, SpawnFails, Cancel, ResumeCancel
<1>4. CASE Submit
  BY <1>1, <1>2, <1>4 DEF Submit, SubmitAndSpawn, SubmitAndWait
<1>5. CASE Pumping \/ PumpGivesUp
  <2>1. ASSUME NEW limit \in Limits, NEW A \in SUBSET Queued, PumpQueue(limit, A), A # {}
        PROVE  SpawnCalled(Oldest(A)) /\ Oldest(A) \in Run
    <3>1. A \in SUBSET Rows /\ OrdersDistinct /\ LedgerTypeOK
      BY DEF Queued, Rows, ServiceInv
    <3> QED  BY <2>1, <3>1, OldestExists DEF PumpQueue, Rows
  <2> QED  BY <1>1, <1>2, <1>5, <2>1 DEF Pumping, PumpQueue, PumpGivesUp
<1>6. ASSUME NEW r \in Run, ProcStep(r)
      PROVE  BarrierHolds
  BY <1>6 DEF ProcStep, LeaderExits, StraysDie, GroupKilled, BarrierAborts, TimesOut,
     GroupDeathObserved, Becomes
<1>7. ASSUME NEW r \in Run, LeaseExpires(r) \/ Renew(r)
      PROVE  BarrierHolds
  BY <1>1, <1>7 DEF LeaseExpires, Renew, leaseFrame
<1>8. ASSUME NEW w \in Sweeper, SweepStep(w)
      PROVE  BarrierHolds
  BY <1>1, <1>8 DEF SweepStep, SweepBegins, SweepVisits, SweepResumes, leaseFrame
<1>9. CASE ShutdownStep \/ RestartStep
  BY <1>1, <1>9 DEF ShutdownStep, ShutdownBegins, ShutdownDrains, ShutdownDone, shutFrame,
     RestartStep, Crash, CrashBeforeRelease, ServerDies, Start, RecoverRow,
     LeaveUnverified, RecoveryEnds
<1>10. CASE UNCHANGED serviceVars
  BY <1>1, <1>10 DEF serviceVars
<1> QED  BY <1>3, <1>4, <1>5, <1>6, <1>7, <1>8, <1>9, <1>10 DEF ServiceNext

(* A cancellation accepted while the spawn is in flight is honoured:       *)
(* confirmStart is reached only if none is parked.                         *)
THEOREM ParkedCancelHolds == ServiceSpec => ParkedNeverStarts
<1>1. IInv /\ [ServiceNext]_serviceVars =>
        [\A r \in Run :
          parked[r] # "none" /\ proc[r] \in {"none", "barriered"}
              => proc'[r] # "working"]_serviceVars
  BY StepKeepsBarrier DEF BarrierHolds
<1> QED  BY <1>1, ServiceInvariant, PTL DEF ServiceSpec, ParkedNeverStarts

-----------------------------------------------------------------------------
(* Steps of an open or stopping service that settle the rows S, if any, and *)
(* otherwise only pass the rows on: what a spawn or a canceller lets go of,  *)
(* a handle has.                                                            *)

Settles(S) ==
    /\ \A r \in S : status[r] \in Active /\ status'[r] \in Terminal
    /\ \A r \in Run \ S : status'[r] = status[r]
    /\ results' = results \cup S
    /\ prepared' = prepared \ S
    /\ handles \ S \subseteq handles'

Keeps(r) == r \in handles' \/ spawn'[r] = "pending"

PassesOn(S) ==
    /\ UNCHANGED <<server, owned, closeVars>>
    /\ \A r \in Run \ S : spawn[r] = "pending" => Keeps(r)
    /\ \A q \in Run : nextSpawn'[q] # nextSpawn[q] =>
          /\ nextSpawn'[q] = NoRun
          /\ \/ nextSpawn[q] \in S \/ nextSpawn[q] \notin prepared
             \/ spawn'[nextSpawn[q]] = "pending"
    /\ \A r \in joining \ joining' : spawn[r] # "pending"
    /\ \A w \in Sweeper : LET r == sweep'[w].killing IN
          r # sweep[w].killing /\ r # NoRun => Keeps(r) \/ status'[r] \in Terminal

LEMMA SettlingKeeps ==
    ASSUME VerdictInv, IInv', NEW S \in SUBSET owned, Settles(S), PassesOn(S)
    PROVE  VerdictParts'
<1> USE DEF VerdictInv, VerdictParts, Settles, PassesOn, Keeps
<1>1. S \subseteq Run /\ owned \subseteq Run
  BY DEF IInv, ServiceTypeOK
<1>2. Carried'
  BY <1>1 DEF Carried, Running, Queued, Active, Terminal, Verdicts
<1>3. KillsAreUnderWay'
  BY <1>1 DEF KillsAreUnderWay, Active, Terminal, Verdicts, IInv, ServiceTypeOK, Sweep
<1>4. ResultsAreVerdicts' /\ ResultsMatchLedger'
  BY <1>1 DEF ResultsAreVerdicts, ResultsMatchLedger, IInv, ServiceTypeOK, Active,
     Terminal, Verdicts
<1>5. Closing'
  BY <1>1 DEF Closing, closeVars, Active, Terminal, Verdicts
<1>6. CleanShutdown'
  BY <1>1 DEF CleanShutdown, closeVars, Closing, IInv, ServiceInv, LiveBookkeeping,
     Recorded, Active, Terminal, Verdicts
<1> QED  BY <1>2, <1>3, <1>4, <1>5, <1>6

LEMMA FinalizeSettles ==
    ASSUME IInv, NEW r \in Run, NEW v \in Terminal, FinalizeIfActive(r, v),
           spawn[r] = "pending" => spawn'[r] = "pending" \/ (r \in owned /\ status[r] \in Active)
    PROVE  \E S \in SUBSET owned :
              /\ Settles(S)
              /\ S = IF r \in owned /\ status[r] \in Active THEN {r} ELSE {}
<1>1. CASE r \in owned /\ status[r] \in Active
  <2>1. Settles({r})
    BY <1>1 DEF Settles, FinalizeIfActive, Finalize, Forget, Release, IInv, ServiceTypeOK,
       LedgerTypeOK
  <2> QED  BY <1>1, <2>1
<1>2. CASE ~(r \in owned /\ status[r] \in Active)
  <2>1. Settles({})
    BY <1>2 DEF Settles, FinalizeIfActive, settleVars, ledgerVars
  <2> QED  BY <1>2, <2>1
<1> QED  BY <1>1, <1>2

LEMMA CancelRunSettles ==
    ASSUME VerdictInv, IInv', NEW r \in Run, NEW as \in {"cancelled", "interrupted"},
           CancelRun(r, as), UNCHANGED <<server, owned, spawn, nextSpawn, closeVars>>,
           \A w \in Sweeper : LET k == sweep'[w].killing IN
               k = sweep[w].killing \/ k = NoRun \/ (k = r /\ (k \in handles \/ spawn[k] # "idle")),
           sweep' # sweep => r \in Running
    PROVE  VerdictParts'
<1>1. r \in Running /\ spawn[r] # "idle" => r \in handles \/ spawn[r] = "pending"
  BY NoRunAssumption DEF VerdictInv, VerdictParts, Carried, IInv, ServiceInv, MemoryOnlyWhenOpen,
     PumpBookkeeping, Unspawned
<1>2. CASE CancelUnspawned(r, as)
  <2>1. FinalizeIfActive(r, as) /\ as \in Terminal /\ joining' = joining
    BY <1>2 DEF CancelUnspawned, Finalize, Release, FinalizeIfActive, Terminal, Verdicts
  <2>2. PICK S \in SUBSET owned : Settles(S)
    BY <2>1, FinalizeSettles DEF VerdictInv
  <2>3. PassesOn(S)
    BY <1>1, <1>2, <2>1, <2>2 DEF PassesOn, Keeps, Settles, CancelUnspawned
  <2> QED  BY <2>2, <2>3, SettlingKeeps
<1>3. CASE ParkCancel(r, as) \/ CancelTracked(r, as)
  <2>1. Settles({}) /\ joining \subseteq joining' /\ handles' = handles
    BY <1>3 DEF Settles, ParkCancel, CancelTracked, ledgerVars
  <2>2. PassesOn({})
    BY <1>1, <2>1 DEF PassesOn, Keeps
  <2> QED  BY <2>1, <2>2, SettlingKeeps
<1> QED  BY <1>2, <1>3 DEF CancelRun

LEMMA QuietKeeps ==
    ASSUME VerdictInv, IInv',
           UNCHANGED <<ledgerVars, results, prepared, handles, spawn, nextSpawn, server,
                       owned, joining, closeVars>>,
           \A w \in Sweeper : sweep'[w].killing \in {sweep[w].killing, NoRun}
    PROVE  VerdictParts'
<1>1. Settles({}) /\ PassesOn({})
  BY DEF Settles, PassesOn, Keeps, ledgerVars
<1> QED  BY <1>1, SettlingKeeps

LEMMA CancelVerdicts ==
    ASSUME VerdictInv, IInv', NEW r \in Run, Cancel(r) \/ ResumeCancel(r)
    PROVE  VerdictParts'
<1>1. CASE Cancel(r)
  BY <1>1, CancelRunSettles DEF Cancel, reconVars
<1>2. CASE ResumeCancel(r)
  <2>1. Settles({}) /\ PassesOn({})
    BY <1>2 DEF ResumeCancel, Settles, PassesOn, Keeps, ledgerVars, reconVars
  <2> QED  BY <2>1, SettlingKeeps
<1> QED  BY <1>1, <1>2

LEMMA SpawnVerdicts ==
    ASSUME VerdictInv, IInv', NEW r \in Run, SpawnStep(r)
    PROVE  VerdictParts'
<1> USE DEF VerdictInv, IInv, ServiceTypeOK, reconVars
<1>1. CASE SpawnFails(r)
  <2> DEFINE v == IF parked[r] = "none" THEN "failed" ELSE parked[r]
  <2>1. v \in Terminal /\ FinalizeIfActive(r, v)
    BY <1>1 DEF SpawnFails, Terminal, Verdicts
  <2> HIDE DEF v
  <2>2. r \in owned /\ status[r] \in Active
    BY <1>1 DEF SpawnFails, ServiceInv, RowBookkeeping, Active
  <2>3. PICK S \in SUBSET owned : Settles(S) /\ S = {r}
    BY <2>1, <2>2, FinalizeSettles
  <2>4. PassesOn(S)
    BY <1>1, <2>3 DEF PassesOn, Keeps, SpawnFails
  <2> QED  BY <2>3, <2>4, SettlingKeeps
<1>2. CASE SpawnSucceeds(r)
  <2>1. Settles({}) /\ PassesOn({})
    BY <1>2 DEF SpawnSucceeds, MarkStarted, Settles, PassesOn, Keeps, ledgerVars
  <2> QED  BY <2>1, SettlingKeeps
<1>3. CASE SpawnSettles(r)
  <2> DEFINE x == nextSpawn[r]
  <2>1. /\ spawn[r] = "settled" /\ nextSpawn' = [nextSpawn EXCEPT ![r] = NoRun]
        /\ UNCHANGED <<reconVars, owned, joining, sweep, closeVars>>
    BY <1>3 DEF SpawnSettles
  <2>2. CASE UNCHANGED settleVars /\ spawn' = [spawn EXCEPT ![r] = "idle"] /\ x = NoRun
    <3>1. Settles({}) /\ PassesOn({})
      BY <2>1, <2>2, NoRunAssumption DEF Settles, PassesOn, Keeps, settleVars, ledgerVars
    <3> QED  BY <3>1, SettlingKeeps
  <2>3. CASE x \in prepared /\ UNCHANGED settleVars
             /\ spawn' = [spawn EXCEPT ![r] = "idle", ![x] = "pending"]
    <3>1. x \in Run
      BY <2>3
    <3>2. Settles({}) /\ PassesOn({})
      BY <2>1, <2>3, <3>1 DEF Settles, PassesOn, Keeps, settleVars, ledgerVars
    <3> QED  BY <3>2, SettlingKeeps
  <2>4. CASE x \in Run \ prepared /\ FinalizeIfActive(x, "failed")
             /\ spawn' = [spawn EXCEPT ![r] = "idle", ![x] = "settled"]
    <3>1. "failed" \in Terminal
      BY DEF Terminal, Verdicts
    <3>2. spawn[x] = "idle"
      BY <2>4, NoRunAssumption DEF ServiceInv, PumpBookkeeping, Unspawned
    <3>3. PICK S \in SUBSET owned : Settles(S)
      BY <2>4, <3>1, <3>2, FinalizeSettles
    <3>4. PassesOn(S)
      BY <2>1, <2>4, <3>2, <3>3 DEF Settles, PassesOn, Keeps
    <3> QED  BY <3>3, <3>4, SettlingKeeps
  <2> QED  BY <1>3, <2>2, <2>3, <2>4 DEF SpawnSettles
<1> QED  BY <1>1, <1>2, <1>3 DEF SpawnStep

LEMMA ProcVerdicts ==
    ASSUME VerdictInv, IInv', NEW r \in Run, ProcStep(r) \/ LeaseExpires(r) \/ Renew(r)
    PROVE  VerdictParts'
<1>1. CASE GroupDeathObserved(r)
  <2>1. PICK v \in Outcomes(r) : FinalizeIfActive(r, v)
    BY <1>1 DEF GroupDeathObserved
  <2>2. v \in Terminal
    BY DEF VerdictInv, IInv, Outcomes, Terminal, Verdicts, ServiceTypeOK
  <2>3. spawn' = spawn /\ UNCHANGED <<server, owned, nextSpawn, joining, closeVars, sweep>>
    BY <1>1 DEF GroupDeathObserved, reconVars
  <2>4. PICK S \in SUBSET owned : Settles(S)
    BY <2>1, <2>2, <2>3, FinalizeSettles DEF VerdictInv
  <2>5. PassesOn(S)
    BY <2>3, <2>4 DEF PassesOn, Keeps, Settles
  <2> QED  BY <2>4, <2>5, SettlingKeeps
<1>2. CASE ~GroupDeathObserved(r)
  BY <1>2, QuietKeeps DEF ProcStep, LeaderExits, StraysDie, GroupKilled, BarrierAborts,
     TimesOut, Becomes, procOnly, settleVars, reconVars, LeaseExpires, Renew, leaseFrame
<1> QED  BY <1>1, <1>2

LEMMA SweepVerdicts ==
    ASSUME VerdictInv, IInv', NEW w \in Sweeper, SweepStep(w)
    PROVE  VerdictParts'
<1>1. CASE SweepBegins(w)
  BY <1>1, QuietKeeps DEF SweepBegins, Snapshot, leaseFrame, settleVars, reconVars,
     VerdictInv, IInv, ServiceTypeOK
<1>2. ASSUME NEW r \in Run, FinalizeIfActive(r, "interrupted"), UNCHANGED <<joining, leaseFrame>>,
             \A u \in Sweeper : sweep'[u].killing \in {sweep[u].killing, NoRun}
      PROVE  VerdictParts'
  <2>1. "interrupted" \in Terminal
    BY DEF Terminal, Verdicts
  <2>2. PICK S \in SUBSET owned : Settles(S)
    BY <1>2, <2>1, FinalizeSettles DEF VerdictInv, leaseFrame
  <2>3. PassesOn(S)
    BY <1>2, <2>2 DEF PassesOn, Keeps, Settles, leaseFrame, reconVars
  <2> QED  BY <2>2, <2>3, SettlingKeeps
<1>3. ASSUME NEW r \in Run, NEW k, Visited(w, r, k)
      PROVE  /\ sweep'[w].killing = k
             /\ \A u \in Sweeper \ {w} : sweep'[u] = sweep[u]
  BY <1>3 DEF Visited, VerdictInv, IInv, ServiceTypeOK
<1>4. ASSUME NEW r \in Run, SweepVisits(w, r)
      PROVE  VerdictParts'
  <2>1. CASE Visited(w, r, NoRun) /\ UNCHANGED <<settleVars, joining>>
    BY <1>3, <1>4, <2>1, QuietKeeps DEF SweepVisits, settleVars, leaseFrame, reconVars
  <2>2. CASE r \in Running /\ CancelRun(r, "interrupted")
             /\ Visited(w, r, IF spawn[r] # "idle" \/ r \in handles THEN r ELSE NoRun)
    <3>1. \A u \in Sweeper : LET k == sweep'[u].killing IN
               k = sweep[u].killing \/ k = NoRun \/ (k = r /\ (k \in handles \/ spawn[k] # "idle"))
      BY <1>3, <2>2
    <3> QED  BY <1>4, <2>2, <3>1, CancelRunSettles DEF SweepVisits, leaseFrame, reconVars
  <2>3. CASE FinalizeIfActive(r, "interrupted") /\ Visited(w, r, NoRun) /\ UNCHANGED joining
    BY <1>2, <1>3, <1>4, <2>3 DEF SweepVisits
  <2> QED  BY <1>4, <2>1, <2>2, <2>3 DEF SweepVisits
<1>5. CASE SweepResumes(w)
  <2>1. \A u \in Sweeper : sweep'[u].killing \in {sweep[u].killing, NoRun}
    BY <1>5 DEF SweepResumes, VerdictInv, IInv, ServiceTypeOK, Sweep
  <2>2. sweep[w].killing \in Run
    BY <1>5 DEF SweepResumes, VerdictInv, IInv, ServiceTypeOK, Sweep
  <2> QED  BY <1>2, <1>5, <2>1, <2>2 DEF SweepResumes
<1> QED  BY <1>1, <1>4, <1>5 DEF SweepStep

LEMMA SubmitVerdicts ==
    ASSUME VerdictInv, IInv', NEW r \in Run, NEW c \in Costs, NEW limit \in Limits,
           SubmitAndSpawn(r, c, limit) \/ SubmitAndWait(r, c, limit)
    PROVE  VerdictParts'
<1> USE DEF VerdictInv, VerdictParts, IInv, ServiceTypeOK, LedgerTypeOK
<1>1. PICK s \in Active :
        /\ status[r] = "absent" /\ status' = [status EXCEPT ![r] = s]
        /\ s = "running" => spawn' = [spawn EXCEPT ![r] = "pending"]
        /\ s = "queued" => spawn' = spawn
  BY DEF SubmitAndSpawn, SubmitAndWait, SubmitAdmitted, SubmitQueued, Insert, Active
<1>2. /\ server = "open" /\ shutdown = "no"
      /\ owned' = owned \cup {r} /\ prepared' = prepared \cup {r}
      /\ UNCHANGED <<handles, results, server, joining, nextSpawn, sweep, closeVars>>
  BY DEF SubmitAndSpawn, SubmitAndWait, Admissible, Accept, reconVars
<1>3. Carried'
  BY <1>1, <1>2 DEF Carried, Running, Queued, Active
<1>4. KillsAreUnderWay'
  BY <1>1, <1>2 DEF KillsAreUnderWay, Active, Terminal, Verdicts, Sweep
<1>5. ResultsAreVerdicts' /\ ResultsMatchLedger'
  BY <1>1, <1>2 DEF ResultsAreVerdicts, ResultsMatchLedger, Active, Terminal, Verdicts
<1>6. Closing' /\ CleanShutdown'
  BY <1>2 DEF Closing, CleanShutdown, closeVars
<1> QED  BY <1>3, <1>4, <1>5, <1>6

(* The loop of a pump reaches every row it admitted: each but the oldest   *)
(* follows the youngest of those before it.                                *)
LEMMA PumpPredecessor ==
    ASSUME LedgerTypeOK, OrdersDistinct, NEW A \in SUBSET Rows, NEW r \in A, r # Oldest(A)
    PROVE  \E q \in A : LET Rest == {s \in A : Older(q, s)} IN
              Rest # {} /\ Oldest(Rest) = r
<1> DEFINE B == {s \in A : Older(s, r)}
           T == {queueOrder[r] - queueOrder[s] : s \in B}
<1>1. \A s \in A : queueOrder[s] \in Nat
  BY DEF LedgerTypeOK, Rows
<1>2. Oldest(A) \in B
  BY OldestExists
<1>3. T \subseteq Nat /\ T # {}
  BY <1>1, <1>2 DEF Older
<1>4. PICK n \in T : \A m \in T : ~ (<<m, n>> \in OpToRel(<, Nat))
  <2>1. PICK t \in T : TRUE
    BY <1>3
  <2> HIDE DEF T
  <2> QED  BY <1>3, <2>1, NatLessThanWellFounded, WFMin
<1>5. PICK q \in B : queueOrder[r] - queueOrder[q] = n
  BY <1>4
<1>6. \A s \in B : ~Older(q, s)
  <2> SUFFICES ASSUME NEW s \in B, Older(q, s) PROVE FALSE
    OBVIOUS
  <2> DEFINE m == queueOrder[r] - queueOrder[s]
  <2>1. m \in T /\ m < n /\ queueOrder[s] \in Nat
    BY <1>1, <1>5 DEF Older
  <2> HIDE DEF T, m, B
  <2>2. m \in Nat /\ n \in Nat
    BY <1>3, <1>4, <2>1
  <2>3. <<m, n>> \in OpToRel(<, Nat)
    BY <2>1, <2>2 DEF OpToRel
  <2> QED  BY <1>4, <2>1, <2>3
<1> DEFINE Rest == {s \in A : Older(q, s)}
<1>7. r \in Rest /\ Rest \in SUBSET Rows
  BY <1>5
<1>8. Oldest(Rest) \in Rest /\ (r # Oldest(Rest) => Older(Oldest(Rest), r))
  BY <1>7, OldestExists
<1>9. Oldest(Rest) = r
  BY <1>6, <1>8
<1> QED  BY <1>7, <1>9

LEMMA PumpVerdicts ==
    ASSUME VerdictInv, IInv', Pumping \/ PumpGivesUp
    PROVE  VerdictParts'
<1>1. CASE PumpGivesUp
  BY <1>1, QuietKeeps DEF PumpGivesUp, reconVars
<1>2. ASSUME NEW limit \in Limits, NEW A \in SUBSET Queued, PumpQueue(limit, A)
      PROVE  VerdictParts'
  <2> DEFINE Rest(r) == {s \in A : Older(r, s)}
             Out == Oversized(limit)
  <2> USE DEF VerdictInv, VerdictParts, IInv, ServiceTypeOK
  <2>1. /\ server = "open" /\ shutdown = "no"
        /\ prepared' = prepared \ Out /\ results' = results \cup Out
        /\ nextSpawn' = [r \in Run |-> IF r \in A
                            THEN IF Rest(r) = {} THEN NoRun ELSE Oldest(Rest(r))
                            ELSE nextSpawn[r]]
        /\ A # {} => spawn' = [spawn EXCEPT ![Oldest(A)] = "pending"]
        /\ A = {} => spawn' = spawn
        /\ UNCHANGED <<handles, owned, server, joining, sweep, closeVars>>
    BY <1>2 DEF PumpQueue, ServiceInv, MemoryOnlyWhenOpen, reconVars
  <2>2. /\ A \subseteq Queued \ Out /\ Out \subseteq Queued
        /\ \A r \in Run : status'[r] = IF r \in Out THEN "cost_exceeds_limit"
                                      ELSE IF r \in A THEN "running" ELSE status[r]
    BY <1>2 DEF PumpQueue, Pump, SweepAdmits, HeadSets, Oversized
  <2>3. A \in SUBSET Rows /\ LedgerTypeOK /\ OrdersDistinct /\ Queued \subseteq owned
    BY <2>1 DEF Queued, Rows, ServiceInv, OpenOwnsActive, Active
  <2>4. A # {} => Oldest(A) \in A
    BY <2>3, OldestExists
  <2>5. \A r \in A : spawn'[r] = "pending" \/ \E q \in Run : nextSpawn'[q] = r
    <3>0. /\ spawn \in [Run -> {"idle", "pending", "settled"}] /\ A \subseteq Run
          /\ A # {} => spawn' = [spawn EXCEPT ![Oldest(A)] = "pending"]
      BY <2>1, <2>3 DEF Rows
    <3> HIDE DEF VerdictInv, VerdictParts, IInv, ServiceTypeOK
    <3> SUFFICES ASSUME NEW r \in A, r # Oldest(A) PROVE \E q \in Run : nextSpawn'[q] = r
      BY <2>4, <3>0
    <3>1. PICK q \in A : Rest(q) # {} /\ Oldest(Rest(q)) = r
      BY <2>3, PumpPredecessor
    <3>2. q \in Run
      BY <2>3, <3>1 DEF Rows
    <3>3. nextSpawn'[q] = Oldest(Rest(q))
      BY <2>1, <3>1, <3>2
    <3> QED  BY <3>1, <3>2, <3>3
  <2>6. \A r \in Run : spawn[r] = "pending" => spawn'[r] = "pending"
    BY <2>1
  <2>7. ASSUME NEW r \in Run, r \notin A, NEW q \in Run, nextSpawn[q] = r
        PROVE  nextSpawn'[q] = r
    BY <2>1, <2>3, <2>7, NoRunAssumption DEF Carried, Queued
  <2> HIDE DEF Rest, Out
  <2>8. Carried'
    <3>1. \A r \in Running' : r \in A \/ (r \in Running /\ r \notin Out)
      BY <2>2 DEF Running, Queued
    <3>2. A \subseteq prepared'
      BY <2>1, <2>2 DEF Carried
    <3>3. \A r \in Running' :
              \/ r \in handles' \/ spawn'[r] = "pending"
              \/ r \in prepared' /\ \E q \in Run : nextSpawn'[q] = r
      BY <2>1, <2>2, <2>5, <2>6, <2>7, <3>1, <3>2 DEF Carried, Running, Queued
    <3>4. Queued' \subseteq prepared'
      BY <2>1, <2>2 DEF Carried, Queued
    <3>5. \A q \in Run : status'[q] \in {"absent", "queued"} => nextSpawn'[q] = NoRun
      BY <2>1, <2>2 DEF Carried, Queued
    <3> QED  BY <3>3, <3>4, <3>5 DEF Carried
  <2>9. KillsAreUnderWay'
    BY <2>1, <2>2, <2>6 DEF KillsAreUnderWay, Queued, Terminal, Verdicts, Sweep
  <2>10. ResultsAreVerdicts' /\ ResultsMatchLedger'
    BY <2>1, <2>2, <2>3 DEF ResultsAreVerdicts, ResultsMatchLedger, Queued, Terminal, Verdicts
  <2>11. Closing' /\ CleanShutdown'
    BY <2>1 DEF Closing, CleanShutdown, closeVars
  <2> QED  BY <2>8, <2>9, <2>10, <2>11
<1> QED  BY <1>1, <1>2 DEF Pumping

-----------------------------------------------------------------------------
(* Shutdown: what it cannot settle at once it awaits, and nothing is added. *)

LEMMA ShutdownVerdicts ==
    ASSUME VerdictInv, IInv', ShutdownBegins \/ ShutdownDrains
    PROVE  VerdictParts'
<1> USE DEF VerdictInv, VerdictParts, IInv, ServiceTypeOK
<1>1. CASE ShutdownBegins
  <2>1. /\ server = "open" /\ shutdown' = "killing" /\ handles \subseteq Run
        /\ UNCHANGED <<ledgerVars, prepared, handles, results, server, owned, spawn,
                       nextSpawn, sweep>>
    BY <1>1 DEF ShutdownBegins, shutFrame, reconVars
  <2>2. Carried' /\ KillsAreUnderWay' /\ ResultsAreVerdicts' /\ ResultsMatchLedger'
    BY <2>1 DEF ledgerVars, Carried, Running, Queued, KillsAreUnderWay, ResultsAreVerdicts,
       ResultsMatchLedger
  <2>3. Closing' /\ CleanShutdown'
    BY <2>1 DEF Closing, CleanShutdown
  <2> QED  BY <2>2, <2>3
<1>2. CASE ShutdownDrains
  <2> DEFINE active == Running \cup Queued
             U == {r \in active : spawn[r] = "idle" /\ r \notin handles} \cap owned
  <2>1. /\ shutdown = "killing" /\ shutdown' = "draining" /\ awaited' = active
        /\ \A r \in Run : status'[r] = IF r \in U THEN "interrupted" ELSE status[r]
        /\ prepared' = prepared \ U /\ results' = results \cup U
        /\ joining' = joining \cup {r \in active : spawn[r] # "idle"}
        /\ UNCHANGED <<handles, server, owned, spawn, nextSpawn, sweep>>
    BY <1>2 DEF ShutdownDrains, InterruptTracked, shutFrame, reconVars
  <2>2. server = "open"
    BY <2>1 DEF Closing
  <2>3. U \subseteq owned /\ \A r \in U : status[r] \in Active
    BY DEF Running, Queued, Active
  <2>4. \A r \in Run : status[r] \in Active /\ r \notin U =>
            r \in active /\ (r \in handles \/ spawn[r] = "pending")
    BY <2>2, NoRunAssumption DEF Running, Queued, Active, Carried, ServiceInv, OpenOwnsActive,
       PumpBookkeeping, RowBookkeeping, Unspawned
  <2>5. \A r \in active : spawn[r] = "pending" => r \in joining'
    BY <2>1
  <2> HIDE DEF U, active
  <2>6. Carried'
    BY <2>1, <2>2, <2>3 DEF Carried, Running, Queued
  <2>7. KillsAreUnderWay'
    BY <2>1 DEF KillsAreUnderWay, Terminal, Verdicts, Sweep
  <2>8. ResultsAreVerdicts' /\ ResultsMatchLedger'
    BY <2>1, <2>3 DEF ResultsAreVerdicts, ResultsMatchLedger, Active, Terminal, Verdicts
  <2>9. Closing' /\ CleanShutdown'
    BY <2>1, <2>2, <2>4, <2>5 DEF Closing, CleanShutdown, Active
  <2> QED  BY <2>6, <2>7, <2>8, <2>9
<1> QED  BY <1>1, <1>2

(* A process that ends takes its promises with it, the graceful one after  *)
(* it has kept them.                                                       *)
LEMMA ProcessEndVerdicts ==
    ASSUME VerdictInv, IInv',
           ShutdownDone \/ Crash \/ \E r \in Run : CrashBeforeRelease(r)
    PROVE  VerdictParts'
<1> USE DEF VerdictInv, VerdictParts, IInv, ServiceTypeOK
<1>1. LoseMemory /\ server' = "down" /\ status' = status
  BY DEF ShutdownDone, Crash, CrashBeforeRelease, ServerDies, MarkStarted, ledgerVars
<1>2. Carried' /\ ResultsAreVerdicts' /\ ResultsMatchLedger'
  BY <1>1 DEF LoseMemory, Carried, ResultsAreVerdicts, ResultsMatchLedger
<1>3. KillsAreUnderWay'
  BY <1>1 DEF LoseMemory, NoSweep, KillsAreUnderWay
<1>4. Closing'
  BY <1>1 DEF ShutdownDone, Crash, CrashBeforeRelease, ServerDies, Closing
<1>5. CleanShutdown'
  <2>1. CASE ShutdownDone
    <3>1. \A q \in Run : status[q] \notin Active
      BY <2>1 DEF ShutdownDone, AllSettled, Closing
    <3> QED  BY <1>1, <3>1 DEF CleanShutdown, ServiceInv, LiveBookkeeping, Recorded, Active
  <2>2. CASE Crash \/ \E r \in Run : CrashBeforeRelease(r)
    BY <2>2 DEF Crash, CrashBeforeRelease, ServerDies, CleanShutdown
  <2> QED  BY <2>1, <2>2
<1> QED  BY <1>2, <1>3, <1>4, <1>5

LEMMA RestartVerdicts ==
    ASSUME VerdictInv, IInv',
           \/ Start \/ RecoveryEnds
           \/ \E r \in Run : RecoverRow(r) \/ LeaveUnverified(r)
    PROVE  VerdictParts'
<1> USE DEF VerdictInv, VerdictParts, IInv, ServiceTypeOK
<1>1. /\ server \in {"down", "recovering"} /\ owned = {}
      /\ UNCHANGED <<prepared, handles, spawn, nextSpawn, sweep, owned>>
  BY DEF Start, RecoverRow, LeaveUnverified, RecoveryEnds, recoverFrame, settleVars,
     ServiceInv, MemoryOnlyWhenOpen
<1>2. /\ \A q \in Run : status'[q] # status[q] => status'[q] \in Terminal
      /\ \A q \in results' : q \in results \/ status'[q] \in Terminal
  BY DEF Start, RecoverRow, LeaveUnverified, RecoveryEnds, recoverFrame, settleVars,
     ledgerVars, Release, LedgerTypeOK, Terminal, Verdicts
<1>3. server' = "open" => \A q \in Run : status'[q] \notin Active
  BY DEF Start, RecoverRow, LeaveUnverified, RecoveryEnds, ServiceInv, StaleRowsListed, ledgerVars
<1>4. shutdown' # "no" => UNCHANGED closeVars /\ server # "down"
  BY DEF Start, RecoverRow, LeaveUnverified, RecoveryEnds, recoverFrame
<1>5. Carried'
  <2>1. \A q \in Run : nextSpawn[q] = NoRun
    BY <1>1 DEF ServiceInv, MemoryOnlyWhenOpen
  <2> QED  BY <1>1, <1>3, <2>1 DEF Carried, Running, Queued, Active
<1>6. KillsAreUnderWay'
  BY <1>1, <1>2 DEF KillsAreUnderWay, Sweep
<1>7. ResultsAreVerdicts' /\ ResultsMatchLedger'
  BY <1>1, <1>2 DEF ResultsAreVerdicts, ResultsMatchLedger
<1>8. Closing' /\ CleanShutdown'
  BY <1>1, <1>4 DEF Closing, CleanShutdown, closeVars
<1> QED  BY <1>5, <1>6, <1>7, <1>8

-----------------------------------------------------------------------------

LEMMA StepKeepsVerdicts ==
    ASSUME VerdictInv, [ServiceNext]_serviceVars
    PROVE  VerdictInv'
<1>0. IInv'
  BY StepKeeps DEF VerdictInv
<1>1. CASE UNCHANGED serviceVars
  BY <1>0, <1>1, QuietKeeps DEF serviceVars, settleVars, reconVars, VerdictInv
<1>2. CASE Submit
  BY <1>0, <1>2, SubmitVerdicts DEF Submit, VerdictInv
<1>3. ASSUME NEW r \in Run,
             \/ Cancel(r) \/ ResumeCancel(r) \/ SpawnStep(r) \/ ProcStep(r)
             \/ LeaseExpires(r) \/ Renew(r)
      PROVE  VerdictInv'
  BY <1>0, <1>3, CancelVerdicts, SpawnVerdicts, ProcVerdicts DEF VerdictInv
<1>4. CASE Pumping \/ PumpGivesUp
  BY <1>0, <1>4, PumpVerdicts DEF VerdictInv
<1>5. ASSUME NEW w \in Sweeper, SweepStep(w)
      PROVE  VerdictInv'
  BY <1>0, <1>5, SweepVerdicts DEF VerdictInv
<1>6. CASE ShutdownStep
  BY <1>0, <1>6, ShutdownVerdicts, ProcessEndVerdicts DEF ShutdownStep, VerdictInv
<1>7. CASE RestartStep
  BY <1>0, <1>7, ProcessEndVerdicts, RestartVerdicts DEF RestartStep, VerdictInv
<1> QED  BY <1>1, <1>2, <1>3, <1>4, <1>5, <1>6, <1>7 DEF ServiceNext

(* The inductive invariant: every run of an open service is on its way to  *)
(* a verdict, and a shutdown waits for all of them.                        *)
THEOREM VerdictInvariant == ServiceSpec => []VerdictInv
<1>1. ServiceInit => VerdictInv
  <2> SUFFICES ASSUME ServiceInit PROVE VerdictParts
    BY InitEstablishes DEF VerdictInv
  <2> QED  BY DEF ServiceInit, LedgerInit, VerdictParts, Carried, KillsAreUnderWay, NoSweep,
           ResultsAreVerdicts, ResultsMatchLedger, Closing, CleanShutdown, Running, Queued
<1> QED  BY <1>1, StepKeepsVerdicts, PTL DEF ServiceSpec

(* No reservation is orphaned: whoever cancels while a pump works through  *)
(* its rows, a running row has a handle, a spawn or a pump going there.    *)
THEOREM NoReservationIsOrphaned == ServiceSpec => []NoOrphanReservation
<1>1. VerdictInv => NoOrphanReservation
  BY DEF VerdictInv, VerdictParts, Carried, NoOrphanReservation
<1> QED  BY <1>1, VerdictInvariant, PTL

(* A waiting client has its result exactly when the row has its verdict.   *)
THEOREM ResultsFollowLedger == ServiceSpec => []ResultsMatchLedger
<1>1. VerdictInv => ResultsMatchLedger
  BY DEF VerdictInv, VerdictParts
<1> QED  BY <1>1, VerdictInvariant, PTL

(* Graceful shutdown leaves no active row and no command behind.           *)
THEOREM ShutdownIsClean == ServiceSpec => []CleanShutdown
<1>1. VerdictInv => CleanShutdown
  BY DEF VerdictInv, VerdictParts
<1> QED  BY <1>1, VerdictInvariant, PTL

-----------------------------------------------------------------------------
(* Who interrupts.                                                          *)

\* Of the rows S, some are interrupted; of the others none.
InterruptsOnly(S) == \A r \in Run : Interrupting(r) => r \in S

LEMMA FinalizeInterrupts ==
    ASSUME IInv, NEW r \in Run, NEW v \in Terminal, FinalizeIfActive(r, v)
    PROVE  /\ InterruptsOnly({r})
           /\ v # "interrupted" \/ r \in forced \/ parked[r] = "interrupted"
                 \/ status[r] \notin Active => InterruptsOnly({})
<1> USE DEF IInv, ServiceTypeOK, LedgerTypeOK, InterruptsOnly, Interrupting
<1>1. CASE Finalize(r, v)
  <2>1. /\ \A q \in Run : q \in forced' => q \in forced
        /\ \A q \in Run : parked'[q] = "interrupted" => parked[q] = "interrupted"
        /\ status[r] \in Active /\ status'[r] = v
        /\ \A q \in Run \ {r} : status'[q] = status[q]
    BY <1>1 DEF Finalize, Forget, Release
  <2> QED  BY <2>1
<1>2. CASE UNCHANGED settleVars
  BY <1>2 DEF settleVars, ledgerVars
<1> QED  BY <1>1, <1>2 DEF FinalizeIfActive

LEMMA CancelRunInterrupts ==
    ASSUME IInv, NEW r \in Run, NEW as \in {"cancelled", "interrupted"}, CancelRun(r, as)
    PROVE  InterruptsOnly({r}) /\ (as = "cancelled" => InterruptsOnly({}))
<1>1. CASE CancelUnspawned(r, as)
  <2>1. FinalizeIfActive(r, as) /\ as \in Terminal
    BY <1>1 DEF CancelUnspawned, Finalize, Release, FinalizeIfActive, Terminal, Verdicts
  <2> QED  BY <2>1, FinalizeInterrupts
<1>2. CASE ParkCancel(r, as) \/ CancelTracked(r, as)
  BY <1>2 DEF ParkCancel, CancelTracked, ledgerVars, InterruptsOnly, Interrupting, IInv,
     ServiceTypeOK
<1> QED  BY <1>1, <1>2 DEF CancelRun

LEMMA SpawnInterrupts ==
    ASSUME IInv, NEW r \in Run, SpawnStep(r)
    PROVE  InterruptsOnly({})
<1>1. CASE SpawnFails(r)
  <2> DEFINE v == IF parked[r] = "none" THEN "failed" ELSE parked[r]
  <2>1. v \in Terminal /\ (v = "interrupted" => parked[r] = "interrupted")
    BY DEF IInv, Terminal, Verdicts, ServiceTypeOK
  <2> QED  BY <1>1, <2>1, FinalizeInterrupts DEF SpawnFails
<1>2. CASE SpawnSucceeds(r)
  BY <1>2 DEF SpawnSucceeds, MarkStarted, ledgerVars, InterruptsOnly, Interrupting, IInv,
     ServiceTypeOK
<1>3. CASE SpawnSettles(r)
  <2>1. CASE UNCHANGED settleVars
    BY <2>1 DEF settleVars, ledgerVars, InterruptsOnly, Interrupting
  <2>2. ASSUME NEW x \in Run, FinalizeIfActive(x, "failed")
        PROVE  InterruptsOnly({})
    <3>1. "failed" \in Terminal
      BY DEF Terminal, Verdicts
    <3> QED  BY <2>2, <3>1, FinalizeInterrupts
  <2> QED  BY <1>3, <2>1, <2>2 DEF SpawnSettles
<1> QED  BY <1>1, <1>2, <1>3 DEF SpawnStep

LEMMA ProcInterrupts ==
    ASSUME IInv, NEW r \in Run, ProcStep(r) \/ LeaseExpires(r) \/ Renew(r) \/ ResumeCancel(r)
    PROVE  InterruptsOnly({})
<1>1. CASE GroupDeathObserved(r)
  <2>1. PICK v \in Outcomes(r) : FinalizeIfActive(r, v)
    BY <1>1 DEF GroupDeathObserved
  <2>2. v \in Terminal /\ (v = "interrupted" => r \in forced)
    BY DEF IInv, Outcomes, Terminal, Verdicts, ServiceTypeOK
  <2> QED  BY <2>1, <2>2, FinalizeInterrupts
<1>2. CASE UNCHANGED <<ledgerVars, parked, forced>>
  BY <1>2 DEF ledgerVars, InterruptsOnly, Interrupting
<1> QED  BY <1>1, <1>2 DEF ProcStep, LeaderExits, StraysDie, GroupKilled, BarrierAborts,
         TimesOut, Becomes, procOnly, settleVars, LeaseExpires, Renew, ResumeCancel

(* A sweep that comes back to a run it killed finds its verdict given: the *)
(* row it finalises is the one it claimed in the same step.                *)
LEMMA SweepInterrupts ==
    ASSUME VerdictInv, NEW w \in Sweeper, SweepStep(w)
    PROVE  InterruptsOnly(expired)
<1> USE DEF VerdictInv, IInv
<1>1. CASE UNCHANGED settleVars
  BY <1>1 DEF settleVars, ledgerVars, InterruptsOnly, Interrupting
<1>2. "interrupted" \in Terminal
  BY DEF Terminal, Verdicts
<1>3. ASSUME NEW r \in Run, r \in expired,
             FinalizeIfActive(r, "interrupted") \/ CancelRun(r, "interrupted")
      PROVE  InterruptsOnly(expired)
  <2>1. InterruptsOnly({r})
    BY <1>2, <1>3, FinalizeInterrupts, CancelRunInterrupts
  <2> QED  BY <1>3, <2>1 DEF InterruptsOnly
<1>4. CASE SweepResumes(w)
  <2> DEFINE r == sweep[w].killing
  <2>1. r \in Run /\ r \notin handles /\ spawn[r] # "pending" /\ FinalizeIfActive(r, "interrupted")
    BY <1>4 DEF SweepResumes, ServiceTypeOK, Sweep
  <2>2. status[r] \notin Active
    BY <2>1, NoRunAssumption DEF VerdictParts, KillsAreUnderWay, Active, Terminal, Verdicts
  <2>3. InterruptsOnly({})
    BY <1>2, <2>1, <2>2, FinalizeInterrupts
  <2> QED  BY <2>3 DEF InterruptsOnly
<1> QED  BY <1>1, <1>3, <1>4 DEF SweepStep, SweepBegins, SweepVisits, Claimed, Lapsed

LEMMA OthersInterrupt ==
    ASSUME IInv, server = "open", shutdown = "no", shutdown' = "no",
           Submit \/ Pumping \/ PumpGivesUp \/ ShutdownStep \/ RestartStep
    PROVE  InterruptsOnly({})
<1> USE DEF IInv, ServiceTypeOK, LedgerTypeOK, InterruptsOnly, Interrupting
<1>1. CASE Submit
  <2>1. PICK r \in Run, s \in Active :
           /\ status' = [status EXCEPT ![r] = s] /\ parked' = parked /\ forced' = forced
    BY <1>1 DEF Submit, SubmitAndSpawn, SubmitAndWait, SubmitAdmitted, SubmitQueued, Insert,
       Accept, Active
  <2> QED  BY <2>1 DEF Active
<1>2. CASE PumpGivesUp
  BY <1>2 DEF PumpGivesUp, ledgerVars
<1>3. ASSUME NEW limit \in Limits, NEW A \in SUBSET Queued, PumpQueue(limit, A)
      PROVE  InterruptsOnly({})
  BY <1>3 DEF PumpQueue, Pump
<1>4. CASE ShutdownStep
  BY <1>4 DEF ShutdownStep, ShutdownBegins, ShutdownDrains, ShutdownDone
<1>5. CASE RestartStep
  BY <1>5 DEF RestartStep, Crash, CrashBeforeRelease, ServerDies, LoseMemory, MarkStarted,
     ledgerVars, Start, RecoverRow, LeaveUnverified, RecoveryEnds
<1> QED  BY <1>1, <1>2, <1>3, <1>4, <1>5 DEF Pumping

(* A renewed lease is never reaped: the sweep looks at the row again       *)
(* without an await before it kills, and kills nothing else later.         *)
THEOREM RenewedAreSpared == ServiceSpec => SweepSparesRenewed
<1>1. VerdictInv /\ [ServiceNext]_serviceVars =>
        [server = "open" /\ shutdown = "no" /\ shutdown' = "no" =>
          \A r \in Run : Interrupting(r) => r \in expired]_serviceVars
  <2> SUFFICES ASSUME VerdictInv, ServiceNext, server = "open", shutdown = "no", shutdown' = "no"
               PROVE  InterruptsOnly(expired)
    BY DEF InterruptsOnly
  <2>1. ASSUME NEW r \in Run, Cancel(r)
        PROVE  InterruptsOnly({})
    BY <2>1, CancelRunInterrupts DEF Cancel, VerdictInv
  <2>2. InterruptsOnly({}) \/ InterruptsOnly(expired)
    BY <2>1, SpawnInterrupts, ProcInterrupts, SweepInterrupts, OthersInterrupt
       DEF ServiceNext, VerdictInv
  <2> QED  BY <2>2 DEF InterruptsOnly
<1> QED  BY <1>1, VerdictInvariant, PTL DEF ServiceSpec, SweepSparesRenewed

-----------------------------------------------------------------------------
(* Capacity: nothing but a submission and a pump takes any, and whatever    *)
(* gives some back calls for a pump.                                        *)

TakesNothing ==
    Running' \subseteq Running /\ Queued' \subseteq Queued /\ UNCHANGED <<cost, queueOrder>>

CallsPump ==
    server' = "open" /\ shutdown' = "no" =>
        \/ pumps' > 0
        \/ Queued' = {}
        \/ /\ Running' = Running /\ pumps' = pumps
           /\ server = "open" /\ shutdown = "no"

LEMMA FinalizeFrees ==
    ASSUME IInv, NEW r \in Run, NEW v \in Terminal, FinalizeIfActive(r, v),
           UNCHANGED <<server, shutdown>>
    PROVE  TakesNothing /\ CallsPump
<1> USE DEF TakesNothing, CallsPump, Running, Queued
<1>1. CASE Finalize(r, v)
  <2>1. /\ \A q \in Run : status'[q] = status[q] \/ status'[q] \notin Active
        /\ UNCHANGED <<cost, queueOrder>>
    BY <1>1 DEF Finalize, Release, IInv, ServiceTypeOK, LedgerTypeOK, Active, Terminal, Verdicts
  <2>2. shutdown = "no" => pumps' > 0
    BY <1>1 DEF Finalize, IInv, ServiceTypeOK
  <2> QED  BY <2>1, <2>2 DEF Active
<1>2. CASE UNCHANGED settleVars
  BY <1>2 DEF settleVars, ledgerVars
<1> QED  BY <1>1, <1>2 DEF FinalizeIfActive

LEMMA CancelRunFrees ==
    ASSUME IInv, NEW r \in Run, NEW as \in {"cancelled", "interrupted"}, CancelRun(r, as),
           UNCHANGED <<server, shutdown>>
    PROVE  TakesNothing /\ CallsPump
<1>1. CASE CancelUnspawned(r, as)
  <2>1. FinalizeIfActive(r, as) /\ as \in Terminal
    BY <1>1 DEF CancelUnspawned, Finalize, Release, FinalizeIfActive, Terminal, Verdicts
  <2> QED  BY <2>1, FinalizeFrees
<1>2. CASE ParkCancel(r, as) \/ CancelTracked(r, as)
  BY <1>2 DEF ParkCancel, CancelTracked, ledgerVars, TakesNothing, CallsPump, Running, Queued
<1> QED  BY <1>1, <1>2 DEF CancelRun

LEMMA QuietFrees ==
    ASSUME UNCHANGED <<ledgerVars, pumps, server, shutdown>>
    PROVE  TakesNothing /\ CallsPump
BY DEF TakesNothing, CallsPump, ledgerVars, Running, Queued

LEMMA RunFrees ==
    ASSUME IInv, NEW r \in Run,
           \/ Cancel(r) \/ ResumeCancel(r) \/ SpawnStep(r) \/ ProcStep(r)
           \/ LeaseExpires(r) \/ Renew(r)
    PROVE  TakesNothing /\ CallsPump
<1> USE DEF reconVars, closeVars
<1>1. CASE Cancel(r)
  BY <1>1, CancelRunFrees DEF Cancel
<1>2. CASE SpawnFails(r)
  <2> DEFINE v == IF parked[r] = "none" THEN "failed" ELSE parked[r]
  <2>1. v \in Terminal
    BY DEF IInv, Terminal, Verdicts, ServiceTypeOK
  <2> QED  BY <1>2, <2>1, FinalizeFrees DEF SpawnFails
<1>3. CASE SpawnSucceeds(r)
  BY <1>3 DEF SpawnSucceeds, MarkStarted, ledgerVars, TakesNothing, CallsPump, Running, Queued
<1>4. CASE SpawnSettles(r)
  <2>1. UNCHANGED <<server, shutdown>>
    BY <1>4 DEF SpawnSettles
  <2>2. "failed" \in Terminal
    BY DEF Terminal, Verdicts
  <2>3. UNCHANGED settleVars => UNCHANGED <<ledgerVars, pumps>>
    BY DEF settleVars
  <2> QED  BY <1>4, <2>1, <2>2, <2>3, FinalizeFrees, QuietFrees DEF SpawnSettles
<1>5. CASE GroupDeathObserved(r)
  <2>1. \A v \in Outcomes(r) : v \in Terminal
    BY DEF IInv, Outcomes, Terminal, Verdicts, ServiceTypeOK
  <2> QED  BY <1>5, <2>1, FinalizeFrees DEF GroupDeathObserved
<1>6. CASE UNCHANGED <<ledgerVars, pumps, server, shutdown>>
  BY <1>6, QuietFrees
<1> QED  BY <1>1, <1>2, <1>3, <1>4, <1>5, <1>6 DEF SpawnStep, ProcStep, LeaderExits,
         StraysDie, GroupKilled, BarrierAborts, TimesOut, Becomes, procOnly, settleVars,
         LeaseExpires, Renew, leaseFrame, ResumeCancel

LEMMA SweepFrees ==
    ASSUME IInv, NEW w \in Sweeper, SweepStep(w)
    PROVE  TakesNothing /\ CallsPump
<1>1. UNCHANGED <<server, shutdown>>
  BY DEF SweepStep, SweepBegins, SweepVisits, SweepResumes, leaseFrame, reconVars, closeVars
<1>2. CASE UNCHANGED settleVars
  BY <1>1, <1>2, QuietFrees DEF settleVars
<1>3. "interrupted" \in Terminal
  BY DEF Terminal, Verdicts
<1>4. SweepResumes(w) => sweep[w].killing \in Run
  BY DEF SweepResumes, IInv, ServiceTypeOK, Sweep
<1> QED  BY <1>1, <1>2, <1>3, <1>4, FinalizeFrees, CancelRunFrees
         DEF SweepStep, SweepBegins, SweepVisits, SweepResumes

LEMMA ServerFrees ==
    ASSUME IInv, ShutdownStep \/ RestartStep
    PROVE  TakesNothing /\ CallsPump
<1> USE DEF TakesNothing, CallsPump, Running, Queued, ledgerVars
<1>1. CASE ShutdownBegins \/ ShutdownDone
  BY <1>1 DEF ShutdownBegins, ShutdownDone
<1>2. CASE ShutdownDrains
  BY <1>2 DEF ShutdownDrains
<1>3. ASSUME NEW r \in Run, Crash \/ CrashBeforeRelease(r)
      PROVE  TakesNothing /\ CallsPump
  BY <1>3 DEF Crash, CrashBeforeRelease, ServerDies, MarkStarted
<1>4. CASE Crash \/ Start
  BY <1>4 DEF Crash, ServerDies, Start, settleVars
<1>5. ASSUME NEW r \in Run, RecoverRow(r) \/ LeaveUnverified(r)
      PROVE  TakesNothing /\ CallsPump
  BY <1>5 DEF RecoverRow, LeaveUnverified, Release, IInv, ServiceTypeOK, LedgerTypeOK
<1>6. CASE RecoveryEnds
  <2>1. server' = "open" => toRecover = {} /\ unverified = {}
    BY <1>6 DEF RecoveryEnds
  <2> QED  BY <1>6, <2>1 DEF RecoveryEnds, IInv, ServiceInv, StaleRowsListed, Active
<1> QED  BY <1>1, <1>2, <1>3, <1>4, <1>5, <1>6 DEF ShutdownStep, RestartStep

LEMMA OnlyAdmissionTakes ==
    ASSUME IInv, [ServiceNext]_serviceVars
    PROVE  \/ Submit \/ Pumping \/ PumpGivesUp
           \/ (TakesNothing /\ CallsPump)
<1>1. CASE UNCHANGED serviceVars
  BY <1>1, QuietFrees DEF serviceVars, settleVars, reconVars, closeVars
<1> QED  BY <1>1, RunFrees, SweepFrees, ServerFrees DEF ServiceNext

LEMMA ServiceKeepsBudget ==
    ASSUME IInv, BudgetBounded, [ServiceNext]_serviceVars
    PROVE  BudgetBounded'
<1>1. LedgerTypeOK /\ LedgerTypeOK'
  BY StepKeeps DEF IInv, ServiceTypeOK
<1>2. CASE Submit
  <2>1. PICK r \in Run, c \in Costs, limit \in Limits, s \in Active :
            Insert(r, c, s) /\ (s = "running" => Fits(c, limit))
    BY <1>2 DEF Submit, SubmitAndSpawn, SubmitAndWait, SubmitAdmitted, SubmitQueued,
       AdmitsAtOnce, Active
  <2> QED  BY <1>1, <2>1, InsertFits, CostAssumption
<1>3. CASE Pumping
  BY <1>1, <1>3, PumpFits DEF Pumping, PumpQueue
<1>4. CASE Running' \subseteq Running /\ cost' = cost
  BY <1>1, <1>4, FewerRunningFit
<1>5. PumpGivesUp => Running' \subseteq Running /\ cost' = cost
  BY DEF PumpGivesUp, ledgerVars, Running
<1> QED  BY <1>2, <1>3, <1>4, <1>5, OnlyAdmissionTakes DEF TakesNothing

(* The reserved weight stays within the largest limit, whatever crashes.   *)
THEOREM ServiceBudgetIsBounded == ServiceSpec => []BudgetBounded
<1>1. ServiceInit => BudgetBounded
  BY BudgetInit DEF ServiceInit
<1> QED  BY <1>1, ServiceKeepsBudget, ServiceInvariant, PTL DEF ServiceSpec

(* The weight of the groups really alive does too: none of them is without *)
(* a reservation, also after a crash left it to a server that knows        *)
(* nothing of it.                                                          *)
THEOREM MachineIsWithinLimit == ServiceSpec => []MachineWithinLimit
<1>1. IInv /\ BudgetBounded => MachineWithinLimit
  <2> SUFFICES ASSUME IInv, BudgetBounded PROVE MachineWithinLimit
    OBVIOUS
  <2> DEFINE L == {r \in Run : proc[r] \in Live}
  <2>1. PICK limit \in Limits : InUse <= limit
    BY DEF BudgetBounded
  <2>2. /\ L \in SUBSET Run /\ Running \ L \in SUBSET Run /\ LedgerTypeOK
        /\ L \cup (Running \ L) = Running /\ L \cap (Running \ L) = {}
    BY DEF Running, IInv, ServiceTypeOK, ServiceInv, LiveBookkeeping, Recorded
  <2> HIDE DEF L
  <2>3. /\ CostOf(L) \in Nat /\ CostOf(Running \ L) \in Nat
        /\ CostOf(Running) = CostOf(L) + CostOf(Running \ L)
    BY <2>2, CostsAdd
  <2>4. limit \in Nat
    BY LimitAssumption
  <2>5. CostOf(L) <= limit
    BY <2>1, <2>3, <2>4 DEF InUse
  <2> QED  BY <2>5 DEF MachineWithinLimit, L
<1> QED  BY <1>1, ServiceInvariant, ServiceBudgetIsBounded, PTL

(* A row that fits an idle machine is admitted: by the submission itself,  *)
(* or by the pump that finds it at the head.                               *)
LEMMA IdleQueueIsPumped ==
    ASSUME IInv, IInv', NoIdleQueue, Submit \/ Pumping
    PROVE  NoIdleQueue'
<1> USE DEF IInv, ServiceTypeOK
<1>1. Running = {} => InUse = 0
  BY SumUnfolds, InUseIsSum, FS_EmptySet
<1>2. ASSUME NEW r \in Run, NEW c \in Costs, NEW limit \in Limits,
             SubmitAndSpawn(r, c, limit) \/ SubmitAndWait(r, c, limit)
      PROVE  NoIdleQueue'
  <2>1. CASE SubmitAndSpawn(r, c, limit)
    <3>1. r \in Running'
      BY <2>1 DEF SubmitAndSpawn, SubmitAdmitted, Insert, LedgerTypeOK, Running
    <3> QED  BY <3>1 DEF NoIdleQueue
  <2>2. CASE SubmitAndWait(r, c, limit)
    <3>1. /\ c <= limit /\ ~AdmitsAtOnce(c, limit) /\ Running' = Running
          /\ UNCHANGED <<pumps, server, shutdown>>
      BY <2>2 DEF SubmitAndWait, SubmitQueued, Insert, Accept, LedgerTypeOK, Running,
         reconVars, closeVars
    <3>2. c \in Nat /\ limit \in Nat
      BY CostAssumption, LimitAssumption
    <3>3. Running = {} => Queued # {}
      BY <1>1, <3>1, <3>2 DEF AdmitsAtOnce, Fits
    <3> QED  BY <3>1, <3>3 DEF NoIdleQueue
  <2> QED  BY <1>2, <2>1, <2>2
<1>3. ASSUME NEW limit \in Limits, NEW A \in SUBSET Queued, PumpQueue(limit, A)
      PROVE  NoIdleQueue'
  <2> DEFINE Q == Queued \ Oversized(limit)
             h == Oldest(Q)
  <2>1. /\ SweepAdmits(A, Q, limit)
        /\ Running' = Running \cup A /\ Queued' = Q \ A
    BY <1>3 DEF PumpQueue, Pump, SweepAdmits, HeadSets, Oversized, Running, Queued
  <2>2. ASSUME Running = {}, A = {}, Q # {}
        PROVE  FALSE
    <3>1. h \in Q /\ \A s \in Q \ {h} : Older(h, s)
      BY <2>2, OldestExists DEF ServiceInv, LedgerInv, Queued, Rows
    <3>2. {h} \in HeadSets(Q) /\ A \subseteq {h} /\ A # {h}
      BY <2>2, <3>1 DEF HeadSets
    <3>3. InUse + CostOf({h}) > limit
      BY <2>1, <3>2 DEF SweepAdmits
    <3>4. h \in Run /\ cost[h] <= limit /\ cost[h] \in Nat /\ limit \in Nat
      BY <3>1, LimitAssumption DEF Oversized, Queued, LedgerTypeOK
    <3>5. CostOf({h}) = cost[h]
      BY <3>4, CostOfOne
    <3> HIDE DEF h
    <3> QED  BY <1>1, <2>2, <3>3, <3>4, <3>5
  <2> HIDE DEF Q
  <2> QED  BY <2>1, <2>2 DEF NoIdleQueue
<1> QED  BY <1>2, <1>3 DEF Submit, Pumping

(* Only a pump that cannot read the configuration counts a fault. *)
LEMMA FaultsAreCounted ==
    ASSUME IInv, [ServiceNext]_serviceVars
    PROVE  faults' = faults \/ (PumpGivesUp /\ faults' = faults + 1)
<1>1. Submit => UNCHANGED faults
  BY DEF Submit, SubmitAndSpawn, SubmitAndWait, Accept, boundVars
<1>2. ASSUME NEW r \in Run, SpawnStep(r) \/ Cancel(r) \/ ResumeCancel(r)
      PROVE  UNCHANGED faults
  BY <1>2 DEF SpawnStep, SpawnFails, SpawnSucceeds, SpawnSettles, Cancel, CancelRun,
     CancelTracked, CancelUnspawned, ParkCancel, ResumeCancel, boundVars
<1>3. ASSUME NEW r \in Run, ProcStep(r) \/ LeaseExpires(r) \/ Renew(r)
      PROVE  UNCHANGED faults
  BY <1>3 DEF ProcStep, LeaderExits, StraysDie, GroupKilled, BarrierAborts, TimesOut,
     GroupDeathObserved, Becomes, procOnly, LeaseExpires, Renew, leaseFrame, boundVars
<1>4. Pumping => UNCHANGED faults
  BY DEF Pumping, PumpQueue, boundVars
<1>5. PumpGivesUp => faults' = faults \/ faults' = faults + 1
  BY DEF PumpGivesUp
<1>6. ASSUME NEW w \in Sweeper, SweepStep(w)
      PROVE  UNCHANGED faults
  BY <1>6 DEF SweepStep, SweepBegins, SweepVisits, SweepResumes, leaseFrame, CancelRun,
     CancelTracked, CancelUnspawned, ParkCancel, boundVars
<1>7. ShutdownStep \/ RestartStep => UNCHANGED faults
  BY DEF ShutdownStep, ShutdownBegins, ShutdownDrains, ShutdownDone, shutFrame,
     RestartStep, Crash, CrashBeforeRelease, ServerDies, Start, RecoverRow,
     LeaveUnverified, RecoveryEnds, recoverFrame, boundVars
<1>8. UNCHANGED serviceVars => UNCHANGED faults
  BY DEF serviceVars, boundVars
<1> QED  BY <1>1, <1>2, <1>3, <1>4, <1>5, <1>6, <1>7, <1>8 DEF ServiceNext

(* No lost wake-up until a reading of the configuration has failed: until  *)
(* then, waiters with nobody running always have a pump on its way. The    *)
(* failed reading is therefore the only way into the stranded queue, which *)
(* neither a crash, nor a shutdown, nor a cancellation leads to.           *)
THEOREM IdleOnlyAfterFault == ServiceSpec => [](faults = 0 => NoIdleQueue)
<1> DEFINE Woken == faults = 0 => NoIdleQueue
<1>1. ServiceInit => Woken
  BY DEF ServiceInit, NoIdleQueue
<1>2. IInv /\ Woken /\ [ServiceNext]_serviceVars => Woken'
  <2> SUFFICES ASSUME IInv, Woken, [ServiceNext]_serviceVars, faults' = 0
               PROVE  NoIdleQueue'
    OBVIOUS
  <2>1. faults \in Nat
    BY DEF IInv, ServiceTypeOK
  <2>2. faults = 0 /\ NoIdleQueue
    BY <2>1, FaultsAreCounted
  <2>3. CASE Submit \/ Pumping
    BY <2>2, <2>3, StepKeeps, IdleQueueIsPumped
  <2>4. CASE PumpGivesUp
    BY <2>2, <2>4 DEF PumpGivesUp, NoIdleQueue, closeVars, IInv, ServiceTypeOK
  <2>5. CASE TakesNothing /\ CallsPump
    BY <2>2, <2>5 DEF TakesNothing, CallsPump, NoIdleQueue
  <2> QED  BY <2>3, <2>4, <2>5, OnlyAdmissionTakes
<1> QED  BY <1>1, <1>2, ServiceInvariant, PTL DEF ServiceSpec

(* So where the configuration can be read, no wake-up is ever lost.        *)
THEOREM QueueIsNotIdle == MaxFaults = 0 /\ ServiceSpec => []NoIdleQueue
<1> SUFFICES ASSUME MaxFaults = 0 PROVE ServiceSpec => []NoIdleQueue
  OBVIOUS
<1>1. ServiceInit => faults = 0
  BY DEF ServiceInit
<1>2. IInv /\ faults = 0 /\ [ServiceNext]_serviceVars => (faults = 0)'
  BY FaultsAreCounted DEF PumpGivesUp
<1> QED  BY <1>1, <1>2, ServiceInvariant, IdleOnlyAfterFault, PTL DEF ServiceSpec

-----------------------------------------------------------------------------
(* The promise of the service: its steps in the words of                    *)
(* CapacityReservation.                                                     *)

\* A group appears only when its row is spawned, once.
Untouched ==
    \A r \in Run :
        /\ status[r] \in {"absent", "queued"} => proc[r] = "none"
        /\ nextSpawn[r] # NoRun => proc[nextSpawn[r]] = "none"

PromiseInv == IInv /\ Untouched

GroupsMove ==
    \A r \in Run :
        /\ proc'[r] = proc[r] \/ proc[r] # "none" \/ spawn'[r] = "pending"
        /\ nextSpawn'[r] \in {nextSpawn[r], NoRun} \cup Queued

LEMMA StepMovesGroups ==
    ASSUME IInv, IInv', [ServiceNext]_serviceVars
    PROVE  GroupsMove
<1> USE DEF GroupsMove, IInv, ServiceTypeOK
<1>1. CASE UNCHANGED <<proc, nextSpawn>>
  BY <1>1
<1>2. ASSUME NEW r \in Run, NEW c \in Costs, NEW limit \in Limits,
             SubmitAndSpawn(r, c, limit) \/ SubmitAndWait(r, c, limit)
      PROVE  GroupsMove
  BY <1>2 DEF SubmitAndSpawn, SubmitAndWait, Accept, SpawnCalled
<1>3. ASSUME NEW r \in Run, SpawnSucceeds(r) \/ SpawnSettles(r)
      PROVE  GroupsMove
  <2>1. CASE SpawnSucceeds(r)
    BY <2>1 DEF SpawnSucceeds
  <2>2. CASE SpawnSettles(r)
    <3>1. nextSpawn' = [nextSpawn EXCEPT ![r] = NoRun]
      BY <2>2 DEF SpawnSettles
    <3>2. \A q \in Run : proc'[q] = proc[q] \/ spawn'[q] = "pending"
      BY <2>2 DEF SpawnSettles, SpawnCalled
    <3> QED  BY <3>1, <3>2
  <2> QED  BY <1>3, <2>1, <2>2
<1>4. ASSUME NEW limit \in Limits, NEW A \in SUBSET Queued, PumpQueue(limit, A)
      PROVE  GroupsMove
  <2> DEFINE Rest(r) == {s \in A : Older(r, s)}
  <2>1. A \subseteq Rows /\ OrdersDistinct /\ LedgerTypeOK
    BY DEF Queued, Rows, ServiceInv
  <2> HIDE DEF GroupsMove, IInv, ServiceTypeOK
  <2>2. \A p \in A : Rest(p) # {} => Oldest(Rest(p)) \in A
    BY <2>1, PumpSuccessors
  <2>3. \A r \in Run : nextSpawn'[r] \in {nextSpawn[r], NoRun} \cup Queued
    BY <1>4, <2>2 DEF PumpQueue
  <2>4. \A r \in Run : proc'[r] = proc[r] \/ spawn'[r] = "pending"
    BY <1>4 DEF PumpQueue, SpawnCalled, IInv, ServiceTypeOK
  <2> QED  BY <2>3, <2>4 DEF GroupsMove
<1>5. ASSUME NEW r \in Run, ProcStep(r)
      PROVE  GroupsMove
  BY <1>5 DEF ProcStep, LeaderExits, StraysDie, GroupKilled, BarrierAborts, TimesOut,
     GroupDeathObserved, Becomes, procOnly, Leader
<1>6. ASSUME NEW r \in Run, RecoverRow(r)
      PROVE  GroupsMove
  BY <1>6 DEF RecoverRow, recoverFrame, Leader
<1>7. CASE LoseMemory /\ UNCHANGED proc
  BY <1>7 DEF LoseMemory
<1>8. ASSUME NEW r \in Run, SpawnFails(r) \/ Cancel(r) \/ ResumeCancel(r) \/ LeaseExpires(r)
             \/ Renew(r) \/ LeaveUnverified(r)
      PROVE  UNCHANGED <<proc, nextSpawn>>
  BY <1>8 DEF SpawnFails, Cancel, ResumeCancel, LeaseExpires, Renew, leaseFrame,
     LeaveUnverified, recoverFrame
<1>9. ASSUME NEW w \in Sweeper, SweepStep(w)
      PROVE  UNCHANGED <<proc, nextSpawn>>
  BY <1>9 DEF SweepStep, SweepBegins, SweepVisits, SweepResumes, leaseFrame
<1>10. CASE ShutdownStep \/ RestartStep
  BY <1>1, <1>6, <1>7, <1>8, <1>10 DEF ShutdownStep, ShutdownBegins, ShutdownDrains, ShutdownDone,
     shutFrame, RestartStep, Crash, CrashBeforeRelease, ServerDies, Start, RecoveryEnds,
     recoverFrame
<1>11. PumpGivesUp => UNCHANGED <<proc, nextSpawn>>
  BY DEF PumpGivesUp
<1>12. UNCHANGED serviceVars => UNCHANGED <<proc, nextSpawn>>
  BY DEF serviceVars
<1> HIDE DEF GroupsMove, IInv, ServiceTypeOK
<1> QED  BY <1>1, <1>2, <1>3, <1>4, <1>5, <1>8, <1>9, <1>10, <1>11, <1>12
         DEF ServiceNext, Submit, SpawnStep, Pumping

LEMMA StepKeepsUntouched ==
    ASSUME PromiseInv, [ServiceNext]_serviceVars
    PROVE  PromiseInv'
<1>1. IInv /\ IInv' /\ RowsMove /\ GroupsMove
  BY StepKeeps, StepMoves, StepMovesGroups DEF PromiseInv
<1>2. /\ status \in [Run -> Status]
      /\ nextSpawn \in [Run -> Run \cup {NoRun}] /\ nextSpawn' \in [Run -> Run \cup {NoRun}]
  BY <1>1 DEF IInv, ServiceTypeOK, LedgerTypeOK
<1>3. ASSUME NEW r \in Run, status'[r] \in {"absent", "queued"}
      PROVE  proc'[r] = "none"
  <2>1. status[r] \in {"absent", "queued"}
    BY <1>1, <1>3 DEF RowsMove, Moves, Active, Terminal, Verdicts
  <2>2. spawn'[r] = "idle"
    BY <1>1, <1>3 DEF IInv, ServiceInv, RowBookkeeping, Unspawned
  <2> QED  BY <1>1, <2>1, <2>2 DEF PromiseInv, Untouched, GroupsMove
<1>4. ASSUME NEW r \in Run, nextSpawn'[r] # NoRun
      PROVE  proc'[nextSpawn'[r]] = "none"
  <2> DEFINE x == nextSpawn'[r]
  <2>1. x \in Run
    BY <1>2, <1>4
  <2>2. proc[x] = "none"
    BY <1>1, <1>4 DEF GroupsMove, PromiseInv, Untouched, Queued
  <2>3. spawn'[x] = "idle"
    BY <1>1, <1>4 DEF IInv, ServiceInv, PumpBookkeeping, Unspawned
  <2> QED  BY <1>1, <2>1, <2>2, <2>3 DEF GroupsMove
<1> QED  BY <1>1, <1>3, <1>4 DEF PromiseInv, Untouched

-----------------------------------------------------------------------------

Allowed == [Promise!Next]_(Promise!vars)

LEMMA WeightIsCost == ASSUME NEW S PROVE Promise!WeightOf(S) = CostOf(S)
<1>1. Promise!WeightOf(S) = SumOf(cost, S)
  BY Zenon DEF Promise!WeightOf, Promise!MapThenSumSet, Promise!MapThenFoldSet, SumOf, Folding
<1> QED  BY <1>1, CostIsSum

LEMMA InPlainWords ==
    ASSUME IInv
    PROVE  /\ Promise!Waiting = Queued
           /\ Promise!Held = Running
           /\ \A r \in Run : status[r] \in Terminal => Phases[r] = "settled"
           /\ \A r \in Run : status[r] = "absent" => Phases[r] = "new"
<1>1. \A r \in Run : /\ proc[r] \in Live => status[r] = "running"
                     /\ status[r] \in Status
  BY DEF IInv, ServiceTypeOK, LedgerTypeOK, ServiceInv, LiveBookkeeping, Recorded
<1> QED  BY <1>1 DEF Promise!Waiting, Promise!Held, Promise!Holding, Phases, PhaseOf, Queued,
         Running, Status, Active, Terminal, Verdicts

(* Rows that settle, any number of them in one step, none included.        *)
LEMMA SettlingMaps ==
    ASSUME IInv, IInv', UNCHANGED <<cost, queueOrder>>,
           \A r \in Run :
              \/ status'[r] = status[r] /\ proc'[r] = proc[r]
              \/ status[r] \in Active /\ status'[r] \in Terminal
    PROVE  Allowed
<1> DEFINE S == {r \in Run : status'[r] # status[r]}
<1>1. \A r \in Run : /\ proc[r] \in Live => status[r] = "running"
                     /\ proc'[r] \in Live => status'[r] = "running"
  BY DEF IInv, ServiceInv, LiveBookkeeping, Recorded
<1>2. \A r \in S : status[r] \in Active /\ status'[r] \in Terminal
  OBVIOUS
<1>3. \A r \in S : Phases[r] \in {"waiting"} \cup Promise!Holding
  BY <1>1, <1>2 DEF Phases, PhaseOf, Promise!Holding, Active
<1>4. Phases' = [r \in Run |-> IF r \in S THEN "settled" ELSE Phases[r]]
  <2>1. \A r \in Run : PhaseOf(r)' = IF r \in S THEN "settled" ELSE PhaseOf(r)
    BY <1>1, <1>2 DEF PhaseOf, Active, Terminal, Verdicts
  <2> QED  BY <2>1 DEF Phases
<1>5. Ahead' = [r \in Run |-> IF r \in S THEN {} ELSE Ahead[r] \ S]
  <2>1. Queued' = Queued \ S
    BY <1>2 DEF Queued, Active, Terminal, Verdicts
  <2> HIDE DEF S
  <2> QED  BY <2>1 DEF Ahead, Older
<1>6. S \in SUBSET Run
  OBVIOUS
<1> HIDE DEF S
<1>7. Promise!Settle(S)
  BY <1>3, <1>4, <1>5 DEF Promise!Settle, Promise!Leave
<1> QED  BY <1>6, <1>7 DEF Allowed, Promise!Next
LEMMA FinalizeMaps ==
    ASSUME IInv, IInv', NEW r \in Run, NEW v \in Terminal, FinalizeIfActive(r, v), proc' = proc
    PROVE  Allowed
<1>1. UNCHANGED <<cost, queueOrder>>
  BY DEF FinalizeIfActive, Finalize, Release, settleVars, ledgerVars
<1>2. \A q \in Run : status'[q] = status[q] \/ (status[q] \in Active /\ status'[q] \in Terminal)
  BY DEF FinalizeIfActive, Finalize, Release, settleVars, ledgerVars, IInv, ServiceTypeOK,
     LedgerTypeOK
<1> QED  BY <1>1, <1>2, SettlingMaps

LEMMA QuietMaps ==
    ASSUME IInv, IInv', UNCHANGED <<status, cost, queueOrder, proc>>
    PROVE  Allowed
BY SettlingMaps

(* A process group comes closer to its death by itself.                    *)
LEMMA ProcessMaps ==
    ASSUME IInv, IInv', NEW r \in Run, NEW p \in {"stray", "dead"}, Becomes(r, p),
           p = "stray" => proc[r] = "working", proc[r] # "none", proc[r] # "dead"
    PROVE  Allowed
<1>1. /\ proc' = [proc EXCEPT ![r] = p] /\ UNCHANGED <<status, cost, queueOrder>>
      /\ proc \in [Run -> {"none", "barriered", "working", "stray", "dead"}]
  BY DEF Becomes, procOnly, settleVars, ledgerVars, IInv, ServiceTypeOK
<1>2. Ahead' = Ahead /\ cost' = cost
  BY <1>1 DEF Ahead, Queued, Older
<1>3. proc[r] \in Live => status[r] = "running"
  BY DEF IInv, ServiceInv, LiveBookkeeping, Recorded
<1>4. Phases' = [Phases EXCEPT ![r] = PhaseOf(r)']
  BY <1>1 DEF Phases, PhaseOf
<1>5. CASE p = "stray" \/ status[r] # "running"
  <2>1. PhaseOf(r)' = PhaseOf(r)
    BY <1>1, <1>3, <1>5 DEF PhaseOf, Live
  <2>2. Phases' = Phases
    BY <1>4, <2>1 DEF Phases
  <2> QED  BY <1>2, <2>2 DEF Allowed, Promise!vars
<1>6. CASE p = "dead" /\ status[r] = "running"
  <2>1. Phases[r] \in {"reserved", "executing"} /\ PhaseOf(r)' = "spent"
    BY <1>1, <1>6 DEF Phases, PhaseOf, Live
  <2>2. Promise!End(r)
    BY <1>2, <1>4, <2>1 DEF Promise!End
  <2> QED  BY <2>2 DEF Allowed, Promise!Next
<1> QED  BY <1>5, <1>6

(* The spawn that succeeds: the workload starts, or is held at the barrier. *)
LEMMA StartMaps ==
    ASSUME IInv, IInv', NEW r \in Run, SpawnSucceeds(r)
    PROVE  Allowed
<1>1. /\ UNCHANGED <<status, cost, queueOrder>>
      /\ proc[r] = "barriered"
      /\ proc \in [Run -> {"none", "barriered", "working", "stray", "dead"}]
  BY DEF SpawnSucceeds, MarkStarted, ledgerVars, IInv, ServiceTypeOK
<1>2. CASE proc' = proc
  BY <1>1, <1>2, QuietMaps
<1>3. CASE PassesBarrier(r) /\ proc' = [proc EXCEPT ![r] = "working"]
  <2>1. Ahead' = Ahead
    BY <1>1 DEF Ahead, Queued, Older
  <2>2. Phases[r] = "reserved" /\ Phases' = [Phases EXCEPT ![r] = "executing"]
    BY <1>1, <1>3 DEF Phases, PhaseOf, Live, PassesBarrier, JustAdmitted
  <2>3. Promise!Begin(r)
    BY <1>1, <2>1, <2>2 DEF Promise!Begin
  <2> QED  BY <2>3 DEF Allowed, Promise!Next
<1> QED  BY <1>2, <1>3 DEF SpawnSucceeds

(* A spawn that is called, or a row that turns out to have none.           *)
LEMMA SpawnSettlesMaps ==
    ASSUME PromiseInv, IInv', NEW r \in Run, SpawnSettles(r)
    PROVE  Allowed
<1> DEFINE x == nextSpawn[r]
<1>1. IInv /\ proc \in [Run -> {"none", "barriered", "working", "stray", "dead"}]
  BY DEF PromiseInv, IInv, ServiceTypeOK
<1>2. CASE UNCHANGED settleVars /\ UNCHANGED proc
  BY <1>1, <1>2, QuietMaps DEF settleVars, ledgerVars
<1>3. CASE x \in prepared /\ SpawnCalled(x) /\ UNCHANGED settleVars
  <2>1. x \in Run /\ x # NoRun
    BY <1>1, <1>3, NoRunAssumption DEF IInv, ServiceTypeOK
  <2>2. status[x] = "running" /\ proc[x] = "none"
    BY <1>1, <1>3, <2>1 DEF PromiseInv, Untouched, IInv, ServiceInv, PumpBookkeeping,
       RowBookkeeping, Active
  <2>3. PICK p \in {"none", "barriered"} : proc' = [proc EXCEPT ![x] = p]
    BY <1>3 DEF SpawnCalled
  <2>4. UNCHANGED <<status, cost, queueOrder>>
    BY <1>3 DEF settleVars, ledgerVars
  <2> HIDE DEF x
  <2>5. \A q \in Run : PhaseOf(q)' = PhaseOf(q)
    BY <1>1, <2>1, <2>2, <2>3, <2>4 DEF PhaseOf, Live
  <2>6. Phases' = Phases /\ Ahead' = Ahead
    BY <2>4, <2>5 DEF Phases, Ahead, Queued, Older
  <2> QED  BY <2>4, <2>6 DEF Allowed, Promise!vars
<1>4. CASE FinalizeIfActive(x, "failed") /\ x \in Run /\ UNCHANGED proc
  BY <1>1, <1>4, FinalizeMaps DEF Terminal, Verdicts
<1> QED  BY <1>2, <1>3, <1>4 DEF SpawnSettles

LEMMA SubmitMaps ==
    ASSUME PromiseInv, IInv', NEW r \in Run, NEW c \in Costs, NEW limit \in Limits,
           SubmitAndSpawn(r, c, limit) \/ SubmitAndWait(r, c, limit)
    PROVE  Allowed
<1>1. IInv /\ LedgerTypeOK /\ OrdersBounded
      /\ proc \in [Run -> {"none", "barriered", "working", "stray", "dead"}]
  BY DEF PromiseInv, IInv, ServiceTypeOK, LedgerInv
<1>2. PICK a \in Active : Insert(r, c, a)
  BY DEF SubmitAndSpawn, SubmitAndWait, SubmitAdmitted, SubmitQueued, Active
<1>3. status[r] = "absent" /\ proc[r] = "none"
  BY <1>2 DEF Insert, PromiseInv, Untouched
<1>4. /\ Phases[r] = "new" /\ Phases \in [Run -> Promise!Phase]
      /\ cost' = [cost EXCEPT ![r] = c]
  BY <1>2, <1>3 DEF Insert, Phases, PhaseOf, Live, Promise!Phase
<1>5. \A q \in Run \ {r} : status'[q] = status[q] /\ queueOrder'[q] = queueOrder[q]
  BY <1>1, <1>2 DEF Insert, LedgerTypeOK
<1>6. CASE SubmitAndSpawn(r, c, limit)
  <2>1. /\ AdmitsAtOnce(c, limit) /\ status'[r] = "running"
        /\ \E p \in {"none", "barriered"} : proc' = [proc EXCEPT ![r] = p]
    BY <1>1, <1>6 DEF SubmitAndSpawn, SubmitAdmitted, Insert, SpawnCalled, LedgerTypeOK
  <2>2. Phases' = [Phases EXCEPT ![r] = "reserved"]
    BY <1>1, <1>5, <2>1 DEF Phases, PhaseOf, Live
  <2>3. Queued = {} /\ Queued' = {}
    BY <1>5, <2>1 DEF AdmitsAtOnce, Queued
  <2>4. Ahead' = Ahead
    BY <2>3 DEF Ahead
  <2>5. Promise!Waiting = {} /\ Promise!WeightOf(Promise!Held) + c <= limit
    BY <1>1, <2>1, <2>3, InPlainWords, WeightIsCost DEF AdmitsAtOnce, Fits, InUse
  <2>6. Promise!EnterReserved(r, c, limit)
    BY <1>4, <2>2, <2>4, <2>5 DEF Promise!EnterReserved
  <2> QED  BY <2>6 DEF Allowed, Promise!Next
<1>7. CASE SubmitAndWait(r, c, limit)
  <2>1. status'[r] = "queued" /\ proc' = proc /\ queueOrder'[r] = NextQueueOrder
    BY <1>1, <1>7 DEF SubmitAndWait, SubmitQueued, Insert, LedgerTypeOK
  <2>2. Phases' = [Phases EXCEPT ![r] = "waiting"]
    BY <1>3, <1>5, <2>1 DEF Phases, PhaseOf, Live
  <2>3. NextQueueOrder \in Nat /\ \A q \in Queued : queueOrder[q] < NextQueueOrder
    BY <1>1, NextOrderIsLast DEF Queued, Rows
  <2>4. Queued' = Queued \cup {r} /\ r \notin Queued
    BY <1>3, <1>5, <2>1 DEF Queued
  <2>5. \A q, s \in Queued' : Older(s, q)' = IF q = r THEN s \in Queued
                                             ELSE s # r /\ Older(s, q)
    <3> SUFFICES ASSUME NEW q \in Queued', NEW s \in Queued'
                 PROVE  Older(s, q)' = IF q = r THEN s \in Queued
                                       ELSE s # r /\ Older(s, q)
      OBVIOUS
    <3>1. /\ q = r \/ (q \in Queued /\ queueOrder'[q] = queueOrder[q] /\ queueOrder[q] \in Nat)
          /\ s = r \/ (s \in Queued /\ queueOrder'[s] = queueOrder[s] /\ queueOrder[s] \in Nat)
      BY <1>1, <1>5, <2>4 DEF Queued, LedgerTypeOK
    <3>2. (queueOrder'[s] < queueOrder'[q]) = IF q = r THEN s \in Queued
                                       ELSE s # r /\ (queueOrder[s] < queueOrder[q])
      BY <2>1, <2>3, <2>4, <3>1
    <3> QED  BY <3>2 DEF Older
  <2>6. \A q \in Run : {s \in Queued : q \in Queued /\ Older(s, q)}'
                         = IF q = r THEN Queued ELSE {s \in Queued : q \in Queued /\ Older(s, q)}
    BY <2>4, <2>5
  <2>7. Ahead' = [Ahead EXCEPT ![r] = Queued]
    BY <2>6 DEF Ahead
  <2>8. Promise!Enter(r, c)
    BY <1>1, <1>4, <2>2, <2>7, InPlainWords DEF Promise!Enter
  <2> QED  BY <2>8 DEF Allowed, Promise!Next
<1> QED  BY <1>6, <1>7

LEMMA PumpMaps ==
    ASSUME PromiseInv, IInv', NEW limit \in Limits, NEW A \in SUBSET Queued,
           PumpQueue(limit, A)
    PROVE  Allowed
<1> DEFINE O == Oversized(limit)
<1>1. IInv /\ LedgerTypeOK /\ OrdersDistinct
      /\ proc \in [Run -> {"none", "barriered", "working", "stray", "dead"}]
      /\ A \subseteq Run /\ O \subseteq Queued
  BY DEF PromiseInv, IInv, ServiceTypeOK, ServiceInv, Queued, Oversized
<1>2. /\ SweepAdmits(A, Queued \ O, limit)
      /\ \A q \in Run : status'[q] = IF q \in O THEN "cost_exceeds_limit"
                                     ELSE IF q \in A THEN "running" ELSE status[q]
      /\ UNCHANGED <<cost, queueOrder>>
  BY DEF PumpQueue, Pump
<1>3. A \cap O = {} /\ \A r \in A, s \in (Queued \ O) \ A : Older(r, s)
  BY <1>2 DEF SweepAdmits, HeadSets
<1>4. \A q \in Run : q \in A \cup O => status[q] = "queued" /\ proc[q] = "none"
  BY <1>1 DEF Queued, PromiseInv, Untouched
<1>5. \A q \in Run : \/ proc'[q] = proc[q]
                     \/ q \in A /\ proc'[q] \in {"none", "barriered"}
  <2>1. A # {} => Oldest(A) \in A
    BY <1>1, OldestExists DEF Queued, Rows
  <2> QED  BY <1>1, <2>1 DEF PumpQueue, SpawnCalled
<1> HIDE DEF O
<1>6. Phases' = [q \in Run |-> IF q \in A THEN "reserved" ELSE IF q \in O THEN "settled"
                               ELSE Phases[q]]
  <2>1. \A q \in Run : PhaseOf(q)' = IF q \in A THEN "reserved" ELSE IF q \in O THEN "settled"
                                    ELSE PhaseOf(q)
    BY <1>2, <1>3, <1>4, <1>5 DEF PhaseOf, Live
  <2> QED  BY <2>1 DEF Phases
<1>7. Queued' = Queued \ (A \cup O)
  BY <1>2, <1>4 DEF Queued
<1>8. Ahead' = [q \in Run |-> IF q \in A \cup O THEN {} ELSE Ahead[q] \ (A \cup O)]
  BY <1>2, <1>7 DEF Ahead, Older
<1>9. \A r \in A : Ahead[r] \subseteq A \cup O
  BY <1>1, <1>3 DEF Ahead, Older, LedgerTypeOK, Queued
<1>10. A # {} => Promise!WeightOf(Promise!Held) + Promise!WeightOf(A) <= limit
  BY <1>1, <1>2, InPlainWords, WeightIsCost DEF SweepAdmits, InUse
<1>11. \A r \in O : cost[r] > limit
  BY DEF O, Oversized
<1>12. Promise!Serve(limit, A, O)
  BY <1>2, <1>3, <1>6, <1>8, <1>9, <1>10, <1>11 DEF Promise!Serve, Promise!Leave
<1>13. A \in SUBSET Promise!Waiting /\ O \in SUBSET Promise!Waiting
  BY <1>1, InPlainWords
<1> QED  BY <1>12, <1>13 DEF Allowed, Promise!Next

(* Every other step: the rows that change settle, and a process group that *)
(* changes is that of a row whose settlement is yet to come, or comes now. *)
LEMMA OthersMap ==
    ASSUME PromiseInv, IInv', [ServiceNext]_serviceVars, TakesNothing,
           \A r \in Run : proc'[r] = proc[r] \/ status'[r] # status[r]
    PROVE  Allowed
<1>1. RowsMove /\ IInv
  BY StepMoves DEF PromiseInv
<1>2. \A r \in Run : status'[r] = status[r] \/ (status[r] \in Active /\ status'[r] \in Terminal)
  BY <1>1 DEF RowsMove, Moves, TakesNothing, Running, Queued, Active
<1> QED  BY <1>1, <1>2, SettlingMaps DEF TakesNothing

LEMMA StepMaps ==
    ASSUME PromiseInv, [ServiceNext]_serviceVars
    PROVE  Allowed
<1>1. IInv /\ IInv'
  BY StepKeeps DEF PromiseInv
<1>2. CASE Submit
  BY <1>1, <1>2, SubmitMaps DEF Submit
<1>3. CASE Pumping
  BY <1>1, <1>3, PumpMaps DEF Pumping
<1>4. CASE PumpGivesUp
  BY <1>1, <1>4, QuietMaps DEF PumpGivesUp, ledgerVars
<1>5. ASSUME NEW r \in Run, SpawnSucceeds(r) \/ SpawnSettles(r)
      PROVE  Allowed
  BY <1>1, <1>5, StartMaps, SpawnSettlesMaps
<1>6. ASSUME NEW r \in Run, ProcStep(r)
      PROVE  Allowed
  <2>1. CASE TimesOut(r)
    BY <1>1, <2>1, QuietMaps DEF TimesOut, ledgerVars
  <2>2. CASE GroupDeathObserved(r)
    <3>1. \A v \in Outcomes(r) : v \in Terminal
      BY <1>1 DEF IInv, Outcomes, Terminal, Verdicts, ServiceTypeOK
    <3> QED  BY <1>1, <2>2, <3>1, FinalizeMaps DEF GroupDeathObserved
  <2>3. CASE LeaderExits(r)
    BY <1>1, <2>3, ProcessMaps DEF LeaderExits
  <2>4. CASE StraysDie(r) \/ GroupKilled(r) \/ BarrierAborts(r)
    BY <1>1, <2>4, ProcessMaps DEF StraysDie, GroupKilled, BarrierAborts, Leader
  <2> QED  BY <1>6, <2>1, <2>2, <2>3, <2>4 DEF ProcStep
<1>7. CASE TakesNothing /\ \A r \in Run : proc'[r] = proc[r] \/ status'[r] # status[r]
  BY <1>1, <1>7, OthersMap
<1>8. ASSUME NEW r \in Run, RecoverRow(r)
      PROVE  \A q \in Run : proc'[q] = proc[q] \/ status'[q] # status[q]
  BY <1>1, <1>8 DEF RecoverRow, Release, IInv, ServiceTypeOK, LedgerTypeOK, Active
<1>9. ASSUME NEW r \in Run, \/ SpawnFails(r) \/ Cancel(r) \/ ResumeCancel(r) \/ LeaseExpires(r)
                            \/ Renew(r) \/ LeaveUnverified(r) \/ CrashBeforeRelease(r)
      PROVE  proc' = proc
  BY <1>9 DEF SpawnFails, Cancel, ResumeCancel, LeaseExpires, Renew, leaseFrame,
     LeaveUnverified, recoverFrame, CrashBeforeRelease, ServerDies
<1>10. ASSUME NEW w \in Sweeper, SweepStep(w)
       PROVE  proc' = proc
  BY <1>10 DEF SweepStep, SweepBegins, SweepVisits, SweepResumes, leaseFrame
<1>11. ShutdownStep \/ Crash \/ Start \/ RecoveryEnds \/ UNCHANGED serviceVars => proc' = proc
  BY DEF ShutdownStep, ShutdownBegins, ShutdownDrains, ShutdownDone, shutFrame, Crash,
     ServerDies, Start, RecoveryEnds, recoverFrame, serviceVars
<1> HIDE DEF Allowed
<1>12. Submit \/ Pumping \/ PumpGivesUp \/ TakesNothing
  BY <1>1, OnlyAdmissionTakes
<1> QED  BY <1>2, <1>3, <1>4, <1>5, <1>6, <1>7, <1>8, <1>9, <1>10, <1>11, <1>12
         DEF ServiceNext, SpawnStep, RestartStep

(* The service, its crashes and its recovery included, keeps the promise:  *)
(* weights are taken in line order and within the limit, and none returns  *)
(* while anything of its run executes.                                     *)
THEOREM ServiceKeepsPromise == ServiceSpec => KeepsPromise
<1>1. ServiceInit => PromiseInv
  BY InitEstablishes DEF ServiceInit, PromiseInv, Untouched
<1>2. ServiceInit => Promise!Init
  <2> SUFFICES ASSUME ServiceInit PROVE Promise!Init
    OBVIOUS
  <2>1. \A r \in Run : PhaseOf(r) = "new"
    BY DEF ServiceInit, LedgerInit, PhaseOf, Live
  <2>2. Queued = {}
    BY DEF ServiceInit, LedgerInit, Queued
  <2> QED  BY <2>1, <2>2 DEF ServiceInit, LedgerInit, Promise!Init, Phases, Ahead
<1>3. PromiseInv /\ [ServiceNext]_serviceVars => PromiseInv' /\ [Promise!Next]_(Promise!vars)
  BY StepKeepsUntouched, StepMaps DEF Allowed
<1> QED  BY <1>1, <1>2, <1>3, PTL DEF ServiceSpec, KeepsPromise, Promise!Spec
=============================================================================
