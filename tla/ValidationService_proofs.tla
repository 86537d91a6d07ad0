---------------------- MODULE ValidationService_proofs ----------------------
(***************************************************************************)
(* Proofs about the validation service for every set of runs, agents, keys,*)
(* weights, limits and sweepers, and any number of crashes.                *)
(***************************************************************************)
EXTENDS ValidationService, ValidationScheduler_proofs

IInv == ServiceTypeOK /\ LedgerInv /\ ServiceInv

-----------------------------------------------------------------------------

(* A non-empty set of rows has an oldest one, which the pump spawns first. *)
LEMMA OldestExists ==
    ASSUME LedgerTypeOK, OrdersDistinct, NEW S \in SUBSET Rows, S # {}
    PROVE  /\ Oldest(S) \in S
           /\ \A s \in S \ {Oldest(S)} : Older(Oldest(S), s)
<1> DEFINE T == {queueOrder[r] : r \in S}
<1>1. PICK n \in T : \A m \in T : ~ (<<m, n>> \in OpToRel(<, Nat))
  <2>1. T \subseteq Nat /\ T # {}
    BY DEF LedgerTypeOK, Rows
  <2>2. PICK t \in T : TRUE
    BY <2>1
  <2> HIDE DEF T
  <2> QED  BY <2>1, <2>2, NatLessThanWellFounded, WFMin
<1>2. PICK r \in S : queueOrder[r] = n
  BY <1>1
<1>3. \A s \in S : ~ (queueOrder[s] < queueOrder[r])
  BY <1>1, <1>2 DEF OpToRel, LedgerTypeOK, Rows
<1>4. \A s \in S \ {r} : Older(r, s)
  BY <1>3 DEF OrdersDistinct, Older, LedgerTypeOK, Rows
<1> QED  BY <1>4 DEF Oldest

LEMMA InitEstablishes == ServiceInit => IInv
<1> SUFFICES ASSUME ServiceInit PROVE IInv
  OBVIOUS
<1> USE DEF ServiceInit
<1>1. LedgerInv
  BY LedgerInitInv
<1>2. ServiceTypeOK
  BY <1>1 DEF LedgerInv, ServiceTypeOK, NoSweep, Sweep
<1>3. ServiceInv
  BY DEF ServiceInv, MemoryOnlyWhenOpen, StaleRowsListed, RowBookkeeping,
     LiveBookkeeping, OpenOwnsActive, PumpBookkeeping, OrdersDistinct, Unspawned,
     LedgerInit, Rows, Live
<1> QED  BY <1>1, <1>2, <1>3 DEF IInv

-----------------------------------------------------------------------------
(* The ledger under the transitions of one existing row.                    *)

LEMMA ReleaseLedger ==
    ASSUME LedgerInv, NEW r \in Run, NEW v \in Terminal, Release(r, v)
    PROVE  LedgerInv'
<1>1. LedgerTypeOK'
  BY DEF LedgerInv, LedgerTypeOK, Release, Status
<1>2. v # "queued" /\ v # "running"
  BY DEF Verdicts, Terminal
<1> QED  BY <1>1, <1>2, MoveKeepsInv DEF Release, LedgerInv, LedgerTypeOK

LEMMA MarkStartedLedger ==
    ASSUME LedgerInv, NEW r \in Run, MarkStarted(r)
    PROVE  LedgerInv'
<1>1. LedgerTypeOK'
  BY DEF LedgerInv, LedgerTypeOK, MarkStarted
<1> QED  BY <1>1, MoveKeepsInv DEF MarkStarted

LEMMA UnchangedLedger ==
    ASSUME LedgerInv, UNCHANGED ledgerVars
    PROVE  LedgerInv'
BY DEF LedgerInv, ledgerVars, LedgerTypeOK, OrdersBounded, Fifo, Running, Queued, Older

-----------------------------------------------------------------------------
(* Steps that touch nothing the invariant is about.                         *)

LEMMA QuietStep ==
    ASSUME IInv, ServiceTypeOK',
           UNCHANGED <<ledgerVars, proc, reconVars, owned, prepared, handles,
                       spawn, nextSpawn>>,
           server # "open" => pumps' = pumps
    PROVE  IInv'
<1>1. LedgerInv'
  BY UnchangedLedger DEF IInv
<1>2. ServiceInv'
  BY DEF IInv, ServiceInv, ledgerVars, reconVars, MemoryOnlyWhenOpen,
     StaleRowsListed, RowBookkeeping, LiveBookkeeping, OpenOwnsActive,
     PumpBookkeeping, OrdersDistinct, Unspawned, Recorded, Rows
<1> QED  BY <1>1, <1>2 DEF IInv

(* A process group only ever comes closer to its death by itself.          *)
LEMMA ProcessStep ==
    ASSUME IInv, NEW r \in Run, NEW p \in {"stray", "dead"}, Becomes(r, p),
           p = "stray" => proc[r] = "working"
    PROVE  IInv'
<1> USE DEF IInv, Becomes, procOnly, settleVars, reconVars, closeVars, boundVars
<1>1. LedgerInv'
  BY UnchangedLedger
<1>2. ServiceTypeOK'
  BY <1>1 DEF ServiceTypeOK, LedgerInv
<1>3. ServiceInv'
  BY DEF ServiceTypeOK, ServiceInv, ledgerVars, MemoryOnlyWhenOpen,
     StaleRowsListed, RowBookkeeping, LiveBookkeeping, OpenOwnsActive,
     PumpBookkeeping, OrdersDistinct, Unspawned, Recorded, Rows, Live
<1> QED  BY <1>1, <1>2, <1>3

(* A row this process admitted settles only after its group has died.      *)
LEMMA SettleStep ==
    ASSUME IInv, ServiceTypeOK', NEW r \in Run, NEW v \in Terminal,
           Finalize(r, v), proc[r] \notin Live, spawn[r] # "pending",
           UNCHANGED <<proc, reconVars, owned, spawn, nextSpawn>>
    PROVE  IInv'
<1> USE DEF IInv, Finalize
<1>1. LedgerInv'
  BY ReleaseLedger
<1>2. ServiceInv'
  BY DEF ServiceTypeOK, LedgerTypeOK, Forget, Release, reconVars, ServiceInv,
     MemoryOnlyWhenOpen, StaleRowsListed, RowBookkeeping, LiveBookkeeping,
     OpenOwnsActive, PumpBookkeeping, OrdersDistinct, Unspawned, Recorded,
     Rows, Live, Active, Terminal, Verdicts
<1> QED  BY <1>1, <1>2

-----------------------------------------------------------------------------
(* One lemma for each action, or for each group of alike actions.           *)

LEMMA GroupDeathKeeps ==
    ASSUME IInv, NEW r \in Run, GroupDeathObserved(r)
    PROVE  IInv'
<1> USE DEF IInv, GroupDeathObserved, FinalizeIfActive, reconVars, closeVars, boundVars
<1>1. PICK v \in Outcomes(r) : FinalizeIfActive(r, v)
  OBVIOUS
<1>2. v \in Terminal
  BY DEF Outcomes, Terminal, Verdicts, ServiceTypeOK
<1>3. CASE r \in owned /\ status[r] \in Active
  <2>1. Finalize(r, v)
    BY <1>1, <1>3
  <2>2. LedgerInv'
    BY <1>2, <2>1, ReleaseLedger DEF Finalize
  <2>3. ServiceTypeOK'
    BY <2>1, <2>2 DEF LedgerInv, ServiceTypeOK, Finalize, Forget
  <2>4. proc[r] \notin Live /\ spawn[r] # "pending"
    BY DEF ServiceInv, RowBookkeeping, Live
  <2> QED  BY <1>2, <2>1, <2>3, <2>4, SettleStep
<1>4. CASE ~(r \in owned /\ status[r] \in Active)
  <2>1. UNCHANGED serviceVars
    BY <1>1, <1>4 DEF settleVars, serviceVars
  <2>2. ServiceTypeOK'
    BY <2>1 DEF serviceVars, settleVars, ServiceTypeOK, LedgerTypeOK, ledgerVars
  <2> QED  BY <2>1, <2>2, QuietStep DEF serviceVars, settleVars
<1> QED  BY <1>3, <1>4

(* cancelRun before its first await, whoever calls it.                     *)
LEMMA CancelRunKeeps ==
    ASSUME IInv, NEW r \in Run, NEW as \in {"cancelled", "interrupted"},
           CancelRun(r, as), sweep' \in [Sweeper -> Sweep],
           UNCHANGED <<expired, proc, reconVars, owned, spawn, nextSpawn,
                       closeVars, boundVars>>
    PROVE  IInv'
<1> USE DEF IInv, reconVars, closeVars, boundVars
<1>1. CASE ParkCancel(r, as)
  <2>1. ServiceTypeOK'
    BY <1>1 DEF ParkCancel, ServiceTypeOK, LedgerTypeOK, ledgerVars
  <2> QED  BY <1>1, <2>1, QuietStep DEF ParkCancel
<1>2. CASE CancelTracked(r, as)
  <2>1. ServiceTypeOK'
    BY <1>2 DEF CancelTracked, Cancelled, ServiceTypeOK, LedgerTypeOK, ledgerVars
  <2> QED  BY <1>2, <2>1, QuietStep DEF CancelTracked
<1>3. CASE CancelUnspawned(r, as)
  <2>1. Finalize(r, as) /\ spawn[r] # "pending" /\ as \in Terminal
    BY <1>3 DEF CancelUnspawned, Terminal, Verdicts
  <2>2. proc[r] \notin Live
    BY <1>3 DEF CancelUnspawned, Finalize, ServiceInv, LiveBookkeeping, MemoryOnlyWhenOpen
  <2>3. LedgerInv'
    BY <2>1, ReleaseLedger DEF Finalize
  <2>4. ServiceTypeOK'
    BY <1>3, <2>3 DEF CancelUnspawned, LedgerInv, ServiceTypeOK, Finalize, Forget
  <2> QED  BY <2>1, <2>2, <2>4, SettleStep
<1> QED  BY <1>1, <1>2, <1>3 DEF CancelRun

LEMMA CancelKeeps ==
    ASSUME IInv, NEW r \in Run, Cancel(r)
    PROVE  IInv'
BY CancelRunKeeps DEF Cancel, IInv, ServiceTypeOK

LEMMA ResumeCancelKeeps ==
    ASSUME IInv, NEW r \in Run, ResumeCancel(r)
    PROVE  IInv'
<1>1. ServiceTypeOK'
  BY DEF IInv, ResumeCancel, Cancelled, ServiceTypeOK, LedgerTypeOK, ledgerVars,
     reconVars, closeVars, boundVars
<1> QED  BY <1>1, QuietStep DEF ResumeCancel

LEMMA SubmitKeeps ==
    ASSUME IInv, NEW r \in Run, NEW c \in Costs, NEW limit \in Limits,
           SubmitAndSpawn(r, c, limit) \/ SubmitAndWait(r, c, limit)
    PROVE  IInv'
<1> USE DEF IInv
<1>1. PICK s \in Active : Insert(r, c, s) /\ (s = "running" => Queued = {})
  BY DEF SubmitAndSpawn, SubmitAndWait, SubmitAdmitted, SubmitQueued,
     AdmitsAtOnce, Active
<1>2. c \in Nat
  BY CostAssumption
<1>3. LedgerInv'
  BY <1>1, <1>2, InsertKeepsInv
<1>4. ServiceTypeOK'
  BY <1>3 DEF LedgerInv, ServiceTypeOK, SubmitAndSpawn, SubmitAndWait, Accept,
     SpawnCalled, reconVars, closeVars, boundVars
<1>5. OrdersDistinct'
  BY <1>1, NextOrderIsLast DEF LedgerInv, ServiceInv, OrdersDistinct, Rows,
     Insert, Active, LedgerTypeOK
<1>6. status[r] = "absent" /\ Unspawned(r) /\ proc[r] \notin Live
  BY <1>1 DEF Insert, ServiceInv, RowBookkeeping, LiveBookkeeping, Recorded
<1>7. /\ UNCHANGED <<started, handles, nextSpawn, server, toRecover, unverified, pumps>>
      /\ server = "open" /\ owned' = owned \cup {r} /\ prepared' = prepared \cup {r}
  BY DEF SubmitAndSpawn, SubmitAndWait, SubmitAdmitted, SubmitQueued, Insert,
     Admissible, Accept, reconVars
<1>8. /\ status'[r] \in Active
      /\ status'[r] = "queued" => spawn'[r] = "idle"
      /\ spawn'[r] = "pending" => status'[r] = "running"
      /\ proc'[r] \notin Live
  <2>1. CASE SubmitAndSpawn(r, c, limit)
    BY <2>1 DEF SubmitAndSpawn, SubmitAdmitted, Insert, ServiceTypeOK, LedgerTypeOK,
       SpawnCalled, Live, Active
  <2>2. CASE SubmitAndWait(r, c, limit)
    BY <2>2, <1>6 DEF SubmitAndWait, SubmitQueued, Insert, ServiceTypeOK,
       LedgerTypeOK, Unspawned, Active
  <2> QED  BY <2>1, <2>2
<1>9. \A q \in Run \ {r} :
          status'[q] = status[q] /\ spawn'[q] = spawn[q] /\ proc'[q] = proc[q]
  BY DEF SubmitAndSpawn, SubmitAndWait, SubmitAdmitted, SubmitQueued, Insert,
     ServiceTypeOK, LedgerTypeOK, SpawnCalled
<1>10. \A q \in Run : nextSpawn[q] # r
  BY <1>6, NoRunAssumption DEF ServiceInv, PumpBookkeeping
<1>11. RowBookkeeping'
  BY <1>6, <1>7, <1>8, <1>9 DEF ServiceInv, RowBookkeeping, Unspawned, Recorded,
     Active
<1>12. LiveBookkeeping' /\ OpenOwnsActive' /\ MemoryOnlyWhenOpen' /\ StaleRowsListed'
  BY <1>7, <1>8, <1>9 DEF ServiceInv, LiveBookkeeping, OpenOwnsActive,
     MemoryOnlyWhenOpen, StaleRowsListed, Recorded
<1>13. PumpBookkeeping'
  BY <1>7, <1>9, <1>10 DEF ServiceInv, PumpBookkeeping, Unspawned, ServiceTypeOK
<1> QED  BY <1>3, <1>4, <1>5, <1>11, <1>12, <1>13 DEF ServiceInv

LEMMA SpawnFailsKeeps ==
    ASSUME IInv, NEW r \in Run, SpawnFails(r)
    PROVE  IInv'
<1> USE DEF IInv, SpawnFails, reconVars, closeVars, boundVars
<1> DEFINE v == IF parked[r] = "none" THEN "failed" ELSE parked[r]
<1>1. v \in Terminal
  BY DEF Terminal, Verdicts, ServiceTypeOK
<1>2. Finalize(r, v)
  BY DEF FinalizeIfActive, ServiceInv, RowBookkeeping, Active
<1> HIDE DEF v
<1>3. LedgerInv'
  BY <1>1, <1>2, ReleaseLedger DEF Finalize
<1>4. ServiceTypeOK'
  BY <1>2, <1>3 DEF LedgerInv, ServiceTypeOK, Finalize, Forget
<1>5. ServiceInv'
  BY <1>1, <1>2 DEF ServiceTypeOK, LedgerTypeOK, Finalize, Forget, Release,
     ServiceInv, MemoryOnlyWhenOpen, StaleRowsListed, RowBookkeeping,
     LiveBookkeeping, OpenOwnsActive, PumpBookkeeping, OrdersDistinct, Unspawned,
     Recorded, Rows, Live, Active, Terminal, Verdicts
<1> QED  BY <1>3, <1>4, <1>5

LEMMA SpawnSucceedsKeeps ==
    ASSUME IInv, NEW r \in Run, SpawnSucceeds(r)
    PROVE  IInv'
<1> USE DEF IInv, SpawnSucceeds, PassesBarrier, JustAdmitted, reconVars, closeVars, boundVars
<1>1. MarkStarted(r)
  BY DEF ServiceInv, RowBookkeeping
<1>2. LedgerInv'
  BY <1>1, MarkStartedLedger
<1>3. ServiceTypeOK'
  BY <1>2 DEF LedgerInv, ServiceTypeOK, Cancelled
<1>4. ServiceInv'
  BY <1>1 DEF ServiceTypeOK, LedgerTypeOK, MarkStarted, ServiceInv,
     MemoryOnlyWhenOpen, StaleRowsListed, RowBookkeeping, LiveBookkeeping,
     OpenOwnsActive, PumpBookkeeping, OrdersDistinct, Unspawned, Recorded, Rows,
     Live, Active
<1> QED  BY <1>2, <1>3, <1>4

(* The pump's loop goes on to a row that no spawn has touched yet.         *)
LEMMA SpawnSettlesKeeps ==
    ASSUME IInv, NEW r \in Run, SpawnSettles(r)
    PROVE  IInv'
<1> DEFINE x == nextSpawn[r]
<1> USE DEF IInv, reconVars, closeVars, boundVars
<1>1. /\ spawn[r] = "settled"
      /\ nextSpawn' = [nextSpawn EXCEPT ![r] = NoRun]
      /\ UNCHANGED <<expired, reconVars, owned, joining, sweep, closeVars, boundVars>>
  BY DEF SpawnSettles
<1>2. server = "open"
  BY <1>1 DEF ServiceInv, MemoryOnlyWhenOpen
<1>3. CASE x = NoRun /\ spawn' = [spawn EXCEPT ![r] = "idle"] /\ UNCHANGED <<settleVars, proc>>
  <2>1. LedgerInv'
    BY <1>3, UnchangedLedger DEF settleVars
  <2>2. ServiceTypeOK'
    BY <1>1, <1>3, <2>1 DEF LedgerInv, ServiceTypeOK, settleVars
  <2>3. ServiceInv'
    BY <1>1, <1>2, <1>3 DEF settleVars, ledgerVars, ServiceTypeOK, ServiceInv,
       MemoryOnlyWhenOpen, StaleRowsListed, RowBookkeeping, LiveBookkeeping,
       OpenOwnsActive, PumpBookkeeping, OrdersDistinct, Unspawned, Recorded, Rows
  <2> QED  BY <2>1, <2>2, <2>3
<1>4. ASSUME x \in Run
      PROVE  /\ Unspawned(x) /\ x # r /\ status[x] \notin {"absent", "queued"}
             /\ proc[x] \notin Live
             /\ \A q \in Run : nextSpawn'[q] # x
  BY <1>1, <1>2, <1>4, NoRunAssumption DEF ServiceInv, PumpBookkeeping,
     LiveBookkeeping, Unspawned, ServiceTypeOK
<1>5. CASE /\ x \in prepared
           /\ spawn' = [spawn EXCEPT ![r] = "idle", ![x] = "pending"]
           /\ SpawnCalled(x) /\ UNCHANGED settleVars
  <2>1. LedgerInv'
    BY <1>5, UnchangedLedger DEF settleVars
  <2>2. ServiceTypeOK'
    BY <1>1, <1>5, <2>1 DEF LedgerInv, ServiceTypeOK, settleVars, SpawnCalled
  <2>3. x \in Run /\ status[x] = "running" /\ x \in owned
    BY <1>4, <1>5 DEF ServiceInv, RowBookkeeping, ServiceTypeOK, Active
  <2>4. /\ UNCHANGED <<status, started, queueOrder, handles, prepared, pumps>>
        /\ proc'[x] \notin Live
        /\ \A q \in Run \ {x} : proc'[q] = proc[q]
    BY <1>5, <2>3 DEF settleVars, ledgerVars, SpawnCalled, ServiceTypeOK, Live
  <2>5. ServiceInv'
    BY <1>1, <1>2, <1>4, <1>5, <2>3, <2>4 DEF ServiceTypeOK, ServiceInv,
       MemoryOnlyWhenOpen, StaleRowsListed, RowBookkeeping, LiveBookkeeping,
       OpenOwnsActive, PumpBookkeeping, OrdersDistinct, Unspawned, Recorded, Rows
  <2> QED  BY <2>1, <2>2, <2>5
<1>6. CASE /\ x \in Run \ prepared
           /\ spawn' = [spawn EXCEPT ![r] = "idle", ![x] = "settled"]
           /\ FinalizeIfActive(x, "failed") /\ UNCHANGED proc
  <2>1. CASE x \in owned /\ status[x] \in Active
    <3>1. Finalize(x, "failed") /\ "failed" \in Terminal
      BY <1>6, <2>1 DEF FinalizeIfActive, Terminal, Verdicts
    <3>2. LedgerInv'
      BY <1>6, <3>1, ReleaseLedger DEF Finalize
    <3>3. ServiceTypeOK'
      BY <1>1, <1>6, <3>1, <3>2 DEF LedgerInv, ServiceTypeOK, Finalize, Forget
    <3>4. ServiceInv'
      BY <1>1, <1>2, <1>4, <1>6, <3>1 DEF ServiceTypeOK, LedgerTypeOK, Finalize,
         Forget, Release, ServiceInv, MemoryOnlyWhenOpen, StaleRowsListed,
         RowBookkeeping, LiveBookkeeping, OpenOwnsActive, PumpBookkeeping,
         OrdersDistinct, Unspawned, Recorded, Rows, Active
    <3> QED  BY <3>2, <3>3, <3>4
  <2>2. CASE ~(x \in owned /\ status[x] \in Active)
    <3>1. UNCHANGED settleVars
      BY <1>6, <2>2 DEF FinalizeIfActive
    <3>2. LedgerInv'
      BY <3>1, UnchangedLedger DEF settleVars
    <3>3. ServiceTypeOK'
      BY <1>1, <1>6, <3>1, <3>2 DEF LedgerInv, ServiceTypeOK, settleVars
    <3>4. ServiceInv'
      BY <1>1, <1>2, <1>4, <1>6, <3>1 DEF settleVars, ledgerVars, ServiceTypeOK,
         ServiceInv, MemoryOnlyWhenOpen, StaleRowsListed, RowBookkeeping,
         LiveBookkeeping, OpenOwnsActive, PumpBookkeeping, OrdersDistinct,
         Unspawned, Recorded, Rows
    <3> QED  BY <3>2, <3>3, <3>4
  <2> QED  BY <2>1, <2>2
<1> QED  BY <1>3, <1>5, <1>6 DEF SpawnSettles

-----------------------------------------------------------------------------
(* The pump's loop, started on its oldest admitted row, leads every other  *)
(* admitted row to be spawned by exactly one predecessor.                  *)
LEMMA PumpSuccessors ==
    ASSUME LedgerTypeOK, OrdersDistinct, NEW A \in SUBSET Rows,
           NEW p \in A
    PROVE  LET Rest(r) == {s \in A : Older(r, s)} IN
           Rest(p) # {} =>
             /\ Oldest(Rest(p)) \in A
             /\ Oldest(Rest(p)) # Oldest(A)
             /\ \A q \in A : Rest(q) # {} /\ Oldest(Rest(q)) = Oldest(Rest(p))
                    => q = p
<1> DEFINE Rest(r) == {s \in A : Older(r, s)}
<1> SUFFICES ASSUME Rest(p) # {}
             PROVE  /\ Oldest(Rest(p)) \in A
                    /\ Oldest(Rest(p)) # Oldest(A)
                    /\ \A q \in A : Rest(q) # {} /\ Oldest(Rest(q)) = Oldest(Rest(p))
                           => q = p
  OBVIOUS
<1>1. \A q \in A : Rest(q) \in SUBSET Rows
  OBVIOUS
<1>2. \A q \in A : Rest(q) # {} =>
          /\ Oldest(Rest(q)) \in Rest(q)
          /\ \A s \in Rest(q) \ {Oldest(Rest(q))} : Older(Oldest(Rest(q)), s)
  <2> HIDE DEF Rest
  <2> QED  BY <1>1, OldestExists
<1>3. /\ Oldest(A) \in A
      /\ \A s \in A \ {Oldest(A)} : Older(Oldest(A), s)
  BY OldestExists
<1>4. \A s, t \in A : /\ Older(s, t) => ~Older(t, s)
                      /\ s # t => Older(s, t) \/ Older(t, s)
  BY DEF LedgerTypeOK, OrdersDistinct, Older, Rows
<1>5. Oldest(Rest(p)) # Oldest(A)
  <2>1. Oldest(Rest(p)) \in A /\ Older(p, Oldest(Rest(p)))
    BY <1>2
  <2>2. p = Oldest(A) \/ Older(Oldest(A), p)
    BY <1>3
  <2> QED  BY <1>3, <1>4, <2>1, <2>2
<1>6. ASSUME NEW a \in A, NEW b \in A, Older(a, b), Rest(b) # {}
      PROVE  Rest(a) # {} /\ Oldest(Rest(a)) # Oldest(Rest(b))
  <2>1. b \in Rest(a)
    BY <1>6
  <2>2. Oldest(Rest(b)) \in A /\ Older(b, Oldest(Rest(b)))
    BY <1>2, <1>6
  <2>3. b = Oldest(Rest(a)) \/ Older(Oldest(Rest(a)), b)
    BY <1>2, <2>1
  <2> QED  BY <1>4, <2>1, <2>2, <2>3
<1>7. ASSUME NEW q \in A, Rest(q) # {}, Oldest(Rest(q)) = Oldest(Rest(p)), q # p
      PROVE  FALSE
  <2>1. Older(p, q) \/ Older(q, p)
    BY <1>4, <1>7
  <2> HIDE DEF Rest
  <2> QED  BY <1>6, <1>7, <2>1
<1>8. Oldest(Rest(p)) \in A
  BY <1>2
<1>9. \A q \in A : Rest(q) # {} /\ Oldest(Rest(q)) = Oldest(Rest(p)) => q = p
  <2> HIDE DEF Rest
  <2> QED  BY <1>7
<1> HIDE DEF Rest
<1> QED  BY <1>5, <1>8, <1>9

LEMMA PumpQueueKeeps ==
    ASSUME IInv, NEW limit \in Limits, NEW A \in SUBSET Queued, PumpQueue(limit, A)
    PROVE  IInv'
<1> DEFINE Rest(r) == {s \in A : Older(r, s)}
           Succ(r) == IF Rest(r) = {} THEN NoRun ELSE Oldest(Rest(r))
<1> USE DEF IInv
<1>1. /\ Pump(limit, A)
      /\ nextSpawn' = [r \in Run |-> IF r \in A THEN Succ(r) ELSE nextSpawn[r]]
      /\ prepared' = prepared \ Oversized(limit)
      /\ results' = results \cup Oversized(limit)
      /\ pumps > 0 /\ pumps' = pumps - 1
      /\ UNCHANGED <<parked, handles, ending, forced, expired, reconVars, owned,
                     joining, sweep, closeVars, boundVars>>
  BY DEF PumpQueue
<1>2. LedgerInv'
  BY <1>1, PumpKeepsInv
<1>3. A \subseteq Rows /\ A \subseteq Run /\ OrdersDistinct /\ LedgerTypeOK
  BY DEF Queued, Rows, ServiceInv, LedgerInv
<1>4. A # {} => Oldest(A) \in A
  BY <1>3, OldestExists
<1>5. \A p \in A : Rest(p) # {} =>
          /\ Succ(p) \in A
          /\ Succ(p) # Oldest(A)
          /\ \A q \in A : Rest(q) # {} /\ Succ(q) = Succ(p) => q = p
  BY <1>3, PumpSuccessors
<1>6. \A p \in A : Succ(p) \in A \cup {NoRun}
  BY <1>5
<1>7. keyHolder' \in [Key -> Run \cup {NoRun}]
  BY DEF PumpQueue, ServiceTypeOK
<1>8. /\ spawn' \in [Run -> {"idle", "pending", "settled"}]
      /\ proc' \in [Run -> {"none", "barriered", "working", "stray", "dead"}]
      /\ \A q \in Run : q \notin A \/ q # Oldest(A) =>
             spawn'[q] = spawn[q] /\ proc'[q] = proc[q]
      /\ \A q \in A : q = Oldest(A) => spawn'[q] = "pending" /\ proc'[q] \notin Live
  BY <1>3, <1>4 DEF PumpQueue, SpawnCalled, ServiceTypeOK, Live
<1>9. ServiceTypeOK'
  <2> HIDE DEF Succ
  <2>1. nextSpawn' \in [Run -> Run \cup {NoRun}]
    BY <1>1, <1>3, <1>6 DEF ServiceTypeOK
  <2>2. Oversized(limit) \subseteq Run
    BY DEF Oversized, Queued
  <2> QED  BY <1>1, <1>2, <1>7, <1>8, <2>1, <2>2 DEF LedgerInv, ServiceTypeOK,
            reconVars, closeVars, boundVars
<1>10. \A q \in Run :
          /\ q \in A => status[q] = "queued" /\ status'[q] = "running"
          /\ q \in Oversized(limit) => status[q] = "queued" /\ status'[q] \in Terminal
          /\ q \notin A \cup Oversized(limit) => status'[q] = status[q]
  BY <1>1 DEF Pump, SweepAdmits, HeadSets, Oversized, Queued, Terminal
<1>11. UNCHANGED <<queueOrder, started>>
  BY <1>1 DEF Pump
<1>12. server = "open"
  BY <1>1 DEF ServiceInv, MemoryOnlyWhenOpen, ServiceTypeOK
<1>13. \A q \in A : Unspawned(q) /\ q \in owned /\ proc[q] \notin Live
  BY <1>3, <1>10, <1>12 DEF ServiceInv, RowBookkeeping, LiveBookkeeping, Recorded,
     OpenOwnsActive, Active
<1>14. RowBookkeeping'
  BY <1>1, <1>8, <1>10, <1>11, <1>13 DEF ServiceInv, RowBookkeeping, Unspawned,
     Recorded, Active, Terminal, Verdicts
<1>15. LiveBookkeeping' /\ OpenOwnsActive' /\ MemoryOnlyWhenOpen' /\ StaleRowsListed'
  BY <1>1, <1>8, <1>10, <1>11, <1>12, <1>13 DEF ServiceInv, LiveBookkeeping, Recorded,
     OpenOwnsActive, MemoryOnlyWhenOpen, StaleRowsListed, Active, Terminal,
     Verdicts, reconVars
<1>16. PumpBookkeeping'
  <2>1. ASSUME NEW p \in Run, p \notin A, nextSpawn'[p] # NoRun
        PROVE  /\ nextSpawn'[p] = nextSpawn[p]
               /\ nextSpawn[p] \in Run \ A
               /\ Unspawned(nextSpawn[p])'
               /\ status'[nextSpawn'[p]] \notin {"absent", "queued"}
    BY <1>1, <1>3, <1>8, <1>10, <1>11, <2>1 DEF ServiceInv, PumpBookkeeping,
       Unspawned, ServiceTypeOK, Terminal, Verdicts
  <2>2. ASSUME NEW p \in A, nextSpawn'[p] # NoRun
        PROVE  /\ nextSpawn'[p] = Succ(p) /\ Rest(p) # {}
               /\ Succ(p) \in A
               /\ Unspawned(nextSpawn[p])'
               /\ status'[nextSpawn'[p]] \notin {"absent", "queued"}
    <3>1. nextSpawn'[p] = Succ(p)
      BY <1>1, <1>3
    <3>2. Rest(p) # {}
      BY <3>1, <2>2
    <3>3. Succ(p) \in A /\ Succ(p) # Oldest(A)
      BY <1>5, <3>2
    <3> HIDE DEF Succ, Rest
    <3> QED  BY <1>1, <1>3, <1>8, <1>10, <1>11, <1>13, <3>1, <3>2, <3>3 DEF Unspawned
  <2>3. \A p, q \in Run :
            nextSpawn'[p] = nextSpawn'[q] /\ nextSpawn'[p] # NoRun => p = q
    <3> SUFFICES ASSUME NEW p \in Run, NEW q \in Run, nextSpawn'[p] = nextSpawn'[q],
                        nextSpawn'[p] # NoRun
                 PROVE  p = q
      OBVIOUS
    <3>1. CASE p \in A /\ q \in A
      <4> HIDE DEF Succ, Rest
      <4> QED  BY <1>5, <2>2, <3>1
    <3>2. CASE p \notin A /\ q \notin A
      BY <2>1, <3>2 DEF ServiceInv, PumpBookkeeping
    <3>3. CASE p \in A /\ q \notin A
      <4> HIDE DEF Succ, Rest
      <4> QED  BY <2>1, <2>2, <3>3
    <3>4. CASE p \notin A /\ q \in A
      <4> HIDE DEF Succ, Rest
      <4> QED  BY <2>1, <2>2, <3>4
    <3> QED  BY <3>1, <3>2, <3>3, <3>4
  <2> HIDE DEF Succ, Rest
  <2> QED  BY <2>1, <2>2, <2>3 DEF PumpBookkeeping
<1>17. OrdersDistinct'
  BY <1>3, <1>10, <1>11 DEF OrdersDistinct, Rows, Queued, Oversized
<1> QED  BY <1>2, <1>9, <1>14, <1>15, <1>16, <1>17 DEF ServiceInv

LEMMA PumpGivesUpKeeps ==
    ASSUME IInv, PumpGivesUp
    PROVE  IInv'
<1>1. ServiceTypeOK'
  BY DEF IInv, PumpGivesUp, ServiceTypeOK, LedgerTypeOK, ledgerVars, reconVars,
     closeVars, boundVars
<1>2. server = "open"
  BY DEF IInv, PumpGivesUp, ServiceInv, MemoryOnlyWhenOpen, ServiceTypeOK
<1> QED  BY <1>1, <1>2, QuietStep DEF PumpGivesUp

LEMMA ProcStepKeeps ==
    ASSUME IInv, NEW r \in Run, ProcStep(r)
    PROVE  IInv'
<1>1. CASE LeaderExits(r)
  BY <1>1, ProcessStep DEF LeaderExits
<1>2. CASE StraysDie(r) \/ GroupKilled(r) \/ BarrierAborts(r)
  BY <1>2, ProcessStep DEF StraysDie, GroupKilled, BarrierAborts
<1>3. CASE TimesOut(r)
  <2>1. ServiceTypeOK'
    BY <1>3 DEF IInv, TimesOut, ServiceTypeOK, LedgerTypeOK, ledgerVars, reconVars,
       closeVars, boundVars
  <2> QED  BY <1>3, <2>1, QuietStep DEF TimesOut
<1> QED  BY <1>1, <1>2, <1>3, GroupDeathKeeps DEF ProcStep

LEMMA LeaseKeeps ==
    ASSUME IInv, NEW r \in Run, LeaseExpires(r) \/ Renew(r)
    PROVE  IInv'
<1> USE DEF LeaseExpires, Renew, leaseFrame, settleVars
<1>1. ServiceTypeOK'
  BY DEF IInv, ServiceTypeOK, LedgerTypeOK, ledgerVars, reconVars, closeVars,
     boundVars
<1> QED  BY <1>1, QuietStep

-----------------------------------------------------------------------------
(* The lease sweep.                                                         *)

LEMMA SweepBeginsKeeps ==
    ASSUME IInv, NEW w \in Sweeper, SweepBegins(w)
    PROVE  IInv'
<1> USE DEF SweepBegins, Snapshot, leaseFrame, settleVars
<1>1. sweep' \in [Sweeper -> Sweep]
  BY DEF IInv, ServiceTypeOK, Sweep, Running, Queued
<1>2. ServiceTypeOK'
  BY <1>1 DEF IInv, ServiceTypeOK, LedgerTypeOK, ledgerVars, reconVars,
     closeVars, boundVars
<1> QED  BY <1>2, QuietStep

(* A sweep settles a row only when the row has no process any more.        *)
LEMMA SweepFinalizeKeeps ==
    ASSUME IInv, NEW r \in Run, FinalizeIfActive(r, "interrupted"),
           r \notin handles, spawn[r] # "pending",
           sweep' \in [Sweeper -> Sweep], UNCHANGED <<joining, expired, leaseFrame>>
    PROVE  IInv'
<1> USE DEF IInv, leaseFrame, reconVars, closeVars, boundVars
<1>1. CASE r \in owned /\ status[r] \in Active
  <2>1. Finalize(r, "interrupted") /\ "interrupted" \in Terminal
    BY <1>1 DEF FinalizeIfActive, Terminal, Verdicts
  <2>2. proc[r] \notin Live
    BY <1>1 DEF ServiceInv, LiveBookkeeping, MemoryOnlyWhenOpen
  <2>3. LedgerInv'
    BY <2>1, ReleaseLedger DEF Finalize
  <2>4. ServiceTypeOK'
    BY <2>1, <2>3 DEF LedgerInv, ServiceTypeOK, Finalize, Forget
  <2> QED  BY <2>1, <2>2, <2>4, SettleStep
<1>2. CASE ~(r \in owned /\ status[r] \in Active)
  <2>1. UNCHANGED settleVars
    BY <1>2 DEF FinalizeIfActive
  <2>2. ServiceTypeOK'
    BY <2>1 DEF settleVars, ServiceTypeOK, LedgerTypeOK, ledgerVars
  <2> QED  BY <2>1, <2>2, QuietStep DEF settleVars
<1> QED  BY <1>1, <1>2

LEMMA SweepVisitsKeeps ==
    ASSUME IInv, NEW w \in Sweeper, NEW r \in Run, SweepVisits(w, r)
    PROVE  IInv'
<1>1. ASSUME NEW kill \in Run \cup {NoRun}, Visited(w, r, kill)
      PROVE  sweep' \in [Sweeper -> Sweep]
  BY <1>1 DEF Visited, IInv, ServiceTypeOK, Sweep
<1>2. CASE Visited(w, r, NoRun) /\ UNCHANGED <<settleVars, joining, expired, leaseFrame>>
  <2>1. ServiceTypeOK'
    BY <1>1, <1>2 DEF IInv, ServiceTypeOK, LedgerTypeOK, settleVars, ledgerVars,
       leaseFrame, reconVars, closeVars, boundVars
  <2> QED  BY <1>2, <2>1, QuietStep DEF settleVars, leaseFrame
<1>3. CASE /\ CancelRun(r, "interrupted")
           /\ Visited(w, r, IF spawn[r] # "idle" \/ r \in handles THEN r ELSE NoRun)
           /\ UNCHANGED <<expired, leaseFrame>>
  <2>1. sweep' \in [Sweeper -> Sweep]
    BY <1>1, <1>3
  <2> QED  BY <1>3, <2>1, CancelRunKeeps DEF leaseFrame
<1>4. CASE /\ r \in Queued /\ FinalizeIfActive(r, "interrupted")
           /\ Visited(w, r, NoRun) /\ UNCHANGED <<joining, expired, leaseFrame>>
  <2>1. r \notin handles /\ spawn[r] # "pending"
    BY <1>4 DEF IInv, ServiceInv, RowBookkeeping, Unspawned, Queued
  <2> QED  BY <1>1, <1>4, <2>1, SweepFinalizeKeeps
<1> QED  BY <1>2, <1>3, <1>4 DEF SweepVisits

LEMMA SweepResumesKeeps ==
    ASSUME IInv, NEW w \in Sweeper, SweepResumes(w)
    PROVE  IInv'
<1> DEFINE r == sweep[w].killing
<1>1. r \in Run /\ sweep' \in [Sweeper -> Sweep]
  BY DEF SweepResumes, IInv, ServiceTypeOK, Sweep
<1> QED  BY <1>1, SweepFinalizeKeeps DEF SweepResumes

-----------------------------------------------------------------------------
(* Shutdown, crash and recovery.                                            *)

LEMMA ShutdownBeginsKeeps ==
    ASSUME IInv, ShutdownBegins
    PROVE  IInv'
<1> USE DEF ShutdownBegins, shutFrame
<1>1. ServiceTypeOK'
  BY DEF IInv, InterruptTracked, Cancelled, ServiceTypeOK, LedgerTypeOK,
     ledgerVars, reconVars, boundVars
<1> QED  BY <1>1, QuietStep

(* Rows that hold no process settle together when the shutdown drains.     *)
LEMMA ShutdownDrainsKeeps ==
    ASSUME IInv, ShutdownDrains
    PROVE  IInv'
<1> DEFINE U == {r \in Running \cup Queued : spawn[r] = "idle" /\ r \notin handles}
                   \cap owned
<1> USE DEF IInv, shutFrame, reconVars, boundVars
<1>1. /\ U \subseteq Run
      /\ status' = [r \in Run |-> IF r \in U THEN "interrupted" ELSE status[r]]
      /\ prepared' = prepared \ U
      /\ UNCHANGED <<cost, queueOrder, started, handles, pumps, shutFrame>>
  BY DEF ShutdownDrains, Running, Queued
<1>2. ServiceTypeOK'
  BY DEF ShutdownDrains, InterruptTracked, Cancelled, ServiceTypeOK, LedgerTypeOK,
     Status, Terminal, Verdicts, Running, Queued
<1>3. \A r \in U : /\ status[r] \in Active /\ spawn[r] = "idle"
                   /\ r \notin handles /\ proc[r] \notin Live
  BY DEF Running, Queued, Active, ServiceInv, LiveBookkeeping, MemoryOnlyWhenOpen
<1> HIDE DEF U
<1>4. LedgerInv'
  <2>1. LedgerTypeOK'
    BY <1>2 DEF ServiceTypeOK
  <2> QED  BY <1>1, <2>1, MoveKeepsInv
<1>5. ServiceInv'
  BY <1>1, <1>3 DEF ServiceTypeOK, LedgerTypeOK, ServiceInv, MemoryOnlyWhenOpen,
     StaleRowsListed, RowBookkeeping, LiveBookkeeping, OpenOwnsActive,
     PumpBookkeeping, OrdersDistinct, Unspawned, Recorded, Rows, Active
<1> QED  BY <1>2, <1>4, <1>5

(* A process that ends leaves the ledger and the process groups behind.    *)
LEMMA MemoryLost ==
    ASSUME IInv, LedgerInv', ServiceTypeOK', LoseMemory, server' = "down",
           UNCHANGED <<status, queueOrder, proc>>,
           \A r \in Run : started'[r] = started[r] \/ status[r] = "running",
           \A r \in Run : started[r] => started'[r]
    PROVE  IInv'
<1>1. ServiceInv'
  BY DEF LoseMemory, IInv, ServiceTypeOK, LedgerTypeOK, ServiceInv,
     MemoryOnlyWhenOpen, StaleRowsListed, RowBookkeeping, LiveBookkeeping,
     OpenOwnsActive, PumpBookkeeping, OrdersDistinct, Unspawned, Recorded, Rows
<1> QED  BY <1>1 DEF IInv

LEMMA ProcessEndsKeeps ==
    ASSUME IInv, Crash \/ ShutdownDone
    PROVE  IInv'
<1> USE DEF Crash, ServerDies, ShutdownDone
<1>1. LedgerInv'
  BY UnchangedLedger DEF IInv
<1>2. ServiceTypeOK'
  BY <1>1 DEF IInv, LedgerInv, ServiceTypeOK, LoseMemory, NoSweep, Sweep, boundVars
<1> QED  BY <1>1, <1>2, MemoryLost DEF ledgerVars

LEMMA CrashBeforeReleaseKeeps ==
    ASSUME IInv, NEW r \in Run, CrashBeforeRelease(r)
    PROVE  IInv'
<1> USE DEF CrashBeforeRelease, ServerDies
<1>1. LedgerInv'
  BY MarkStartedLedger DEF IInv
<1>2. ServiceTypeOK'
  BY <1>1 DEF IInv, LedgerInv, ServiceTypeOK, LoseMemory, NoSweep, Sweep
<1> QED  BY <1>1, <1>2, MemoryLost DEF MarkStarted, IInv, ServiceTypeOK, LedgerTypeOK

LEMMA StartKeeps ==
    ASSUME IInv, Start
    PROVE  IInv'
<1> USE DEF IInv, Start, StaleRows, settleVars, boundVars
<1>1. LedgerInv'
  BY UnchangedLedger
<1>2. ServiceTypeOK'
  BY <1>1 DEF LedgerInv, ServiceTypeOK, Running, Queued
<1>3. ServiceInv'
  BY DEF ledgerVars, ServiceTypeOK, ServiceInv, MemoryOnlyWhenOpen,
     StaleRowsListed, RowBookkeeping, LiveBookkeeping, OpenOwnsActive,
     PumpBookkeeping, OrdersDistinct, Unspawned, Recorded, Rows, Active,
     Running, Queued
<1> QED  BY <1>1, <1>2, <1>3

LEMMA RecoverRowKeeps ==
    ASSUME IInv, NEW r \in Run, RecoverRow(r)
    PROVE  IInv'
<1> USE DEF IInv, RecoverRow, Unverifiable, recoverFrame, closeVars, boundVars
<1>1. LedgerInv'
  BY ReleaseLedger DEF Terminal, Verdicts
<1>2. ServiceTypeOK'
  BY <1>1 DEF LedgerInv, ServiceTypeOK
<1>3. proc'[r] \notin Live /\ \A q \in Run \ {r} : proc'[q] = proc[q]
  BY DEF ServiceTypeOK, ServiceInv, LiveBookkeeping, Live, Leader
<1>4. ServiceInv'
  BY <1>3 DEF ServiceTypeOK, LedgerTypeOK, Release, ServiceInv, MemoryOnlyWhenOpen,
     StaleRowsListed, RowBookkeeping, LiveBookkeeping, OpenOwnsActive,
     PumpBookkeeping, OrdersDistinct, Unspawned, Recorded, Rows, Active
<1> QED  BY <1>1, <1>2, <1>4

LEMMA RecoveryKeeps ==
    ASSUME IInv, (\E r \in Run : LeaveUnverified(r)) \/ RecoveryEnds
    PROVE  IInv'
<1> USE DEF IInv, LeaveUnverified, Unverifiable, RecoveryEnds, recoverFrame, closeVars, boundVars
<1>1. LedgerInv'
  BY UnchangedLedger
<1>2. ServiceTypeOK'
  BY <1>1 DEF LedgerInv, ServiceTypeOK
<1>3. ServiceInv'
  BY DEF ledgerVars, ServiceTypeOK, ServiceInv, MemoryOnlyWhenOpen,
     StaleRowsListed, RowBookkeeping, LiveBookkeeping, OpenOwnsActive,
     PumpBookkeeping, OrdersDistinct, Unspawned, Recorded, Rows, Active
<1> QED  BY <1>1, <1>2, <1>3

-----------------------------------------------------------------------------

LEMMA StepKeeps ==
    ASSUME IInv, [ServiceNext]_serviceVars
    PROVE  IInv'
<1>1. CASE Submit
  BY <1>1, SubmitKeeps DEF Submit
<1>2. ASSUME NEW r \in Run, Cancel(r) \/ ResumeCancel(r) \/ SpawnStep(r) \/ ProcStep(r)
      PROVE  IInv'
  BY <1>2, CancelKeeps, ResumeCancelKeeps, SpawnFailsKeeps, SpawnSucceedsKeeps,
     SpawnSettlesKeeps, ProcStepKeeps DEF SpawnStep
<1>3. ASSUME NEW r \in Run, LeaseExpires(r) \/ Renew(r)
      PROVE  IInv'
  BY <1>3, LeaseKeeps
<1>4. CASE Pumping \/ PumpGivesUp
  BY <1>4, PumpQueueKeeps, PumpGivesUpKeeps DEF Pumping
<1>5. ASSUME NEW w \in Sweeper, SweepStep(w)
      PROVE  IInv'
  BY <1>5, SweepBeginsKeeps, SweepVisitsKeeps, SweepResumesKeeps DEF SweepStep
<1>6. CASE ShutdownStep
  BY <1>6, ShutdownBeginsKeeps, ShutdownDrainsKeeps, ProcessEndsKeeps DEF ShutdownStep
<1>7. CASE RestartStep
  BY <1>7, ProcessEndsKeeps, CrashBeforeReleaseKeeps, StartKeeps, RecoverRowKeeps,
     RecoveryKeeps DEF RestartStep
<1>8. CASE UNCHANGED serviceVars
  <2>1. ServiceTypeOK'
    BY <1>8 DEF IInv, serviceVars, settleVars, ledgerVars, reconVars, closeVars,
       boundVars, ServiceTypeOK, LedgerTypeOK
  <2> QED  BY <1>8, <2>1, QuietStep DEF serviceVars, settleVars
<1> QED  BY <1>1, <1>2, <1>3, <1>4, <1>5, <1>6, <1>7, <1>8 DEF ServiceNext

(* The inductive invariant: types, the ledger's FIFO order, and what the   *)
(* service remembers of each row of the ledger and each process group.     *)
THEOREM ServiceInvariant == ServiceSpec => []IInv
BY InitEstablishes, StepKeeps, PTL DEF ServiceSpec

THEOREM ServiceTypeCorrect == ServiceSpec => []ServiceTypeOK
<1>1. IInv => ServiceTypeOK
  BY DEF IInv
<1> QED  BY ServiceInvariant, <1>1, PTL

(* What the service remembers agrees with the ledger and the processes.    *)
THEOREM ServiceBookkeeping == ServiceSpec => []ServiceInv
<1>1. IInv => ServiceInv
  BY DEF IInv
<1> QED  BY ServiceInvariant, <1>1, PTL

(* No reservation is given back while its process group may still execute, *)
(* whatever cancels, times out, crashes, recovers or shuts down.           *)
THEOREM ReservationIsHeld == ServiceSpec => []ReservationHeld
<1>1. IInv => ReservationHeld
  BY DEF IInv, ServiceInv, LiveBookkeeping, ReservationHeld
<1> QED  BY ServiceInvariant, <1>1, PTL

(* The interleavings around the service's awaits keep admission FIFO.      *)
THEOREM ServiceIsFifo == ServiceSpec => []Fifo
<1>1. IInv => Fifo
  BY DEF IInv, LedgerInv
<1> QED  BY ServiceInvariant, <1>1, PTL
=============================================================================
