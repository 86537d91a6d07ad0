------------------------- MODULE ValidationScheduler -------------------------
(***************************************************************************)
(* Weighted FIFO admission over the durable validation_runs ledger         *)
(* (src/lib/validation/scheduler.ts over state-store/validation-runs-repo).*)
(*                                                                         *)
(* Every operation is one synchronous SQLite transaction, so every one is  *)
(* one action here.  The concurrency limit is an argument of each decision *)
(* and never part of the ledger: a live configuration change takes effect  *)
(* at the next decision, whatever that decision is.                        *)
(***************************************************************************)
EXTENDS Integers, FiniteSets, FiniteSetsExt

CONSTANTS
    Run,     \* the run ids submissions may draw
    Costs,   \* the reservation weights a registered command may declare
    Limits   \* the values the configured concurrencyLimit may take

ASSUME RunAssumption   == IsFiniteSet(Run)
ASSUME CostAssumption  == Costs \subseteq Nat \ {0}
ASSUME LimitAssumption == Limits \subseteq Nat \ {0} /\ Limits # {}

VARIABLES
    status,      \* [Run -> Status]; "absent" is a run id with no row
    cost,        \* the weight snapshotted onto the row at submission
    queueOrder,  \* strict FIFO position, assigned once
    started      \* startedAt /= null, stamped with the process-group pid

ledgerVars == <<status, cost, queueOrder, started>>

Verdicts == {"passed", "failed", "timed_out", "cancelled", "interrupted"}
Terminal == Verdicts \cup {"cost_exceeds_limit"}
Active   == {"queued", "running"}
Status   == {"absent"} \cup Active \cup Terminal

LedgerTypeOK ==
    /\ status \in [Run -> Status]
    /\ cost \in [Run -> Nat]
    /\ queueOrder \in [Run -> Nat]
    /\ started \in [Run -> BOOLEAN]

LedgerInit ==
    /\ status = [r \in Run |-> "absent"]
    /\ cost = [r \in Run |-> 0]
    /\ queueOrder = [r \in Run |-> 0]
    /\ started = [r \in Run |-> FALSE]

-----------------------------------------------------------------------------
(* Reading the ledger. *)

Rows    == {r \in Run : status[r] # "absent"}
Queued  == {r \in Run : status[r] = "queued"}
Running == {r \in Run : status[r] = "running"}

CostOf(S) == MapThenSumSet(LAMBDA r : cost[r], S)
InUse == CostOf(Running)

\* COALESCE(MAX(queue_order), -1) + 1 over every row, terminal ones included.
NextQueueOrder ==
    IF Rows = {} THEN 0 ELSE Max({queueOrder[r] : r \in Rows}) + 1

Older(r, s) == queueOrder[r] < queueOrder[s]

-----------------------------------------------------------------------------
(* Submission.  Both refusals (cost_exceeds_limit, capacity_unavailable)    *)
(* insert no row, so they are no action.                                    *)

FitsWithoutOwnCost(c, limit) == InUse < limit   \* mutant

Fits(c, limit) == InUse + c <= limit

AdmitsPastWaiters(c, limit) == Fits(c, limit)   \* mutant: ignores the queue

AdmitsAtOnce(c, limit) == Queued = {} /\ Fits(c, limit)

Insert(r, c, s) ==
    /\ status[r] = "absent"
    /\ status' = [status EXCEPT ![r] = s]
    /\ cost' = [cost EXCEPT ![r] = c]
    /\ queueOrder' = [queueOrder EXCEPT ![r] = NextQueueOrder]
    /\ UNCHANGED started

SubmitAdmitted(r, c, limit) ==
    /\ c <= limit
    /\ AdmitsAtOnce(c, limit)
    /\ Insert(r, c, "running")

SubmitQueued(r, c, limit) ==
    /\ c <= limit
    /\ ~AdmitsAtOnce(c, limit)
    /\ Insert(r, c, "queued")

-----------------------------------------------------------------------------
(* The transitions of an existing row.                                     *)

MarkStarted(r) ==
    /\ status[r] = "running"
    /\ ~started[r]
    /\ started' = [started EXCEPT ![r] = TRUE]
    /\ UNCHANGED <<status, cost, queueOrder>>

ReleaseAgain(r, verdict) ==   \* mutant: no double-release guard
    status[r] # "absent" /\ status' = [status EXCEPT ![r] = verdict]
    /\ UNCHANGED <<cost, queueOrder, started>>

Release(r, verdict) ==
    /\ status[r] \in Active
    /\ status' = [status EXCEPT ![r] = verdict]
    /\ UNCHANGED <<cost, queueOrder, started>>

Oversized(limit) == {r \in Queued : cost[r] > limit}

\* The sets the head-first loop can stop at: nothing younger without all older.
HeadSets(Q) ==
    {A \in SUBSET Q : \A r \in A, s \in Q \ A : Older(r, s)}

\* The loop admits the head while it fits and stops at the first that does not.
SweepAdmits(A, Q, limit) ==
    /\ A \in HeadSets(Q)
    /\ A # {} => InUse + CostOf(A) <= limit
    /\ \A B \in HeadSets(Q) :
           A \subseteq B /\ A # B => InUse + CostOf(B) > limit

Pump(limit, admitted) ==
    /\ SweepAdmits(admitted, Queued \ Oversized(limit), limit)
    /\ status' = [r \in Run |->
           IF r \in Oversized(limit) THEN "cost_exceeds_limit"
           ELSE IF r \in admitted THEN "running" ELSE status[r]]
    /\ UNCHANGED <<cost, queueOrder, started>>

-----------------------------------------------------------------------------

LedgerNext ==
    \/ \E r \in Run, c \in Costs, limit \in Limits : SubmitAdmitted(r, c, limit)
    \/ \E r \in Run, c \in Costs, limit \in Limits : SubmitQueued(r, c, limit)
    \/ \E r \in Run : MarkStarted(r)
    \/ \E r \in Run, v \in Verdicts : Release(r, v)
    \/ \E limit \in Limits, A \in SUBSET Queued : Pump(limit, A)

LedgerSpec == LedgerInit /\ [][LedgerNext]_ledgerVars

-----------------------------------------------------------------------------
(* Properties *)

(***************************************************************************)
(* Strict FIFO: no row holds capacity while an older submission waits,     *)
(* however small the younger one is and however large the older.  It is    *)
(* what the pump's "never skip a large head" and submit's older-waiter     *)
(* test are for.                                                           *)
(***************************************************************************)
Fifo == \A r \in Running, s \in Queued : Older(r, s)

(***************************************************************************)
(* The reserved weight never exceeds the largest limit ever configured:    *)
(* admission adds the row's own cost before comparing, and lowering the    *)
(* limit disturbs nothing that already runs.                               *)
(***************************************************************************)
BudgetBounded == \E limit \in Limits : InUse <= limit

(***************************************************************************)
(* A verdict is given once and a row never moves backwards: the double     *)
(* release guard, the admission guard, and the queued-only retirement.     *)
(***************************************************************************)
VerdictIsFinal ==
    [][\A r \in Run :
          /\ status[r] \in Terminal => status'[r] = status[r]
          /\ status[r] = "running" => status'[r] # "queued"
          /\ started[r] => started'[r]]_ledgerVars
=============================================================================
