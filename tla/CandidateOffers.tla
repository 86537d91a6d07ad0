--------------------------- MODULE CandidateOffers ---------------------------
(***************************************************************************)
(* What the background jobs of a session promise whoever dispatches them:  *)
(* one job works at a time; a verdict is never taken back; at most one     *)
(* prepared candidate is on offer, it can be landed and has not landed,    *)
(* and only the dispatch of another job takes it off; a candidate reaches  *)
(* the target once, never behind an offer of it, and no job is reported    *)
(* completed before its candidate is there.                                *)
(***************************************************************************)
CONSTANT Job

VARIABLES
    stage,      \* what each job's record says of it
    of,         \* the candidate each job works on, named by a job
    barred,     \* jobs that offer nothing: discards and the like, and those
                \* sent for a candidate that had gone off offer by then
    kept,       \* candidates that can still be landed or collected
    target      \* candidates the target branch contains

vars == <<stage, of, barred, kept, target>>

Stages == {"new", "working", "offered", "completed", "closed"}

In(s) == {j \in Job : stage[j] = s}

Init ==
    /\ stage = [j \in Job |-> "new"]
    /\ of = [j \in Job |-> j]
    /\ barred = {} /\ kept = {} /\ target = {}

\* The new job takes whatever was on offer off, and replaces a job given up
\* as stale; it brings a candidate of its own or takes up the one on offer.
Dispatch(j) ==
    /\ stage[j] = "new"
    /\ stage' = [x \in Job |-> IF x = j THEN "working"
                               ELSE IF stage[x] \in {"working", "offered"}
                               THEN "closed" ELSE stage[x]]
    /\ \E c \in Job :
          /\ of' = [of EXCEPT ![j] = c]
          /\ c \in {j} \cup {of[x] : x \in Job \ In("new")}
          /\ \/ c \in {j} \cup {of[x] : x \in In("offered")} /\ UNCHANGED barred
             \/ barred' = barred \cup {j}
    /\ UNCHANGED target

\* A job's verdict.
Completes(j) == of[j] \in target /\ stage' = [stage EXCEPT ![j] = "completed"]
Parks(j)     == j \notin barred /\ stage' = [stage EXCEPT ![j] = "offered"]
Closes(j)    == stage' = [stage EXCEPT ![j] = "closed"]

Settle(j) ==
    /\ stage[j] = "working"
    /\ Completes(j) \/ Parks(j) \/ Closes(j)
    /\ UNCHANGED <<of, barred, target>>

\* The candidate reaches the target, for a job that may have been given up.
Land(j) ==
    /\ stage[j] \in {"working", "closed"}
    /\ of[j] \notin target
    /\ target' = target \cup {of[j]}
    /\ UNCHANGED <<stage, of, barred>>

\* Refs are written and collected.
Housekeeping == UNCHANGED <<stage, of, barred, target>>

\* Whatever else a step does to the refs, what it leaves on offer can be
\* landed and has not landed.
Landable == \A j \in In("offered") : of[j] \in kept /\ of[j] \notin target

Next ==
    /\ \/ Housekeeping
       \/ \E j \in Job : Dispatch(j) \/ Settle(j) \/ Land(j)
    /\ Landable'

Spec == Init /\ [][Next]_vars
=============================================================================
