-------------------------- MODULE ValidationPromise --------------------------
(***************************************************************************)
(* The validation service, its crashes and its recovery included,          *)
(* implements CapacityReservation: a run's phase is read from its row and  *)
(* its process group, and a live group always counts as executing.         *)
(***************************************************************************)
EXTENDS ValidationService

PhaseOf(r) ==
    IF proc[r] \in Live THEN "executing"
    ELSE IF status[r] = "running"
         THEN IF proc[r] = "dead" THEN "spent" ELSE "reserved"
    ELSE IF status[r] = "queued" THEN "waiting"
    ELSE IF status[r] = "absent" THEN "new"
    ELSE "settled"

Phases == [r \in Run |-> PhaseOf(r)]
Ahead  == [r \in Run |-> {s \in Queued : r \in Queued /\ Older(s, r)}]

Promise == INSTANCE CapacityReservation WITH
    phase <- Phases, weight <- cost, ahead <- Ahead

(***************************************************************************)
(* Every step of the service, a crash and a recovery included, is a step   *)
(* of the promise or leaves it alone: weights are taken in line order and  *)
(* within the limit, and no weight returns while its group executes.       *)
(***************************************************************************)
KeepsPromise == Promise!Spec
=============================================================================
