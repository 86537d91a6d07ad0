------------------------- MODULE CapacityReservation -------------------------
(***************************************************************************)
(* What the validation service promises its machine, with nothing of how:  *)
(* runs wait in one line, capacity is taken from the front of the line     *)
(* only while the weights in use stay within the limit of the decision,    *)
(* and a run's weight stays in use until nothing of the run executes.      *)
(***************************************************************************)
EXTENDS Integers, FiniteSetsExt

CONSTANTS Run, Costs, Limits

VARIABLES
    phase,    \* new, waiting, reserved, executing, spent or settled
    weight,   \* the capacity a run takes
    ahead     \* the runs that wait before each waiting one

vars == <<phase, weight, ahead>>

Phase == {"new", "waiting", "reserved", "executing", "spent", "settled"}
Holding == {"reserved", "executing", "spent"}

Waiting == {r \in Run : phase[r] = "waiting"}
Held == {r \in Run : phase[r] \in Holding}
WeightOf(S) == MapThenSumSet(LAMBDA r : weight[r], S)

Init ==
    /\ phase = [r \in Run |-> "new"]
    /\ weight = [r \in Run |-> 0]
    /\ ahead = [r \in Run |-> {}]

Enter(r, c) ==
    /\ phase[r] = "new"
    /\ phase' = [phase EXCEPT ![r] = "waiting"]
    /\ weight' = [weight EXCEPT ![r] = c]
    /\ ahead' = [ahead EXCEPT ![r] = Waiting]

\* Nobody is passed by a run that need not wait.
EnterReserved(r, c, limit) ==
    /\ phase[r] = "new"
    /\ Waiting = {}
    /\ WeightOf(Held) + c <= limit
    /\ phase' = [phase EXCEPT ![r] = "reserved"]
    /\ weight' = [weight EXCEPT ![r] = c]
    /\ UNCHANGED ahead

Leave(S) == ahead' = [r \in Run |-> IF r \in S THEN {} ELSE ahead[r] \ S]

\* Those too heavy for the limit leave unserved; of the others, nobody is served
\* while one ahead of it still waits.
Serve(limit, Served, Unfit) ==
    /\ Served \cap Unfit = {}
    /\ \A r \in Unfit : weight[r] > limit
    /\ \A r \in Served : ahead[r] \subseteq Served \cup Unfit
    /\ Served # {} => WeightOf(Held) + WeightOf(Served) <= limit
    /\ phase' = [r \in Run |-> IF r \in Served THEN "reserved"
                               ELSE IF r \in Unfit THEN "settled"
                               ELSE phase[r]]
    /\ Leave(Served \cup Unfit)
    /\ UNCHANGED weight

Begin(r) ==
    /\ phase[r] = "reserved"
    /\ phase' = [phase EXCEPT ![r] = "executing"]
    /\ UNCHANGED <<weight, ahead>>

End(r) ==
    /\ phase[r] \in {"reserved", "executing"}
    /\ phase' = [phase EXCEPT ![r] = "spent"]
    /\ UNCHANGED <<weight, ahead>>

Settle(S) ==
    /\ \A r \in S : phase[r] \in {"waiting"} \cup Holding
    /\ phase' = [r \in Run |-> IF r \in S THEN "settled" ELSE phase[r]]
    /\ Leave(S)
    /\ UNCHANGED weight

Next ==
    \/ \E r \in Run, c \in Costs : Enter(r, c)
    \/ \E r \in Run, c \in Costs, limit \in Limits : EnterReserved(r, c, limit)
    \/ \E limit \in Limits, Served, Unfit \in SUBSET Waiting :
           Serve(limit, Served, Unfit)
    \/ \E r \in Run : Begin(r) \/ End(r)
    \/ \E S \in SUBSET Run : Settle(S)

Spec == Init /\ [][Next]_vars
=============================================================================
