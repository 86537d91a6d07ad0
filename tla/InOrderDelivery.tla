--------------------------- MODULE InOrderDelivery ---------------------------
(***************************************************************************)
(* What a person may expect of a message they leave for an agent, with no  *)
(* word about queues, drains, turns or crashes: messages go out one        *)
(* delivery at a time and in order; a message the agent took is never      *)
(* offered to it again unless the person asks; and a message disappears    *)
(* only as delivered, after the agent took it, or as withdrawn.            *)
(***************************************************************************)
EXTENDS Integers

CONSTANT Message    \* numbers, in order of arrival

VARIABLES fate,     \* where each message is
          took,     \* how often the agent took it since it was asked for
          strict    \* messages that keep their order

fateVars == <<fate, took, strict>>
Fates == {"absent", "waiting", "out", "review", "delivered", "withdrawn"}

At(f) == {m \in Message : fate[m] = f}
Moved(set, f) == [m \in Message |-> IF m \in set THEN f ELSE fate[m]]

Init ==
  /\ fate = [m \in Message |-> "absent"]
  /\ took = [m \in Message |-> 0]
  /\ strict = {}

\* A message is left for the agent, or shown to the person who may ask for it.
Arrives(m, f) ==
  /\ fate[m] = "absent" /\ \A n \in Message : n < m => fate[n] # "absent"
  /\ fate' = Moved({m}, f)
  /\ strict' \in {strict, strict \cup {m}}
  /\ UNCHANGED took

\* A delivery begins when there is none; messages tried too often go to review.
GoesOut(set, tired) ==
  /\ At("out") = {} /\ set \cap tired = {}
  /\ \A m \in set \cap strict, n \in strict \ set :
       n < m => fate[n] \in {"delivered", "withdrawn"}
  /\ fate' = [m \in Message |-> IF m \in set THEN "out"
                                ELSE IF m \in tired THEN "review" ELSE fate[m]]
  /\ UNCHANGED <<took, strict>>

\* The agent takes what is out, once.
Taken ==
  /\ At("out") # {} /\ \A m \in At("out") : took[m] = 0
  /\ took' = [m \in Message |-> IF m \in At("out") THEN 1 ELSE took[m]]
  /\ UNCHANGED <<fate, strict>>

ComesBack ==
  /\ \A m \in At("out") : took[m] = 0
  /\ fate' = Moved(At("out"), "waiting")
  /\ UNCHANGED <<took, strict>>

Delivered(set) ==
  /\ \A m \in set : took[m] = 1
  /\ fate' = Moved(set, "delivered")
  /\ UNCHANGED <<took, strict>>

NeedsReview ==
  /\ fate' = Moved(At("out"), "review")
  /\ UNCHANGED <<took, strict>>

AskedAgain(m) ==
  /\ fate[m] = "review"
  /\ fate' = Moved({m}, "waiting")
  /\ took' = [took EXCEPT ![m] = 0]
  /\ UNCHANGED strict

Withdrawn(m) ==
  /\ fate[m] \in {"waiting", "review"}
  /\ fate' = Moved({m}, "withdrawn")
  /\ UNCHANGED <<took, strict>>

Next ==
  \/ Taken \/ ComesBack \/ NeedsReview
  \/ \E m \in Message : \/ \E f \in {"waiting", "review"} : Arrives(m, f)
                        \/ AskedAgain(m) \/ Withdrawn(m)
  \/ \E set, tired \in SUBSET At("waiting") : GoesOut(set, tired)
  \/ \E set \in SUBSET (At("out") \cup At("review")) : Delivered(set)

Spec == Init /\ [][Next]_fateVars
=============================================================================
