---------------------------- MODULE MessageQueue ----------------------------
(***************************************************************************)
(* The rows of a conversation's message queue and the functions that       *)
(* rewrite them in one transaction: src/lib/conversations/                 *)
(* message-queue-service.ts.  A queue is a function from the order of      *)
(* enqueueing to a row.  A row that left the queue keeps its place as      *)
(* "delivered" or "cancelled"; a retry keeps its place, as in the code.    *)
(* Text, images, timestamps and broadcasts are abstracted away.  A row's   *)
(* attempt is kept while some code compares it: while the row is           *)
(* delivering or uncertain.                                                *)
(***************************************************************************)
EXTENDS Integers, FiniteSets

CONSTANTS MaxRows,      \* rows that may ever be enqueued (a bound)
          Attempt,      \* ids of delivery attempts
          NoAttempt,
          Model,        \* model selections a message may ask for
          MaxAttempts   \* MAX_QUEUED_MESSAGE_DELIVERY_ATTEMPTS

ASSUME QueueAssumption ==
  /\ MaxRows \in Nat
  /\ MaxAttempts \in Nat \ {0}
  /\ NoAttempt \notin Attempt
  /\ Model # {}

Msg == 1 .. MaxRows

\* What a row carries: a person's text, a conversation command, a generated
\* text, or a subscription wake.
Kind == {"text", "command", "report", "wake"}
Status == {"absent", "pending", "delivering", "uncertain", "failed",
           "delivered", "cancelled"}
Row == [status : Status, attempt : Attempt \cup {NoAttempt},
        count : 0 .. MaxAttempts, kind : Kind, model : Model]

Review == {"uncertain", "failed"}
FromPerson(row) == row.kind \in {"text", "command"}
Ordinary(row) == row.kind # "wake"
BlocksOrdinary(row) == row.status \in Review /\ Ordinary(row)
Capped(row) == row.status = "pending" /\ row.count >= MaxAttempts

BlockedByDeliveries(q) ==   \* mutant: goes on past a row under review
  \E m \in Msg : q[m].status = "delivering"

\* Nothing is claimed beside a row being delivered or an ordinary row that
\* waits for review.
Blocked(q) == \E m \in Msg : q[m].status = "delivering" \/ BlocksOrdinary(q[m])

WakesAllowed(q, allow) ==
  /\ allow
  /\ \A m \in Msg : q[m].status = "pending" => ~FromPerson(q[m])
  /\ \A m \in Msg : q[m].status \in Review => Ordinary(q[m])

Eligible(q, wakes) ==
  {m \in Msg : q[m].status = "pending" /\ (wakes \/ Ordinary(q[m]))}

IsFirst(m, set) == m \in set /\ \A n \in set : m <= n

Claimed(row, a) ==
  [row EXCEPT !.status = "delivering", !.attempt = a, !.count = @ + 1]
Returned(row) == [row EXCEPT !.status = "pending", !.attempt = NoAttempt]
Failed(row) == [row EXCEPT !.status = "failed", !.attempt = NoAttempt]
UncertainCleared(row) ==   \* mutant: the attempt is forgotten
  [row EXCEPT !.status = "uncertain", !.attempt = NoAttempt]
Uncertain(row) == [row EXCEPT !.status = "uncertain"]
Pruned(row, fate) ==
  [row EXCEPT !.status = fate, !.attempt = NoAttempt, !.count = 0]
Retried(row) ==
  [row EXCEPT !.status = "pending", !.attempt = NoAttempt, !.count = 0]
-----------------------------------------------------------------------------
(* claimNextTurnBatchTransform *)

HeldAtCap(q) == [m \in Msg |-> IF Capped(q[m]) THEN Failed(q[m]) ELSE q[m]]

\* A command or a wake goes alone; other rows go together up to the first row
\* that is one or that asks for another model.
GoesAlone(row) == row.kind \in {"command", "wake"}
BatchFrom(q, eligible) ==
  {m \in eligible : \E h \in eligible :
      /\ IsFirst(h, eligible)
      /\ \/ m = h
         \/ \A n \in eligible :
              n <= m => ~GoesAlone(q[n]) /\ q[n].model = q[h].model}

NextBatch(q, allow) ==
  IF Blocked(q) \/ \E m \in Msg : Capped(q[m]) /\ Ordinary(q[m])
  THEN {}
  ELSE LET s == HeldAtCap(q)
       IN  BatchFrom(s, Eligible(s, WakesAllowed(s, allow)))

ClaimNextBatch(q, a, allow) ==
  IF Blocked(q)
  THEN q
  ELSE [m \in Msg |-> IF m \in NextBatch(q, allow)
                      THEN Claimed(q[m], a) ELSE HeldAtCap(q)[m]]
-----------------------------------------------------------------------------
(* claimLiveDeliveryTransform: one row, and only the first that may go.     *)

LiveTurnOfAny(q, m, allow) ==   \* mutant: overtakes the rows before it
  q[m].status = "pending" /\ ~Blocked(q) /\ (Ordinary(q[m]) \/ WakesAllowed(q, allow))

LiveTurnOf(q, m, allow) ==
  LET wakes == q[m].kind = "wake" /\ WakesAllowed(q, allow)
  IN  /\ q[m].kind = "wake" => wakes
      /\ ~Blocked(q)
      /\ IsFirst(m, Eligible(q, wakes))

ClaimsLive(q, m, allow) == LiveTurnOf(q, m, allow) /\ ~Capped(q[m])

ClaimLive(q, m, a, allow) ==
  IF ~LiveTurnOf(q, m, allow) THEN q
  ELSE [q EXCEPT ![m] = IF Capped(@) THEN Failed(@) ELSE Claimed(@, a)]
-----------------------------------------------------------------------------
(* The results of an attempt.  Only rows still delivering under it change;  *)
(* confirming also releases rows held as uncertain under it.  An attempt's  *)
(* ids are always all the rows it claimed.                                  *)

Under(row, a) == row.status = "delivering" /\ row.attempt = a

MarkPending(q, a) ==
  [m \in Msg |-> IF Under(q[m], a) THEN Returned(q[m]) ELSE q[m]]
MarkFirstFailed(q, a) ==   \* mutant: one row of the batch only
  [m \in Msg |-> IF Under(q[m], a) /\ \A n \in 1 .. m - 1 : ~Under(q[n], a)
                 THEN Failed(q[m]) ELSE q[m]]

MarkFailed(q, a) ==
  [m \in Msg |-> IF Under(q[m], a) THEN Failed(q[m]) ELSE q[m]]
MarkUncertain(q, a) ==
  [m \in Msg |-> IF Under(q[m], a) THEN Uncertain(q[m]) ELSE q[m]]
MarkDelivered(q, a) ==
  [m \in Msg |-> IF Under(q[m], a) THEN Pruned(q[m], "delivered") ELSE q[m]]
ConfirmDelivery(q, a) ==
  [m \in Msg |-> IF q[m].attempt = a /\ q[m].status \in {"delivering", "uncertain"}
                 THEN Pruned(q[m], "delivered") ELSE q[m]]

RecoverAsPending(q) ==   \* mutant: sent once more after a crash
  [m \in Msg |-> IF q[m].status = "delivering" THEN Returned(q[m]) ELSE q[m]]

\* recoverAbandonedDeliveriesTransform
RecoverAbandoned(q) ==
  [m \in Msg |-> IF q[m].status = "delivering" THEN Uncertain(q[m]) ELSE q[m]]
=============================================================================
