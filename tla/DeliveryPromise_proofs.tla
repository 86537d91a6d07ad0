----------------------- MODULE DeliveryPromise_proofs -----------------------
(***************************************************************************)
(* ConversationDelivery implements InOrderDelivery: under the invariant of *)
(* ConversationDelivery_proofs, every step maps to a step of the promise   *)
(* or changes nothing it speaks of.                                        *)
(***************************************************************************)
EXTENDS DeliveryPromise, ConversationDelivery_proofs

Fate == [m \in Msg |-> FateOf(rows[m].status)]
Strict == {m \in Enqueued : Ordinary(rows[m])}

LEMMA FateIs ==
    /\ FateOf("absent") = "absent" /\ FateOf("pending") = "waiting"
    /\ FateOf("delivering") = "out" /\ FateOf("uncertain") = "review"
    /\ FateOf("failed") = "review" /\ FateOf("delivered") = "delivered"
    /\ FateOf("cancelled") = "withdrawn"
BY DEF FateOf, Review

\* The promise's own words, of the mapped state.
LEMMA InPlainWords ==
    /\ \A f : Promise!At(f) = {m \in Msg : Fate[m] = f}
    /\ \A set, f : Promise!Moved(set, f) = [m \in Msg |-> IF m \in set THEN f ELSE Fate[m]]
BY DEF Promise!At, Promise!Moved, Fate

\* What a step may do, in the words of the rows.
Step == [Promise!Next]_(Promise!fateVars)

LEMMA NothingMoves ==
    ASSUME UNCHANGED <<rows, reached>>
    PROVE  Step
BY DEF Step, Promise!fateVars, Enqueued

-----------------------------------------------------------------------------
(* What may become of the rows, one lemma for each action of the promise.  *)

\* A message arrives as a row that waits, or that waits for review.
LEMMA RowArrives ==
    ASSUME RowsType, NEW m \in Msg, NextRow(m), NEW s \in {"pending", "failed"},
           RowsType', OneRow(m, s), UNCHANGED reached
    PROVE  Step
<1> USE FateIs, InPlainWords
<1>1. /\ Fate[m] = "absent" /\ Fate'[m] = FateOf(s)
      /\ \A n \in Msg : n # m => rows'[n] = rows[n] /\ Fate'[n] = Fate[n]
      /\ \A n \in Msg : n < m => rows[n].status # "absent"
  BY DEF NextRow, Enqueued, OneRow, Fate
<1>2. \A n \in Msg : n < m => Fate[n] # "absent"
  BY <1>1 DEF Fate, RowsType, Row, Status
<1>3. Fate' = Promise!Moved({m}, FateOf(s))
  BY <1>1 DEF Fate
<1>4. Strict' \in {Strict, Strict \cup {m}}
  BY <1>1 DEF Strict, Enqueued, NextRow, OneRow
<1>5. Promise!Arrives(m, FateOf(s))
  BY <1>1, <1>2, <1>3, <1>4 DEF Promise!Arrives, Fate, Strict
<1> QED  BY <1>5 DEF Step, Promise!Next

LEMMA RowWithdrawn ==
    ASSUME RowsType, NEW m \in Msg, rows[m].status \in {"pending"} \cup Review,
           OneRow(m, "cancelled"), rows'[m].kind = rows[m].kind, UNCHANGED reached
    PROVE  Step
<1> USE FateIs, InPlainWords
<1>1. /\ Fate[m] \in {"waiting", "review"} /\ Fate'[m] = "withdrawn"
      /\ \A n \in Msg : n # m => rows'[n] = rows[n] /\ Fate'[n] = Fate[n]
  BY DEF OneRow, Fate, Review
<1>2. Fate' = Promise!Moved({m}, "withdrawn")
  BY <1>1 DEF Fate
<1>3. Strict' = Strict
  BY <1>1 DEF Strict, Enqueued, OneRow, Ordinary, Review
<1>4. Promise!Withdrawn(m)
  BY <1>1, <1>2, <1>3 DEF Promise!Withdrawn, Fate, Strict
<1> QED  BY <1>4 DEF Step, Promise!Next

LEMMA RowAskedAgain ==
    ASSUME RowsType, NEW m \in Msg, rows[m].status \in Review,
           OneRow(m, "pending"), rows'[m].kind = rows[m].kind,
           reached' = [reached EXCEPT ![m] = 0]
    PROVE  Step
<1> USE FateIs, InPlainWords
<1>1. /\ Fate[m] = "review" /\ Fate'[m] = "waiting"
      /\ \A n \in Msg : n # m => rows'[n] = rows[n] /\ Fate'[n] = Fate[n]
  BY DEF OneRow, Fate, Review
<1>2. Fate' = Promise!Moved({m}, "waiting")
  BY <1>1 DEF Fate
<1>3. Strict' = Strict
  BY <1>1 DEF Strict, Enqueued, OneRow, Ordinary, Review
<1>4. Promise!AskedAgain(m)
  BY <1>1, <1>2, <1>3 DEF Promise!AskedAgain, Fate, Strict
<1> QED  BY <1>4 DEF Step, Promise!Next

\* A claim takes waiting rows out, in order; others may have been tried too often.
LEMMA RowsGoOut ==
    ASSUME RowsType, RowsType', NEW a \in Attempt, NEW set, ClaimedAs(a, set),
           \A m \in Msg : rows[m].status # "delivering",
           \A m \in set, n \in Msg \ set :
             Ordinary(rows[m]) /\ Ordinary(rows[n]) /\ n < m
               => rows[n].status \in {"absent", "delivered", "cancelled"},
           UNCHANGED reached
    PROVE  Step
<1> USE FateIs, InPlainWords
<1> DEFINE tired == {m \in Msg \ set : rows'[m] # rows[m]}
<1>1. set \subseteq Promise!At("waiting") /\ tired \subseteq Promise!At("waiting")
  BY DEF ClaimedAs, Fate
<1>2. Promise!At("out") = {}
  BY DEF Fate, RowsType, Row, Status
<1>3. Fate' = [m \in Msg |-> IF m \in set THEN "out"
                             ELSE IF m \in tired THEN "review" ELSE Fate[m]]
  BY DEF Fate, ClaimedAs
<1>4. Strict' = Strict
  BY DEF Strict, Enqueued, Ordinary, ClaimedAs
<1>5. \A m \in set \cap Strict, n \in Strict \ set :
        n < m => Fate[n] \in {"delivered", "withdrawn"}
  BY DEF Strict, Enqueued, Fate, ClaimedAs
<1> HIDE DEF tired
<1>6. Promise!GoesOut(set, tired)
  <2>1. set \cap tired = {}
    BY DEF tired
  <2> QED  BY <1>2, <1>3, <1>4, <1>5, <2>1 DEF Promise!GoesOut, Fate, Strict
<1>7. set \in SUBSET Promise!At("waiting") /\ tired \in SUBSET Promise!At("waiting")
  BY <1>1
<1> QED  BY <1>6, <1>7 DEF Step, Promise!Next

\* The rows that are out are those of one attempt.
OutUnder(a) == \A m \in Msg : rows[m].status = "delivering" => rows[m].attempt = a

LEMMA OneAttemptOut ==
    ASSUME RowsMatch, NEW a
    PROVE  OutUnder(a) \/ \A m \in Msg : ~Under(rows[m], a)
BY DEF RowsMatch, OutUnder, Under

LEMMA RowsTaken ==
    ASSUME RowsType, RowsMatch, reached \in [Msg -> Nat], NEW a \in Attempt,
           Unsent(a), NEW got \in BOOLEAN, Reaches(a, got), UNCHANGED rows
    PROVE  Step
<1> USE FateIs, InPlainWords
<1>1. CASE got /\ Out(a)
  <2>1. Promise!At("out") = {m \in Msg : Under(rows[m], a)}
    BY <1>1, OneAttemptOut DEF Out, Fate, OutUnder, Under, RowsType, Row, Status
  <2>2. Promise!At("out") # {} /\ \A m \in Promise!At("out") : reached[m] = 0
    BY <1>1, <2>1 DEF Out, Unsent, Under
  <2>3. reached' = [m \in Msg |-> IF m \in Promise!At("out") THEN 1 ELSE reached[m]]
    BY <1>1, <2>1, <2>2 DEF Reaches
  <2>4. Fate' = Fate /\ Strict' = Strict
    BY DEF Fate, Strict, Enqueued
  <2>5. Promise!Taken
    BY <2>2, <2>3, <2>4 DEF Promise!Taken, Fate, Strict
  <2> QED  BY <2>5 DEF Step, Promise!Next
<1>2. CASE ~(got /\ Out(a))
  <2>1. reached' = reached
    BY <1>2 DEF Reaches, Out
  <2> QED  BY <2>1, NothingMoves
<1> QED  BY <1>1, <1>2

\* The rows of an attempt go back, are delivered, or wait for review.
LEMMA RowsSettled ==
    ASSUME RowsType, RowsType', RowsMatch, NEW a \in Attempt, UNCHANGED reached,
           \/ Settled(a, "pending") /\ Unsent(a)
           \/ Settled(a, "failed") \/ Settled(a, "uncertain")
           \/ Settled(a, "delivered") /\ Sent(a)
    PROVE  Step
<1> USE FateIs, InPlainWords
<1>0. CASE ~OutUnder(a)
  <2>1. \A m \in Msg : ~Under(rows[m], a)
    BY <1>0, OneAttemptOut
  <2>2. \A m \in Msg : rows'[m] = rows[m]
    BY <2>1 DEF Settled
  <2>3. rows' = rows
    BY <2>2 DEF RowsType
  <2> QED  BY <2>3, NothingMoves
<1> SUFFICES ASSUME OutUnder(a) PROVE Step
  BY <1>0
<1>1. Promise!At("out") = {m \in Msg : Under(rows[m], a)}
  BY DEF Fate, OutUnder, Under, RowsType, Row, Status
<1>2. ASSUME NEW s \in {"pending", "failed", "uncertain", "delivered"}, Settled(a, s)
      PROVE  Fate' = Promise!Moved(Promise!At("out"), FateOf(s)) /\ Strict' = Strict
  <2>1. \A m \in Msg : Fate'[m] = IF m \in Promise!At("out") THEN FateOf(s) ELSE Fate[m]
    BY <1>1, <1>2 DEF Settled, Fate
  <2>2. Fate' = Promise!Moved(Promise!At("out"), FateOf(s))
    BY <2>1 DEF Fate
  <2>3. Strict' = Strict
    BY <1>2 DEF Settled, Strict, Enqueued, Ordinary, Under
  <2> QED  BY <2>2, <2>3
<1>3. CASE Settled(a, "pending") /\ Unsent(a)
  <2>1. Promise!ComesBack
    BY <1>1, <1>2, <1>3 DEF Promise!ComesBack, Fate, Strict, Unsent, Under
  <2> QED  BY <2>1 DEF Step, Promise!Next
<1>4. CASE Settled(a, "failed") \/ Settled(a, "uncertain")
  <2>1. Promise!NeedsReview
    BY <1>2, <1>4 DEF Promise!NeedsReview, Fate, Strict
  <2> QED  BY <2>1 DEF Step, Promise!Next
<1>5. CASE Settled(a, "delivered") /\ Sent(a)
  <2>1. Promise!Delivered(Promise!At("out"))
    BY <1>1, <1>2, <1>5 DEF Promise!Delivered, Fate, Strict, Sent, Under
  <2>2. Promise!At("out") \in SUBSET (Promise!At("out") \cup Promise!At("review"))
    OBVIOUS
  <2> QED  BY <2>1, <2>2 DEF Step, Promise!Next
<1> QED  BY <1>3, <1>4, <1>5

\* Accepted rows leave the queue, also those that were held for review.
LEMMA RowsReleased ==
    ASSUME RowsType, NEW a \in Attempt, Sent(a), UNCHANGED reached,
           rows' = ConfirmDelivery(rows, a)
    PROVE  Step
<1> USE FateIs, InPlainWords
<1> DEFINE set == {m \in Msg : rows[m].attempt = a
                               /\ rows[m].status \in {"delivering", "uncertain"}}
<1>1. /\ \A m \in set : rows'[m].status = "delivered"
      /\ \A m \in Msg \ set : rows'[m] = rows[m]
      /\ \A m \in Msg : rows'[m].kind = rows[m].kind
  BY ConfirmedRows
<1>2. set \in SUBSET (Promise!At("out") \cup Promise!At("review"))
  BY DEF Fate
<1>3. \A m \in Msg : Fate'[m] = IF m \in set THEN "delivered" ELSE Fate[m]
  BY <1>1 DEF Fate
<1>4. Fate' = Promise!Moved(set, "delivered")
  BY <1>3 DEF Fate
<1>5. Strict' = Strict
  BY <1>1 DEF Strict, Enqueued, Ordinary
<1>6. \A m \in set : reached[m] = 1
  BY DEF Sent
<1> HIDE DEF set
<1>7. Promise!Delivered(set)
  BY <1>4, <1>5, <1>6 DEF Promise!Delivered, Fate, Strict
<1> QED  BY <1>2, <1>7 DEF Step, Promise!Next

LEMMA RowsAbandoned ==
    ASSUME RowsType, rows' = RecoverAbandoned(rows), UNCHANGED reached
    PROVE  Step
<1> USE FateIs, InPlainWords
<1>1. \A m \in Msg : /\ rows'[m].kind = rows[m].kind
                     /\ IF rows[m].status = "delivering"
                        THEN rows'[m].status = "uncertain" ELSE rows'[m] = rows[m]
  BY RecoveredRows
<1>2. Promise!At("out") = {m \in Msg : rows[m].status = "delivering"}
  BY DEF Fate, RowsType, Row, Status
<1>3. \A m \in Msg : Fate'[m] = IF m \in Promise!At("out") THEN "review" ELSE Fate[m]
  BY <1>1, <1>2 DEF Fate
<1>4. Fate' = Promise!Moved(Promise!At("out"), "review")
  BY <1>3 DEF Fate
<1>5. Strict' = Strict
  BY <1>1 DEF Strict, Enqueued, Ordinary
<1>6. Promise!NeedsReview
  BY <1>4, <1>5 DEF Promise!NeedsReview, Fate, Strict
<1> QED  BY <1>6 DEF Step, Promise!Next
-----------------------------------------------------------------------------
(* Claims take rows in order.                                              *)

LEMMA BatchInOrder ==
    ASSUME RowsType, NEW allow \in BOOLEAN,
           NEW m \in NextBatch(rows, allow), NEW n \in Msg \ NextBatch(rows, allow),
           Ordinary(rows[m]), Ordinary(rows[n]), n < m
    PROVE  rows[n].status \in {"absent", "delivered", "cancelled"}
<1> DEFINE s == HeldAtCap(rows)
           eligible == Eligible(s, WakesAllowed(s, allow))
<1>1. /\ ~Blocked(rows) /\ ~(Capped(rows[n]) /\ Ordinary(rows[n]))
      /\ NextBatch(rows, allow) = BatchFrom(s, eligible)
  BY DEF NextBatch
<1>2. rows[n].status \notin {"delivering", "uncertain", "failed"}
  BY <1>1 DEF Blocked, BlocksOrdinary, Review
<1>3. CASE rows[n].status = "pending"
  <2>1. s[n] = rows[n] /\ n \in Msg
    BY <1>1 DEF HeldAtCap
  <2>2. n \in eligible
    BY <1>3, <2>1 DEF Eligible
  <2> HIDE DEF s, eligible
  <2>3. PICK h \in eligible :
          /\ IsFirst(h, eligible)
          /\ \/ m = h
             \/ \A k \in eligible :
                  k <= m => ~GoesAlone(s[k]) /\ s[k].model = s[h].model
    BY <1>1 DEF BatchFrom
  <2>4. eligible \subseteq Msg /\ m \in Msg
    BY <1>1 DEF BatchFrom, Eligible, eligible
  <2>5. m # h
    BY <2>2, <2>3, <2>4, QueueAssumption DEF IsFirst, Msg
  <2>6. \A k \in eligible :
          k <= n => ~GoesAlone(s[k]) /\ s[k].model = s[h].model
    BY <2>3, <2>4, <2>5, QueueAssumption DEF Msg
  <2>7. n \in BatchFrom(s, eligible)
    BY <2>2, <2>3, <2>6 DEF BatchFrom
  <2> QED  BY <1>1, <2>7
<1>4. CASE rows[n].status # "pending"
  BY <1>2, <1>4 DEF RowsType, Row, Status
<1> QED  BY <1>3, <1>4

LEMMA LiveInOrder ==
    ASSUME RowsType, NEW allow \in BOOLEAN, NEW m \in Msg, LiveTurnOf(rows, m, allow),
           NEW n \in Msg, Ordinary(rows[n]), n < m
    PROVE  rows[n].status \in {"absent", "delivered", "cancelled"}
<1> DEFINE wakes == rows[m].kind = "wake" /\ WakesAllowed(rows, allow)
<1>1. ~Blocked(rows) /\ IsFirst(m, Eligible(rows, wakes))
  BY DEF LiveTurnOf
<1>2. rows[n].status \notin {"delivering", "uncertain", "failed"}
  BY <1>1 DEF Blocked, BlocksOrdinary, Review
<1>3. rows[n].status # "pending"
  BY <1>1, QueueAssumption DEF IsFirst, Eligible, Msg
<1> QED  BY <1>2, <1>3 DEF RowsType, Row, Status
-----------------------------------------------------------------------------
(* Every step of the conversation is a step of the promise.                *)

LEMMA PeopleStep ==
    ASSUME DeliveryInv, Queueing
    PROVE  Step
<1> USE Parts DEF Places
<1>1. ASSUME NEW m \in Msg, NEW offer \in Offer, Enqueue(m, offer) PROVE Step
  <2>1. /\ rows[m].status = "absent" /\ rows[m].attempt = NoAttempt
        /\ offer[1] \in Kind /\ offer[2] \in Model /\ NextRow(m)
        /\ UNCHANGED reached /\ Put(m, "pending", offer[1], offer[2])
    BY <1>1, DeliveryAssumption DEF Enqueue, NextRow, Enqueued, RowsMatch, queueVars
  <2>2. RowsType' /\ OneRow(m, "pending")
    BY <2>1, PersonRows DEF Status
  <2> QED  BY <2>1, <2>2, RowArrives
<1>2. ASSUME NEW m \in Msg, Cancel(m) \/ Discard(m) PROVE Step
  <2>1. /\ rows[m].status \in {"pending"} \cup Review /\ UNCHANGED reached
        /\ rows' = [rows EXCEPT ![m] = Pruned(@, "cancelled")]
    BY <1>2 DEF Cancel, Discard, MayReview
  <2> QED  BY <2>1, PersonRows, RowWithdrawn
<1>3. ASSUME NEW m \in Msg, Retry(m) PROVE Step
  <2>1. /\ rows[m].status \in Review /\ reached' = [reached EXCEPT ![m] = 0]
        /\ rows' = [rows EXCEPT ![m] = Retried(@)]
    BY <1>3 DEF Retry, MayReview
  <2> QED  BY <2>1, PersonRows, RowAskedAgain
<1> QED  BY <1>1, <1>2, <1>3 DEF Queueing

LEMMA LiveStep ==
    ASSUME DeliveryInv, Dispatching
    PROVE  Step
<1> USE Parts DEF Places
<1>1. ASSUME NEW a \in Fresh, NEW allow \in BOOLEAN, LiveClaims(a, allow)
      PROVE  Step
  <2> DEFINE set == IF ClaimsLive(rows, live.msg, allow) THEN {live.msg} ELSE {}
  <2>1. /\ a \in Attempt /\ rows' = ClaimLive(rows, live.msg, a, allow)
        /\ UNCHANGED reached
    BY <1>1, FreshIs DEF LiveClaims
  <2>2. RowsType' /\ ClaimedAs(a, set)
    BY <2>1, LiveClaimedRows
  <2>3. CASE ~LiveTurnOf(rows, live.msg, allow)
    <3>1. rows' = rows
      BY <2>1, <2>3 DEF ClaimLive
    <3> QED  BY <2>1, <3>1, NothingMoves
  <2>4. CASE LiveTurnOf(rows, live.msg, allow)
    <3>1. live.msg \in Msg /\ \A n \in Msg : rows[n].status # "delivering"
      BY <2>4 DEF LiveTurnOf, IsFirst, Eligible, Blocked
    <3>2. \A k \in set, n \in Msg \ set :
            Ordinary(rows[k]) /\ Ordinary(rows[n]) /\ n < k
              => rows[n].status \in {"absent", "delivered", "cancelled"}
      BY <2>4, <3>1, LiveInOrder
    <3> HIDE DEF set
    <3> QED  BY <2>1, <2>2, <3>1, <3>2, RowsGoOut
  <2> QED  BY <2>3, <2>4
<1>2. ASSUME NEW ok \in BOOLEAN, LiveReturns(ok) \/ LiveRefused(ok)
      PROVE  Step
  <2>1. live.attempt \in Attempt /\ Unsent(live.attempt) /\ UNCHANGED reached
    BY <1>2 DEF LiveReturns, LiveRefused, PlacesMatch, SentMatches, LiveTook
  <2>2. rows' = rows \/ rows' = MarkPending(rows, live.attempt)
    BY <1>2 DEF LiveReturns, LiveRefused
  <2> QED  BY <2>1, <2>2, SettledRows, RowsSettled, NothingMoves
<1>3. ASSUME NEW got \in BOOLEAN, LiveSends(got) PROVE Step
  <2>1. /\ live.attempt \in Attempt /\ Unsent(live.attempt) /\ UNCHANGED rows
        /\ Reaches(live.attempt, got)
    BY <1>3 DEF LiveSends, PlacesMatch, SentMatches, LiveTook
  <2> QED  BY <2>1, RowsTaken
<1>4. ASSUME NEW ok \in BOOLEAN, LiveAccepted(ok) PROVE Step
  <2>1. live.attempt \in Attempt /\ Sent(live.attempt) /\ UNCHANGED reached
    BY <1>4 DEF LiveAccepted, PlacesMatch, SentMatches, LiveTook
  <2>2. \/ rows' = ConfirmDelivery(rows, live.attempt)
        \/ rows' = MarkUncertain(rows, live.attempt) \/ rows' = rows
    BY <1>4 DEF LiveAccepted, Releases
  <2> QED  BY <2>1, <2>2, SettledRows, RowsSettled, RowsReleased, NothingMoves
<1>5. ASSUME NEW ok \in BOOLEAN, LiveUncertain(ok) PROVE Step
  <2>1. live.attempt \in Attempt /\ UNCHANGED reached
    BY <1>5 DEF LiveUncertain, PlacesMatch
  <2>2. rows' = MarkUncertain(rows, live.attempt) \/ rows' = rows
    BY <1>5 DEF LiveUncertain
  <2> QED  BY <2>1, <2>2, SettledRows, RowsSettled, NothingMoves
<1>6. ASSUME NEW m \in Msg, DispatchDeclines(m) \/ DispatchAccepts(m) PROVE Step
  BY <1>6, NothingMoves DEF DispatchDeclines, DispatchAccepts, queueVars
<1>7. ASSUME LiveJoins PROVE Step
  BY <1>7, NothingMoves DEF LiveJoins, queueVars
<1> QED  BY <1>1, <1>2, <1>3, <1>4, <1>5, <1>6, <1>7 DEF Dispatching

LEMMA DrainStep ==
    ASSUME DeliveryInv, Draining
    PROVE  Step
<1> USE Parts DEF Places
<1>1. ASSUME NEW a \in Fresh, NEW allow \in BOOLEAN, DrainClaims(a, allow)
      PROVE  Step
  <2> DEFINE set == NextBatch(rows, allow)
  <2>1. /\ a \in Attempt /\ rows' = ClaimNextBatch(rows, a, allow)
        /\ UNCHANGED reached
    BY <1>1, FreshIs DEF DrainClaims
  <2>2. RowsType' /\ ClaimedAs(a, set)
    BY <2>1, BatchClaimedRows
  <2>3. CASE Blocked(rows)
    <3>1. rows' = rows
      BY <2>1, <2>3, BatchClaimedRows
    <3> QED  BY <2>1, <3>1, NothingMoves
  <2>4. CASE ~Blocked(rows)
    <3>1. \A n \in Msg : rows[n].status # "delivering"
      BY <2>4 DEF Blocked
    <3>2. \A k \in set, n \in Msg \ set :
            Ordinary(rows[k]) /\ Ordinary(rows[n]) /\ n < k
              => rows[n].status \in {"absent", "delivered", "cancelled"}
      BY BatchInOrder
    <3> HIDE DEF set
    <3> QED  BY <2>1, <2>2, <3>1, <3>2, RowsGoOut
  <2> QED  BY <2>3, <2>4
<1>2. ASSUME CommandRuns PROVE Step
  <2>1. /\ batch.attempt \in Attempt /\ Unsent(batch.attempt) /\ UNCHANGED rows
        /\ Reaches(batch.attempt, TRUE)
    BY <1>2 DEF CommandRuns, PlacesMatch, SentMatches
  <2> QED  BY <2>1, RowsTaken
<1>3. ASSUME NEW done \in BOOLEAN, NEW ok \in BOOLEAN, CommandEnds(done, ok)
      PROVE  Step
  <2>1. batch.attempt \in Attempt /\ UNCHANGED reached
    BY <1>3 DEF CommandEnds, PlacesMatch
  <2>2. done => Sent(batch.attempt)
    BY <1>3 DEF CommandEnds, PlacesMatch, SentMatches
  <2>3. \/ done /\ rows' = MarkDelivered(rows, batch.attempt)
        \/ rows' = MarkFailed(rows, batch.attempt) \/ rows' = rows
    BY <1>3 DEF CommandEnds
  <2> QED  BY <2>1, <2>2, <2>3, SettledRows, RowsSettled, NothingMoves
<1>4. ASSUME NEW ok \in BOOLEAN, NEW fault \in {0, 1}, BatchReturns(fault, ok)
      PROVE  Step
  <2>1. batch.attempt \in Attempt /\ Unsent(batch.attempt) /\ UNCHANGED reached
    BY <1>4 DEF BatchReturns, PlacesMatch, SentMatches
  <2>2. rows' = rows \/ rows' = MarkPending(rows, batch.attempt)
    BY <1>4 DEF BatchReturns
  <2> QED  BY <2>1, <2>2, SettledRows, RowsSettled, NothingMoves
<1>5. ASSUME DrainLooks \/ BatchReads \/ BatchPasses \/ BatchHandedOver PROVE Step
  BY <1>5, NothingMoves
     DEF DrainLooks, BatchReads, BatchPasses, BatchHandedOver, queueVars
<1> QED  BY <1>1, <1>2, <1>3, <1>4, <1>5 DEF Draining

\* A direct message comes back as a row that failed.
LEMMA HandedBackStep ==
    ASSUME DeliveryInv, NEW d \in Direct, NEW ok \in BOOLEAN, HandsBack(d, ok),
           UNCHANGED reached
    PROVE  Step
<1>1. CASE rows' = rows
  BY <1>1, NothingMoves
<1>2. CASE rows' # rows
  <2> DEFINE model == CHOOSE x \in Model : TRUE
  <2>1. PICK m \in Msg : NextRow(m) /\ Put(m, "failed", "text", model)
    BY <1>2 DEF HandsBack
  <2>2. /\ model \in Model /\ RowsType
        /\ rows[m].status = "absent" /\ rows[m].attempt = NoAttempt
    BY <2>1, ZeroCount, Parts DEF Places, NextRow, Enqueued, RowsMatch
  <2> HIDE DEF model
  <2>3. RowsType' /\ OneRow(m, "failed")
    BY <2>1, <2>2, PersonRows DEF Status, Kind
  <2> QED  BY <2>1, <2>2, <2>3, RowArrives
<1> QED  BY <1>1, <1>2

LEMMA RunnerStep ==
    ASSUME DeliveryInv, Running
    PROVE  Step
<1> USE Parts DEF Places
<1>1. ASSUME NEW i \in Item, NEW ok \in BOOLEAN, TurnHeld(i, ok) PROVE Step
  BY <1>1, HandedBackStep DEF TurnHeld
<1>2. ASSUME NEW ok \in BOOLEAN, TurnNotStarted(ok) PROVE Step
  <2>1. \/ UNCHANGED rows
        \/ turn.item \in Attempt /\ rows' = MarkFailed(rows, turn.item)
    BY <1>2 DEF TurnNotStarted
  <2>2. UNCHANGED reached
    BY <1>2 DEF TurnNotStarted
  <2> QED  BY <2>1, <2>2, SettledRows, RowsSettled, NothingMoves
<1>3. ASSUME NEW got \in BOOLEAN, TurnSends(got) PROVE Step
  <2>1. turn.item \in Attempt => Unsent(turn.item)
    <3>1. turn.phase = "run"
      BY <1>3 DEF TurnSends
    <3> QED  BY <3>1 DEF PlacesMatch, SentMatches, TurnUntook, NoTurn
  <2>2. /\ UNCHANGED rows
        /\ \/ UNCHANGED reached
           \/ turn.item \in Attempt /\ Reaches(turn.item, got)
    BY <1>3 DEF TurnSends
  <2> QED  BY <2>1, <2>2, RowsTaken, NothingMoves
<1>4. ASSUME NEW ok \in BOOLEAN, TurnAccepted(ok) PROVE Step
  <2>1. turn.item \in Attempt => Sent(turn.item)
    BY <1>4 DEF TurnAccepted, SentMatches, TurnTook
  <2>2. /\ UNCHANGED reached
        /\ \/ UNCHANGED rows
           \/ turn.item \in Attempt /\ \/ rows' = ConfirmDelivery(rows, turn.item)
                                       \/ rows' = MarkUncertain(rows, turn.item)
    BY <1>4 DEF TurnAccepted, Releases
  <2> QED  BY <2>1, <2>2, SettledRows, RowsSettled, RowsReleased, NothingMoves
<1>5. ASSUME NEW ok \in BOOLEAN, TurnSettles(ok) \/ TurnNotConsumed(ok) PROVE Step
  <2>1. /\ UNCHANGED reached
        /\ \/ UNCHANGED rows
           \/ turn.item \in Attempt /\ \/ rows' = MarkUncertain(rows, turn.item)
                                       \/ rows' = MarkFailed(rows, turn.item)
    BY <1>5 DEF TurnSettles, TurnNotConsumed
  <2> QED  BY <2>1, SettledRows, RowsSettled, NothingMoves
<1>6. ASSUME NEW a \in retained, RetainedSettles(a) PROVE Step
  <2>1. /\ a \in Attempt /\ Sent(a) /\ UNCHANGED reached
        /\ rows' = ConfirmDelivery(rows, a)
    BY <1>6 DEF RetainedSettles, SentMatches
  <2> QED  BY <2>1, RowsReleased
<1>7. ASSUME NEW i \in Item, TurnOpens(i) PROVE Step
  BY <1>7, NothingMoves DEF TurnOpens, queueVars
<1>8. ASSUME NEW i \in Item, NEW ok \in BOOLEAN, RemoveAgain(i, ok) PROVE Step
  BY <1>8, NothingMoves DEF RemoveAgain, queueVars
<1>9. ASSUME NEW ok \in BOOLEAN, ItemLeaves(ok) PROVE Step
  BY <1>9, NothingMoves DEF ItemLeaves, queueVars
<1>10. ASSUME \/ TurnAdmitted \/ TurnRefused \/ TurnEnds \/ TurnConsumed
              \/ RunnerStops \/ RunnerGone
       PROVE  Step
  BY <1>10, NothingMoves
     DEF TurnAdmitted, TurnRefused, TurnEnds, TurnConsumed, RunnerStops, RunnerGone,
         RunnerLeaves, queueVars
<1> QED
  BY <1>1, <1>2, <1>3, <1>4, <1>5, <1>6, <1>7, <1>8, <1>9, <1>10 DEF Running

LEMMA BootStep ==
    ASSUME DeliveryInv, Booting
    PROVE  Step
<1> USE Parts DEF Places
<1>1. ASSUME BootTurns PROVE Step
  BY <1>1, NothingMoves DEF BootTurns, queueVars
<1>2. ASSUME NEW ok \in BOOLEAN, BootQueue(ok) PROVE Step
  BY <1>2, RowsAbandoned, NothingMoves DEF BootQueue
<1>3. ASSUME NEW i \in Item, NEW ok \in BOOLEAN, BootTells(i, ok) PROVE Step
  <2>1. CASE i \in Attempt
    <3>1. /\ InMail(i) /\ turn = NoTurn /\ UNCHANGED reached
          /\ rows' = rows \/ rows' = MarkPending(rows, i)
      BY <1>3, <2>1 DEF BootTells, InMail, Mailed
    <3>2. Unsent(i)
      <4>1. turn.item # i
        BY <2>1, <3>1, DeliveryAssumption DEF NoTurn
      <4> QED  BY <2>1, <3>1, <4>1 DEF SentMatches
    <3> QED  BY <2>1, <3>1, <3>2, SettledRows, RowsSettled, NothingMoves
  <2>2. CASE i \notin Attempt
    <3>1. i \in Direct /\ HandsBack(i, ok) /\ UNCHANGED reached
      BY <1>3, <2>2 DEF BootTells, Item
    <3> QED  BY <3>1, HandedBackStep
  <2> QED  BY <2>1, <2>2
<1> QED  BY <1>1, <1>2, <1>3 DEF Booting

LEMMA NextStep ==
    ASSUME DeliveryInv, [Next]_vars
    PROVE  Step
<1>1. ASSUME Sending PROVE Step
  <2>1. UNCHANGED <<rows, reached>>
    BY <1>1 DEF Sending, DirectReads, DirectRefused, DirectPasses, DirectMailed,
                queueVars
  <2> QED  BY <2>1, NothingMoves
<1>2. ASSUME Leasing PROVE Step
  <2>1. UNCHANGED <<rows, reached>>
    BY <1>2 DEF Leasing, LeaseTaken, LeaseClaims, LeaseReleased, OwnerLeaves,
                RunnerLeaves, queueVars
  <2> QED  BY <2>1, NothingMoves
<1>3. ASSUME Crash PROVE Step
  BY <1>3, NothingMoves DEF Crash, queueVars
<1>4. ASSUME UNCHANGED vars PROVE Step
  BY <1>4, NothingMoves DEF vars
<1> QED
  BY <1>1, <1>2, <1>3, <1>4, PeopleStep, LiveStep, DrainStep, RunnerStep, BootStep
     DEF Next

(***************************************************************************)
(* The whole machinery of queue, drains, turns, live dispatches, crashes   *)
(* and recovery keeps the promise made to a person who leaves a message:   *)
(* one delivery at a time, ordinary messages in order, nothing taken by    *)
(* the agent twice unless asked for, nothing reported delivered that the   *)
(* agent did not take.                                                     *)
(***************************************************************************)
THEOREM PromiseIsKept == Spec => KeepsDeliveryPromise
<1>1. Init => Promise!Init
  <2> SUFFICES ASSUME Init PROVE Promise!Init
    OBVIOUS
  <2>1. Fate = [m \in Msg |-> "absent"]
    BY FateIs DEF Init, Fate
  <2>2. Strict = {}
    BY DEF Init, Strict, Enqueued
  <2> QED  BY <2>1, <2>2 DEF Init, Promise!Init, Fate, Strict
<1>2. DeliveryInv /\ [Next]_vars => [Promise!Next]_(Promise!fateVars)
  BY NextStep DEF Step
<1> QED
  BY <1>1, <1>2, DeliveryInvariant, PTL DEF Spec, KeepsDeliveryPromise, Promise!Spec
=============================================================================
