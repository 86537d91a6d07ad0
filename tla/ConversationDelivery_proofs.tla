--------------------- MODULE ConversationDelivery_proofs ---------------------
(***************************************************************************)
(* Proofs about the delivery of a conversation's messages, for any number  *)
(* of rows, attempts, direct messages, crashes, failed writes and retries. *)
(***************************************************************************)
EXTENDS ConversationDelivery, WellFoundedInduction, TLAPS

RowsType == rows \in [Msg -> Row]

LEMMA ZeroCount == 0 \in 0 .. MaxAttempts /\ Model # {}
BY QueueAssumption
-----------------------------------------------------------------------------
(* The mailbox.                                                            *)

LEMMA MailAppended ==
    ASSUME mail \in Seq(Item), MailedOnce,
           NEW i \in Item, ~InMail(i), mail' = Append(mail, i)
    PROVE  mail' \in Seq(Item) /\ MailedOnce' /\ Mailed' = Mailed \cup {i}
<1>1. /\ mail' \in Seq(Item) /\ Len(mail') = Len(mail) + 1
      /\ DOMAIN mail = 1 .. Len(mail) /\ DOMAIN mail' = 1 .. Len(mail) + 1
      /\ Len(mail) \in Nat
  OBVIOUS
<1>2. /\ mail'[Len(mail) + 1] = i
      /\ \A n \in 1 .. Len(mail) : mail'[n] = mail[n]
  OBVIOUS
<1>3. MailedOnce'
  BY <1>1, <1>2 DEF MailedOnce, InMail, Mailed
<1>4. Mailed' = Mailed \cup {i}
  BY <1>1, <1>2 DEF Mailed
<1> QED  BY <1>1, <1>3, <1>4

LEMMA MailWithout ==
    ASSUME mail \in Seq(Item), MailedOnce,
           NEW i \in Item, InMail(i), mail' = Without(i)
    PROVE  mail' \in Seq(Item) /\ MailedOnce' /\ Mailed' = Mailed \ {i}
<1> DEFINE at == CHOOSE n \in DOMAIN mail : mail[n] = i
           len == Len(mail)
<1>1. DOMAIN mail = 1 .. len /\ len \in Nat
  OBVIOUS
<1>2. at \in 1 .. len /\ mail[at] = i
  BY <1>1 DEF InMail, Mailed
<1>3. mail' = [n \in 1 .. len - 1 |-> IF n < at THEN mail[n] ELSE mail[n + 1]]
  BY DEF Without
<1>4. \A n \in 1 .. len : mail[n] \in Item
  BY <1>1
<1> HIDE DEF at, len
<1>5. /\ len - 1 \in Nat
      /\ DOMAIN mail' = 1 .. len - 1
      /\ \A n \in 1 .. len - 1 :
           mail'[n] = IF n < at THEN mail[n] ELSE mail[n + 1]
  BY <1>1, <1>2, <1>3
<1>6. mail' \in Seq(Item)
  <2>1. \A n \in 1 .. len - 1 :
          (IF n < at THEN mail[n] ELSE mail[n + 1]) \in Item
    BY <1>1, <1>2, <1>4
  <2>2. mail' \in [1 .. len - 1 -> Item]
    BY <1>3, <2>1
  <2> QED  BY <2>2, <1>5
<1>7. MailedOnce'
  <2> SUFFICES ASSUME NEW j \in 1 .. len - 1, NEW k \in 1 .. len - 1,
                      mail'[j] = mail'[k], j < k
               PROVE  FALSE
    BY <1>5 DEF MailedOnce
  <2> DEFINE was(n) == IF n < at THEN n ELSE n + 1
  <2>1. /\ was(j) \in 1 .. len /\ was(k) \in 1 .. len /\ was(j) # was(k)
    BY <1>1, <1>2
  <2>2. mail'[j] = mail[was(j)] /\ mail'[k] = mail[was(k)]
    BY <1>5
  <2> QED  BY <2>1, <2>2, <1>1 DEF MailedOnce
<1>8. Mailed' \subseteq Mailed \ {i}
  <2> SUFFICES ASSUME NEW n \in DOMAIN mail'
               PROVE  mail'[n] \in Mailed \ {i}
    BY DEF Mailed
  <2>1. CASE n < at
    BY <2>1, <1>1, <1>2, <1>5 DEF MailedOnce, Mailed
  <2>2. CASE ~(n < at)
    <3>1. n + 1 \in DOMAIN mail /\ n + 1 # at /\ mail'[n] = mail[n + 1]
      BY <2>2, <1>1, <1>2, <1>5
    <3> QED  BY <3>1, <1>1, <1>2 DEF MailedOnce, Mailed
  <2> QED  BY <2>1, <2>2
<1>9. Mailed \ {i} \subseteq Mailed'
  <2> SUFFICES ASSUME NEW n \in DOMAIN mail, mail[n] # i
               PROVE  mail[n] \in Mailed'
    BY DEF Mailed
  <2>1. CASE n < at
    <3>1. n \in DOMAIN mail' /\ mail'[n] = mail[n]
      BY <2>1, <1>1, <1>2, <1>5
    <3> QED  BY <3>1 DEF Mailed
  <2>2. CASE ~(n < at)
    <3>1. n - 1 \in DOMAIN mail' /\ mail'[n - 1] = mail[n]
      BY <2>2, <1>1, <1>2, <1>5
    <3> QED  BY <3>1 DEF Mailed
  <2> QED  BY <2>1, <2>2
<1> QED  BY <1>6, <1>7, <1>8, <1>9
-----------------------------------------------------------------------------
(* The rows.                                                               *)

\* The rows out under an attempt get a status; no other row changes.
Settled(a, status) ==
  \A m \in Msg :
    /\ rows'[m].kind = rows[m].kind /\ rows'[m].model = rows[m].model
    /\ IF Under(rows[m], a)
       THEN /\ rows'[m].status = status
            /\ rows'[m].attempt = IF status = "uncertain" THEN a ELSE NoAttempt
       ELSE rows'[m] = rows[m]

LEMMA SettledRows ==
    ASSUME RowsType, NEW a \in Attempt
    PROVE  /\ rows' = MarkPending(rows, a) => RowsType' /\ Settled(a, "pending")
           /\ rows' = MarkFailed(rows, a) => RowsType' /\ Settled(a, "failed")
           /\ rows' = MarkUncertain(rows, a) => RowsType' /\ Settled(a,
              "uncertain")
           /\ rows' = MarkDelivered(rows, a) => RowsType' /\ Settled(a,
              "delivered")
<1> USE QueueAssumption, ZeroCount DEF RowsType, Row, Settled, Under, Status, Kind
<1>1. ASSUME rows' = MarkPending(rows, a) PROVE RowsType' /\ Settled(a, "pending")
  BY <1>1 DEF MarkPending, Returned
<1>2. ASSUME rows' = MarkFailed(rows, a) PROVE RowsType' /\ Settled(a, "failed")
  BY <1>2 DEF MarkFailed, Failed
<1>3. ASSUME rows' = MarkUncertain(rows, a) PROVE RowsType' /\ Settled(a,
      "uncertain")
  BY <1>3 DEF MarkUncertain, Uncertain
<1>4. ASSUME rows' = MarkDelivered(rows, a) PROVE RowsType' /\ Settled(a,
      "delivered")
  BY <1>4 DEF MarkDelivered, Pruned
<1> QED  BY <1>1, <1>2, <1>3, <1>4

LEMMA ConfirmedRows ==
    ASSUME RowsType, NEW a \in Attempt, rows' = ConfirmDelivery(rows, a)
    PROVE  /\ RowsType'
           /\ \A m \in Msg :
                /\ rows'[m].kind = rows[m].kind /\ rows'[m].model = rows[m].model
                /\ IF rows[m].attempt = a /\ rows[m].status \in {"delivering",
                   "uncertain"}
                   THEN rows'[m].status = "delivered"
                     /\ rows'[m].attempt = NoAttempt
                   ELSE rows'[m] = rows[m]
BY QueueAssumption, ZeroCount DEF RowsType, Row, Status, Kind, ConfirmDelivery,
   Pruned

LEMMA RecoveredRows ==
    ASSUME RowsType, rows' = RecoverAbandoned(rows)
    PROVE  /\ RowsType'
           /\ \A m \in Msg :
                /\ rows'[m].kind = rows[m].kind /\ rows'[m].model = rows[m].model
                /\ IF rows[m].status = "delivering"
                   THEN rows'[m].status = "uncertain"
                        /\ rows'[m].attempt = rows[m].attempt
                   ELSE rows'[m] = rows[m]
BY DEF RowsType, Row, Status, Kind, RecoverAbandoned, Uncertain

\* One row that no attempt holds is put, retried, withdrawn or discarded.
OneRow(m, status) ==
  /\ rows'[m].status = status /\ rows'[m].attempt = NoAttempt
  /\ \A n \in Msg \ {m} : rows'[n] = rows[n]

LEMMA PersonRows ==
    ASSUME RowsType, NEW m \in Msg
    PROVE  /\ \A s \in Status, k \in Kind, x \in Model :
                rows[m].status = "absent" /\ rows[m].attempt = NoAttempt
                /\ Put(m, s, k, x)
                  => RowsType' /\ OneRow(m, s) /\ rows'[m].kind = k
           /\ rows' = [rows EXCEPT ![m] = Pruned(@, "cancelled")]
                => /\ RowsType' /\ OneRow(m, "cancelled")
                   /\ rows'[m].kind = rows[m].kind
           /\ rows' = [rows EXCEPT ![m] = Retried(@)]
                => /\ RowsType' /\ OneRow(m, "pending")
                   /\ rows'[m].kind = rows[m].kind
<1> USE QueueAssumption, ZeroCount DEF RowsType, Row, Status, Kind, OneRow
<1>1. ASSUME NEW s \in Status, NEW k \in Kind, NEW x \in Model,
             rows[m].status = "absent", rows[m].attempt = NoAttempt, Put(m, s, k,
               x)
      PROVE  RowsType' /\ OneRow(m, s) /\ rows'[m].kind = k
  BY <1>1 DEF Put
<1>2. ASSUME rows' = [rows EXCEPT ![m] = Pruned(@, "cancelled")]
      PROVE  RowsType' /\ OneRow(m, "cancelled") /\ rows'[m].kind = rows[m].kind
  BY <1>2 DEF Pruned
<1>3. ASSUME rows' = [rows EXCEPT ![m] = Retried(@)]
      PROVE  RowsType' /\ OneRow(m, "pending") /\ rows'[m].kind = rows[m].kind
  BY <1>3 DEF Retried
<1> QED  BY <1>1, <1>2, <1>3

\* Waiting rows of a set go out under an attempt; others may have been tried
\* too often and are held.
ClaimedAs(a, set) ==
  /\ set \subseteq Msg
  /\ \A m \in Msg :
       /\ rows'[m].kind = rows[m].kind /\ rows'[m].model = rows[m].model
       /\ IF m \in set
          THEN /\ rows[m].status = "pending"
               /\ rows'[m].status = "delivering" /\ rows'[m].attempt = a
          ELSE \/ rows'[m] = rows[m]
               \/ /\ rows[m].status = "pending"
                  /\ rows'[m].status = "failed" /\ rows'[m].attempt = NoAttempt

LEMMA LiveClaimedRows ==
    ASSUME RowsType, NEW a \in Attempt, NEW m, NEW allow \in BOOLEAN,
           rows' = ClaimLive(rows, m, a, allow)
    PROVE  /\ RowsType'
           /\ ClaimedAs(a, IF ClaimsLive(rows, m, allow) THEN {m} ELSE {})
           /\ ~LiveTurnOf(rows, m, allow) => rows' = rows
<1>1. CASE ~LiveTurnOf(rows, m, allow)
  BY <1>1 DEF RowsType, ClaimLive, ClaimsLive, ClaimedAs
<1>2. CASE LiveTurnOf(rows, m, allow)
  <2> DEFINE row == IF Capped(rows[m]) THEN Failed(rows[m]) ELSE Claimed(rows[m],
    a)
  <2>1. m \in Msg /\ rows[m] \in Row /\ rows[m].status = "pending"
    BY <1>2 DEF RowsType, LiveTurnOf, IsFirst, Eligible
  <2>2. rows' = [rows EXCEPT ![m] = row]
    BY <1>2 DEF ClaimLive
  <2>3. /\ row \in Row /\ row.kind = rows[m].kind /\ row.model = rows[m].model
        /\ Capped(rows[m]) => row.status = "failed" /\ row.attempt = NoAttempt
        /\ ~Capped(rows[m]) => row.status = "delivering" /\ row.attempt = a
    <3>1. CASE Capped(rows[m])
      BY <2>1, <3>1 DEF Failed, Row, Status
    <3>2. CASE ~Capped(rows[m])
      <4>1. rows[m].count + 1 \in 0 .. MaxAttempts
        BY <2>1, <3>2, QueueAssumption DEF Capped, Row
      <4> QED  BY <2>1, <3>2, <4>1 DEF Claimed, Row, Status
    <3> QED  BY <3>1, <3>2
  <2>4. ClaimsLive(rows, m, allow) <=> ~Capped(rows[m])
    BY <1>2 DEF ClaimsLive
  <2> HIDE DEF row
  <2>5. /\ RowsType' /\ rows'[m] = row
        /\ \A n \in Msg : n # m => rows'[n] = rows[n]
    BY <2>1, <2>2, <2>3 DEF RowsType
  <2> QED  BY <1>2, <2>1, <2>3, <2>4, <2>5 DEF ClaimedAs
<1> QED  BY <1>1, <1>2

LEMMA BatchIsWaiting ==
    ASSUME RowsType, NEW allow \in BOOLEAN, NEW m \in NextBatch(rows, allow)
    PROVE  /\ m \in Msg /\ rows[m].status = "pending" /\ ~Capped(rows[m])
           /\ ~Blocked(rows)
<1>1. ~Blocked(rows) /\ m \in Msg /\ HeldAtCap(rows)[m].status = "pending"
  BY DEF NextBatch, BatchFrom, Eligible
<1>2. HeldAtCap(rows)[m] = IF Capped(rows[m]) THEN Failed(rows[m]) ELSE rows[m]
  BY <1>1 DEF HeldAtCap
<1>3. rows[m] \in Row
  BY <1>1 DEF RowsType
<1>4. Failed(rows[m]).status = "failed"
  BY <1>3 DEF Failed, Row
<1> QED  BY <1>1, <1>2, <1>4

LEMMA BatchClaimedRows ==
    ASSUME RowsType, NEW a \in Attempt, NEW allow \in BOOLEAN,
           rows' = ClaimNextBatch(rows, a, allow)
    PROVE  /\ RowsType' /\ ClaimedAs(a, NextBatch(rows, allow))
           /\ Blocked(rows) => rows' = rows /\ NextBatch(rows, allow) = {}
<1> USE QueueAssumption DEF RowsType
<1>1. CASE Blocked(rows)
  BY <1>1 DEF ClaimNextBatch, NextBatch, ClaimedAs
<1>2. CASE ~Blocked(rows)
  <2>1. rows' = [m \in Msg |-> IF m \in NextBatch(rows, allow)
                                THEN Claimed(rows[m], a) ELSE HeldAtCap(rows)[m]]
    BY <1>2 DEF ClaimNextBatch
  <2>2. ASSUME NEW m \in Msg
        PROVE  /\ rows'[m] \in Row
               /\ rows'[m].kind = rows[m].kind /\ rows'[m].model = rows[m].model
               /\ IF m \in NextBatch(rows, allow)
                  THEN /\ rows[m].status = "pending"
                       /\ rows'[m].status = "delivering" /\ rows'[m].attempt = a
                  ELSE \/ rows'[m] = rows[m]
                       \/ /\ rows[m].status = "pending"
                          /\ rows'[m].status = "failed"
                          /\ rows'[m].attempt = NoAttempt
    <3>1. rows[m] \in Row
      OBVIOUS
    <3>2. CASE m \in NextBatch(rows, allow)
      <4>1. rows[m].status = "pending" /\ ~Capped(rows[m])
        BY <3>2, BatchIsWaiting
      <4>2. rows[m].count + 1 \in 0 .. MaxAttempts
        BY <3>1, <4>1 DEF Capped, Row
      <4>3. rows'[m] = Claimed(rows[m], a)
        BY <2>1, <3>2
      <4> QED  BY <3>1, <3>2, <4>1, <4>2, <4>3 DEF Claimed, Row, Status
    <3>3. CASE m \notin NextBatch(rows, allow)
      <4>1. rows'[m] = IF Capped(rows[m]) THEN Failed(rows[m]) ELSE rows[m]
        BY <2>1, <3>3 DEF HeldAtCap
      <4> QED  BY <3>1, <3>3, <4>1 DEF Failed, Capped, Row, Status
    <3> QED  BY <3>2, <3>3
  <2>3. rows' = [m \in Msg |-> rows'[m]]
    BY <2>1
  <2> QED
    BY <1>2, <2>2, <2>3, BatchIsWaiting DEF ClaimedAs
<1> QED  BY <1>1, <1>2
-----------------------------------------------------------------------------
(* What the lemmas about the actions start from.                           *)

\* The types of the variables the invariant relates.
Places ==
  /\ turn \in [item : Item \cup {NoItem}, phase : TurnPhase,
               settling : BOOLEAN, got : BOOLEAN]
  /\ live \in [msg : 0 .. MaxRows, attempt : Attempt \cup {NoAttempt},
               phase : {"none", "accepts", "claimed", "joined", "sent"},
               got : BOOLEAN]
  /\ batch \in [attempt : Attempt \cup {NoAttempt}, fresh : BOOLEAN,
                phase : {"none", "command", "ran", "claimed", "read",
                         "passed"}]
  /\ RowsType /\ reached \in [Msg -> Nat]
  /\ runner \in {"off", "loop", "ending", "lease"}
  /\ retained \subseteq Attempt /\ unremoved \subseteq Item
  /\ Mailed \subseteq Item
  /\ direct \in [Direct -> DirectState]
  /\ used \in [crashes : Nat, faults : Nat, leases : Nat]

LEMMA Parts ==
    ASSUME DeliveryInv
    PROVE  /\ Places /\ TypeOK /\ RowsMatch /\ PlacesMatch /\ WayMatches
           /\ SentMatches /\ LeftMatches /\ DirectsMatch
<1>1. Mailed \subseteq Item
  BY DEF DeliveryInv, TypeOK, MailTypes, Mailed
<1> QED
  BY <1>1 DEF DeliveryInv, TypeOK, QueueTypes, CallTypes, DrainTypes, TurnTypes,
              MailTypes, DirectTypes, OtherTypes, Places, RowsType

\* What an action leaves alone keeps its type.
LEMMA SameTypes ==
    ASSUME TypeOK
    PROVE  /\ UNCHANGED <<rows, retries, reached>> => QueueTypes'
           /\ UNCHANGED <<todo, live>> => CallTypes'
           /\ UNCHANGED <<asked, checked, batch>> => DrainTypes'
           /\ UNCHANGED turn => TurnTypes'
           /\ UNCHANGED <<mail, runner, rerun, unremoved>> => MailTypes'
           /\ UNCHANGED <<direct, back>> => DirectTypes'
           /\ UNCHANGED <<owner, retained, server, used, stranded>> => OtherTypes'
<1> USE DEF TypeOK
<1>1. UNCHANGED <<rows, retries, reached>> => QueueTypes'
  BY DEF QueueTypes
<1>2. UNCHANGED <<todo, live>> => CallTypes'
  BY DEF CallTypes
<1>3. UNCHANGED <<asked, checked, batch>> => DrainTypes'
  BY DEF DrainTypes
<1>4. UNCHANGED turn => TurnTypes'
  BY DEF TurnTypes
<1>5. UNCHANGED <<mail, runner, rerun, unremoved>> => MailTypes'
  BY DEF MailTypes
<1>6. UNCHANGED <<direct, back>> => DirectTypes'
  BY DEF DirectTypes
<1>7. UNCHANGED <<owner, retained, server, used, stranded>> => OtherTypes'
  BY DEF OtherTypes
<1> QED  BY <1>1, <1>2, <1>3, <1>4, <1>5, <1>6, <1>7

LEMMA NothingDrains ==
    asked' = FALSE /\ checked' = 0 /\ batch' = NoBatch => DrainTypes'
<1>1. 0 \in 0 .. MaxDrains
  BY DeliveryAssumption
<1>2. NoBatch \in [attempt : Attempt \cup {NoAttempt}, fresh : BOOLEAN,
                   phase : {"none", "command", "ran", "claimed", "read",
                     "passed"}]
  BY DEF NoBatch
<1> QED  BY <1>1, <1>2 DEF DrainTypes

LEMMA EmptyMail == \A S : <<>> \in Seq(S)
OBVIOUS

LEMMA SameMail == mail' = mail => Mailed' = Mailed /\ MailedOnce' = MailedOnce
BY DEF Mailed, MailedOnce

LEMMA FreshIs ==
    ASSUME NEW a \in Fresh
    PROVE  /\ a \in Attempt /\ \A m \in Msg : rows[m].attempt # a
           /\ a \notin Mailed /\ a \notin retained /\ a \notin stranded
           /\ a # turn.item /\ a # live.attempt /\ a # batch.attempt
BY DEF Fresh, Unused, Referenced

\* A direct message is back as a row that failed, or lost to a write.
HandedBack(d) ==
  /\ RowsType'
  /\ \/ rows' = rows
     \/ \E m \in Msg : rows[m].status = "absent" /\ OneRow(m, "failed")
  /\ \/ direct' = [direct EXCEPT ![d] = "handed"]
     \/ direct' = [direct EXCEPT ![d] = "lost"] /\ used'.faults > 0
  /\ used' \in [crashes : Nat, faults : Nat, leases : Nat]
  /\ used'.faults >= used.faults
  /\ back' \in [Direct -> 0 .. MaxRows]

LEMMA HandsBackIs ==
    ASSUME RowsType, RowsMatch, used \in [crashes : Nat, faults : Nat,
      leases : Nat],
           back \in [Direct -> 0 .. MaxRows],
           NEW d \in Direct, NEW ok \in BOOLEAN, HandsBack(d, ok)
    PROVE  HandedBack(d)
<1>1. /\ used' \in [crashes : Nat, faults : Nat, leases : Nat]
      /\ used'.faults >= used.faults /\ (~ok => used'.faults > 0)
  BY DEF HandsBack, Spends
<1>2. back' \in [Direct -> 0 .. MaxRows]
  BY QueueAssumption DEF HandsBack, Msg
<1>3. CASE rows' = rows
  BY <1>1, <1>2, <1>3 DEF HandsBack, HandedBack, RowsType
<1>4. CASE rows' # rows
  <2> DEFINE model == CHOOSE x \in Model : TRUE
  <2>1. PICK m \in Msg : NextRow(m) /\ Put(m, "failed", "text", model)
    BY <1>4 DEF HandsBack
  <2>2. model \in Model
    BY ZeroCount
  <2>3. rows[m].status = "absent" /\ rows[m].attempt = NoAttempt
    BY <2>1 DEF NextRow, Enqueued, RowsMatch
  <2> HIDE DEF model
  <2>4. RowsType' /\ OneRow(m, "failed")
    BY <2>1, <2>2, <2>3, PersonRows DEF Status, Kind
  <2>5. ok /\ direct' = [direct EXCEPT ![d] = "handed"]
    BY <1>4 DEF HandsBack
  <2> QED  BY <1>1, <1>2, <2>3, <2>4, <2>5 DEF HandedBack
<1> QED  BY <1>3, <1>4

\* In every proof below: the vocabulary of the invariant is expanded.
USE DeliveryAssumption, QueueAssumption
    DEF queueVars, callVars, drainVars, coreVars, directVars, NoTurn, NoLive,
        NoBatch, Item, TurnPhase, Spends, Out, Under, UnderWay, Unsent, Sent,
        Owners, LiveTook, TurnTook, TurnUntook, InMail, Answered
-----------------------------------------------------------------------------
(* Every action preserves the invariant.  Where an action rewrites the rows *)
(* or the mailbox, step <1>0 says what it makes of them; then each conjunct  *)
(* follows.  An action with two outcomes has a lemma for each.               *)
-----------------------------------------------------------------------------
(* People.                                                                 *)

LEMMA EnqueueStep ==
    ASSUME DeliveryInv, NEW m \in Msg, NEW offer \in Offer, Enqueue(m, offer)
    PROVE  DeliveryInv'
<1> USE Parts, SameMail DEF Places, Enqueue, NextRow, Enqueued
<1>0. OneRow(m, "pending") /\ rows[m].status = "absent" /\ RowsType'
  BY PersonRows DEF RowsMatch, RowsType, Row, Status
<1> USE <1>0 DEF OneRow
<1>1. TypeOK'
  BY SameTypes DEF TypeOK, QueueTypes, CallTypes, RowsType
<1>2. RowsMatch'
  BY DEF RowsMatch
<1>3. PlacesMatch'
  BY DEF PlacesMatch
<1>4. WayMatches'
  BY DEF WayMatches, RowsMatch, PlacesMatch
<1>5. SentMatches'
  BY DEF SentMatches, RowsMatch, PlacesMatch, WayMatches
<1>6. LeftMatches'
  BY DEF LeftMatches, RowsMatch, PlacesMatch, WayMatches
<1>7. DirectsMatch'
  BY DEF DirectsMatch, PlacesMatch
<1> QED  BY <1>1, <1>2, <1>3, <1>4, <1>5, <1>6, <1>7 DEF DeliveryInv

LEMMA CancelStep ==
    ASSUME DeliveryInv, NEW m \in Msg, Cancel(m)
    PROVE  DeliveryInv'
<1> USE Parts, SameMail DEF Places, Cancel
<1>0. RowsType' /\ OneRow(m, "cancelled") /\ rows[m].status = "pending"
  BY PersonRows
<1> USE <1>0 DEF OneRow
<1>1. TypeOK'
  BY SameTypes DEF TypeOK, QueueTypes, RowsType
<1>2. RowsMatch'
  BY DEF RowsMatch
<1>3. PlacesMatch'
  BY DEF PlacesMatch
<1>4. WayMatches'
  BY DEF WayMatches, RowsMatch, PlacesMatch
<1>5. SentMatches'
  BY DEF SentMatches, RowsMatch, PlacesMatch, WayMatches
<1>6. LeftMatches'
  BY DEF LeftMatches, RowsMatch, PlacesMatch, WayMatches
<1>7. DirectsMatch'
  BY DEF DirectsMatch, PlacesMatch
<1> QED  BY <1>1, <1>2, <1>3, <1>4, <1>5, <1>6, <1>7 DEF DeliveryInv

LEMMA RetryStep ==
    ASSUME DeliveryInv, NEW m \in Msg, Retry(m)
    PROVE  DeliveryInv'
<1> USE Parts, SameMail DEF Places, Retry, MayReview, Review
<1>0. OneRow(m, "pending") /\ RowsType'
  BY PersonRows
<1> USE <1>0 DEF OneRow
<1>1. TypeOK'
  <2>1. QueueTypes'
    BY SameTypes DEF TypeOK, QueueTypes, RowsType
  <2>2. DrainTypes'
    BY SameTypes DEF TypeOK, DrainTypes
  <2> QED
    BY SameTypes, <2>1, <2>2 DEF TypeOK
<1>2. RowsMatch'
  BY DEF RowsMatch
<1>3. PlacesMatch'
  BY DEF PlacesMatch
<1>4. WayMatches'
  BY DEF WayMatches, RowsMatch, PlacesMatch
<1>5. SentMatches'
  BY DEF SentMatches, RowsMatch, PlacesMatch, WayMatches
<1>6. LeftMatches'
  BY DEF LeftMatches, RowsMatch, PlacesMatch, WayMatches
<1>7. DirectsMatch'
  BY DEF DirectsMatch, PlacesMatch
<1> QED  BY <1>1, <1>2, <1>3, <1>4, <1>5, <1>6, <1>7 DEF DeliveryInv

LEMMA DiscardStep ==
    ASSUME DeliveryInv, NEW m \in Msg, Discard(m)
    PROVE  DeliveryInv'
<1> USE Parts, SameMail DEF Places, Discard, MayReview, Review
<1>0. RowsType' /\ OneRow(m, "cancelled") /\ rows[m].status \in {"uncertain",
      "failed"}
  BY PersonRows
<1> USE <1>0 DEF OneRow
<1>1. TypeOK'
  BY SameTypes DEF TypeOK, QueueTypes, DrainTypes, RowsType
<1>2. RowsMatch'
  BY DEF RowsMatch
<1>3. PlacesMatch'
  BY DEF PlacesMatch
<1>4. WayMatches'
  BY DEF WayMatches, RowsMatch, PlacesMatch
<1>5. SentMatches'
  BY DEF SentMatches, RowsMatch, PlacesMatch, WayMatches
<1>6. LeftMatches'
  BY DEF LeftMatches, RowsMatch, PlacesMatch, WayMatches
<1>7. DirectsMatch'
  BY DEF DirectsMatch, PlacesMatch
<1> QED  BY <1>1, <1>2, <1>3, <1>4, <1>5, <1>6, <1>7 DEF DeliveryInv
-----------------------------------------------------------------------------
(* Live deliveries.                                                        *)

LEMMA DispatchAcceptsStep ==
    ASSUME DeliveryInv, NEW m \in Msg, DispatchAccepts(m)
    PROVE  DeliveryInv'
<1> USE Parts, SameMail DEF Places, DispatchAccepts
<1>0. m \in 0 .. MaxRows
  BY DEF Msg
<1> USE <1>0
<1>1. TypeOK'
  <2>1. CallTypes'
    BY SameTypes DEF TypeOK, CallTypes
  <2> QED
    BY SameTypes, <2>1 DEF TypeOK
<1>2. RowsMatch'
  BY DEF RowsMatch
<1>3. PlacesMatch'
  BY DEF PlacesMatch
<1>4. WayMatches'
  BY DEF WayMatches, RowsMatch, PlacesMatch
<1>5. SentMatches'
  BY DEF SentMatches, RowsMatch, PlacesMatch, WayMatches
<1>6. LeftMatches'
  BY DEF LeftMatches, RowsMatch, PlacesMatch, WayMatches
<1>7. DirectsMatch'
  BY DEF DirectsMatch, PlacesMatch
<1> QED  BY <1>1, <1>2, <1>3, <1>4, <1>5, <1>6, <1>7 DEF DeliveryInv

LEMMA LiveClaimsYesStep ==
    ASSUME DeliveryInv, NEW a \in Fresh, NEW allow \in BOOLEAN,
           LiveClaims(a, allow), ClaimsLive(rows, live.msg, allow)
    PROVE  DeliveryInv'
<1> USE Parts, SameMail DEF Places
<1>0. /\ a \in Attempt /\ live.msg \in Msg /\ ClaimedAs(a, {live.msg})
         /\ RowsType'
      /\ \A m \in Msg : rows[m].status # "delivering" /\ rows[m].attempt # a
      /\ ~(a \in Mailed \cup retained \cup stranded \cup {turn.item, live.attempt,
         batch.attempt})
  BY FreshIs, LiveClaimedRows DEF LiveClaims, ClaimsLive, LiveTurnOf, Blocked,
     IsFirst, Eligible
<1>0a. /\ live.phase = "accepts" /\ live' = [live EXCEPT !.phase = "claimed",
          !.attempt = a]
       /\ UNCHANGED <<mail, owner, turn, directVars, todo, drainVars, runner,
          rerun, unremoved, retained, server, used, reached, retries, stranded>>
  BY DEF LiveClaims
<1>0b. live.attempt = NoAttempt /\ live'.attempt = a /\ live'.phase = "claimed"
       /\ live' # NoLive
  BY <1>0a DEF PlacesMatch
<1> USE <1>0, <1>0a, <1>0b DEF ClaimedAs
<1>1. TypeOK'
  <2>1. QueueTypes'
    BY SameTypes DEF TypeOK, QueueTypes, RowsType
  <2>2. CallTypes'
    BY SameTypes DEF TypeOK, CallTypes
  <2>3. DrainTypes'
    BY SameTypes DEF TypeOK, DrainTypes
  <2> QED
    BY SameTypes, <2>1, <2>2, <2>3 DEF TypeOK
<1>2. RowsMatch'
  BY DEF RowsMatch
<1>3. PlacesMatch'
  BY DEF PlacesMatch
<1>4. WayMatches'
  BY DEF WayMatches, RowsMatch, PlacesMatch
<1>5. SentMatches'
  BY DEF SentMatches, RowsMatch, PlacesMatch, WayMatches
<1>6. LeftMatches'
  BY DEF LeftMatches, RowsMatch, PlacesMatch, WayMatches
<1>7. DirectsMatch'
  BY DEF DirectsMatch, PlacesMatch
<1> QED  BY <1>1, <1>2, <1>3, <1>4, <1>5, <1>6, <1>7 DEF DeliveryInv

LEMMA LiveClaimsNoStep ==
    ASSUME DeliveryInv, NEW a \in Fresh, NEW allow \in BOOLEAN,
           LiveClaims(a, allow), ~ClaimsLive(rows, live.msg, allow)
    PROVE  DeliveryInv'
<1> USE Parts, SameMail DEF Places
<1>0. ClaimedAs(a, {}) /\ RowsType'
  BY FreshIs, LiveClaimedRows DEF LiveClaims
<1>0a. /\ live.phase = "accepts" /\ live' = NoLive /\ todo' = todo \ {live.msg}
          /\ asked' = TRUE
       /\ UNCHANGED <<mail, owner, turn, directVars, checked, batch, runner,
          rerun, unremoved, retained, server, used, reached, retries, stranded>>
  BY DEF LiveClaims, DispatchEnds
<1> USE <1>0, <1>0a DEF ClaimedAs
<1>1. TypeOK'
  <2>1. QueueTypes'
    BY SameTypes DEF TypeOK, QueueTypes, RowsType
  <2>2. CallTypes'
    BY SameTypes DEF TypeOK, CallTypes
  <2>3. DrainTypes'
    BY SameTypes DEF TypeOK, DrainTypes
  <2> QED
    BY SameTypes, <2>1, <2>2, <2>3 DEF TypeOK
<1>2. RowsMatch'
  BY DEF RowsMatch
<1>3. PlacesMatch'
  BY DEF PlacesMatch
<1>4. WayMatches'
  BY DEF WayMatches, RowsMatch, PlacesMatch
<1>5. SentMatches'
  BY DEF SentMatches, RowsMatch, PlacesMatch, WayMatches
<1>6. LeftMatches'
  BY DEF LeftMatches, RowsMatch, PlacesMatch, WayMatches
<1>7. DirectsMatch'
  BY DEF DirectsMatch, PlacesMatch
<1> QED  BY <1>1, <1>2, <1>3, <1>4, <1>5, <1>6, <1>7 DEF DeliveryInv

LEMMA LiveJoinsStep ==
    ASSUME DeliveryInv, LiveJoins
    PROVE  DeliveryInv'
<1> USE Parts, SameMail DEF Places, LiveJoins
<1>1. TypeOK'
  BY SameTypes DEF TypeOK, CallTypes
<1>2. RowsMatch'
  BY DEF RowsMatch
<1>3. PlacesMatch'
  BY DEF PlacesMatch
<1>4. WayMatches'
  BY DEF WayMatches, RowsMatch, PlacesMatch
<1>5. SentMatches'
  BY DEF SentMatches, RowsMatch, PlacesMatch, WayMatches
<1>6. LeftMatches'
  BY DEF LeftMatches, RowsMatch, PlacesMatch, WayMatches
<1>7. DirectsMatch'
  BY DEF DirectsMatch, PlacesMatch
<1> QED  BY <1>1, <1>2, <1>3, <1>4, <1>5, <1>6, <1>7 DEF DeliveryInv

LEMMA LiveReturnsStep ==
    ASSUME DeliveryInv, NEW ok \in BOOLEAN, LiveReturns(ok)
    PROVE  DeliveryInv'
<1> USE Parts, SameMail DEF Places, LiveReturns, DispatchEnds, DispatchThrows,
      MayFail, Strands
<1>0. /\ live.attempt \in Attempt /\ Unsent(live.attempt)
      /\ ok => RowsType' /\ Settled(live.attempt, "pending")
      /\ ~ok => rows' = rows
      /\ live' = NoLive /\ todo' = todo \ {live.msg} /\ asked' \in {asked, TRUE}
  BY SettledRows DEF PlacesMatch, SentMatches, LiveTook
<1> USE <1>0 DEF Settled
<1>1. TypeOK'
  <2>1. QueueTypes'
    BY SameTypes DEF TypeOK, QueueTypes, RowsType
  <2>2. CallTypes'
    BY SameTypes DEF TypeOK, CallTypes, Msg
  <2>3. DrainTypes'
    BY SameTypes DEF TypeOK, DrainTypes
  <2>4. OtherTypes'
    BY SameTypes DEF TypeOK, OtherTypes
  <2> QED
    BY SameTypes, <2>1, <2>2, <2>3, <2>4 DEF TypeOK
<1>2. RowsMatch'
  BY DEF RowsMatch
<1>3. PlacesMatch'
  BY DEF PlacesMatch
<1>4. WayMatches'
  BY DEF WayMatches, RowsMatch, PlacesMatch
<1>5. SentMatches'
  BY DEF SentMatches, RowsMatch, PlacesMatch, WayMatches
<1>6. LeftMatches'
  BY DEF LeftMatches, RowsMatch, PlacesMatch, WayMatches
<1>7. DirectsMatch'
  BY DEF DirectsMatch, PlacesMatch
<1> QED  BY <1>1, <1>2, <1>3, <1>4, <1>5, <1>6, <1>7 DEF DeliveryInv

LEMMA LiveSendsStep ==
    ASSUME DeliveryInv, NEW got \in BOOLEAN, LiveSends(got)
    PROVE  DeliveryInv'
<1> USE Parts, SameMail DEF Places, LiveSends, Reaches
<1>0. live.attempt \in Attempt /\ Unsent(live.attempt)
  BY DEF PlacesMatch, SentMatches, LiveTook
<1> USE <1>0
<1>1. TypeOK'
  <2>1. QueueTypes'
    BY SameTypes DEF TypeOK, QueueTypes, RowsType
  <2>2. CallTypes'
    BY SameTypes DEF TypeOK, CallTypes, Msg
  <2> QED
    BY SameTypes, <2>1, <2>2 DEF TypeOK
<1>2. RowsMatch'
  BY DEF RowsMatch
<1>3. PlacesMatch'
  BY DEF PlacesMatch
<1>4. WayMatches'
  BY DEF WayMatches, RowsMatch, PlacesMatch
<1>5. SentMatches'
  BY DEF SentMatches, RowsMatch, PlacesMatch, WayMatches
<1>6. LeftMatches'
  BY DEF LeftMatches, RowsMatch, PlacesMatch, WayMatches
<1>7. DirectsMatch'
  BY DEF DirectsMatch, PlacesMatch
<1> QED  BY <1>1, <1>2, <1>3, <1>4, <1>5, <1>6, <1>7 DEF DeliveryInv

LEMMA LiveRefusedStep ==
    ASSUME DeliveryInv, NEW ok \in BOOLEAN, LiveRefused(ok)
    PROVE  DeliveryInv'
<1> USE Parts, SameMail DEF Places, LiveRefused, DispatchEnds, DispatchThrows,
      MayFail, Strands
<1>0. /\ live.attempt \in Attempt /\ Unsent(live.attempt)
      /\ ok => RowsType' /\ Settled(live.attempt, "pending")
      /\ ~ok => rows' = rows
      /\ live' = NoLive /\ todo' = todo \ {live.msg} /\ asked' \in {asked, TRUE}
  BY SettledRows DEF PlacesMatch, SentMatches, LiveTook
<1> USE <1>0 DEF Settled
<1>1. TypeOK'
  <2>1. QueueTypes'
    BY SameTypes DEF TypeOK, QueueTypes, RowsType
  <2>2. CallTypes'
    BY SameTypes DEF TypeOK, CallTypes, Msg
  <2>3. DrainTypes'
    BY SameTypes DEF TypeOK, DrainTypes
  <2>4. OtherTypes'
    BY SameTypes DEF TypeOK, OtherTypes
  <2> QED
    BY SameTypes, <2>1, <2>2, <2>3, <2>4 DEF TypeOK
<1>2. RowsMatch'
  BY DEF RowsMatch
<1>3. PlacesMatch'
  BY DEF PlacesMatch
<1>4. WayMatches'
  BY DEF WayMatches, RowsMatch, PlacesMatch
<1>5. SentMatches'
  BY DEF SentMatches, RowsMatch, PlacesMatch, WayMatches
<1>6. LeftMatches'
  BY DEF LeftMatches, RowsMatch, PlacesMatch, WayMatches
<1>7. DirectsMatch'
  BY DEF DirectsMatch, PlacesMatch
<1> QED  BY <1>1, <1>2, <1>3, <1>4, <1>5, <1>6, <1>7 DEF DeliveryInv

LEMMA LiveAcceptedOkStep ==
    ASSUME DeliveryInv, LiveAccepted(TRUE)
    PROVE  DeliveryInv'
<1> USE Parts, SameMail DEF Places, LiveAccepted, DispatchEnds, Releases
<1>0. /\ live.attempt \in Attempt /\ RowsType'
      /\ \A m \in Msg :
           IF rows[m].attempt = live.attempt /\ rows[m].status \in {"delivering",
             "uncertain"}
           THEN rows'[m].status = "delivered" /\ rows'[m].attempt = NoAttempt
           ELSE rows'[m] = rows[m]
  BY ConfirmedRows DEF PlacesMatch
<1> USE <1>0
<1>1. TypeOK'
  <2>1. QueueTypes'
    BY SameTypes DEF TypeOK, QueueTypes, RowsType
  <2>2. CallTypes'
    BY SameTypes DEF TypeOK, CallTypes, Msg
  <2>3. DrainTypes'
    BY SameTypes DEF TypeOK, DrainTypes
  <2>4. OtherTypes'
    BY SameTypes DEF TypeOK, OtherTypes
  <2> QED
    BY SameTypes, <2>1, <2>2, <2>3, <2>4 DEF TypeOK
<1>2. RowsMatch'
  BY DEF RowsMatch
<1>3. PlacesMatch'
  BY DEF PlacesMatch
<1>4. WayMatches'
  BY DEF WayMatches, RowsMatch, PlacesMatch
<1>5. SentMatches'
  BY DEF SentMatches, RowsMatch, PlacesMatch, WayMatches
<1>6. LeftMatches'
  BY DEF LeftMatches, RowsMatch, PlacesMatch, WayMatches
<1>7. DirectsMatch'
  BY DEF DirectsMatch, PlacesMatch
<1> QED  BY <1>1, <1>2, <1>3, <1>4, <1>5, <1>6, <1>7 DEF DeliveryInv

LEMMA LiveAcceptedFaultStep ==
    ASSUME DeliveryInv, LiveAccepted(FALSE)
    PROVE  DeliveryInv'
<1> USE Parts, SameMail DEF Places, LiveAccepted, DispatchEnds, Releases,
      MayFail
<1>0. /\ live.attempt \in Attempt
      /\ (RowsType' /\ Settled(live.attempt, "uncertain")) \/ rows' = rows
  BY SettledRows DEF PlacesMatch
<1> USE <1>0 DEF Settled
<1>1. TypeOK'
  <2>1. QueueTypes'
    BY SameTypes DEF TypeOK, QueueTypes, RowsType
  <2>2. CallTypes'
    BY SameTypes DEF TypeOK, CallTypes, Msg
  <2>3. DrainTypes'
    BY SameTypes DEF TypeOK, DrainTypes
  <2>4. OtherTypes'
    BY SameTypes DEF TypeOK, OtherTypes
  <2> QED
    BY SameTypes, <2>1, <2>2, <2>3, <2>4 DEF TypeOK
<1>2. RowsMatch'
  BY DEF RowsMatch
<1>3. PlacesMatch'
  BY DEF PlacesMatch
<1>4. WayMatches'
  BY DEF WayMatches, RowsMatch, PlacesMatch
<1>5. SentMatches'
  BY DEF SentMatches, RowsMatch, PlacesMatch, WayMatches
<1>6. LeftMatches'
  BY DEF LeftMatches, RowsMatch, PlacesMatch, WayMatches
<1>7. DirectsMatch'
  BY DEF DirectsMatch, PlacesMatch
<1> QED  BY <1>1, <1>2, <1>3, <1>4, <1>5, <1>6, <1>7 DEF DeliveryInv

LEMMA LiveUncertainStep ==
    ASSUME DeliveryInv, NEW ok \in BOOLEAN, LiveUncertain(ok)
    PROVE  DeliveryInv'
<1> USE Parts, SameMail DEF Places, LiveUncertain, DispatchEnds, MayFail,
      Strands
<1>0. live.attempt \in Attempt /\ (ok => RowsType' /\ Settled(live.attempt,
      "uncertain")) /\ (~ok => rows' = rows)
  BY SettledRows DEF PlacesMatch
<1> USE <1>0 DEF Settled
<1>1. TypeOK'
  <2>1. QueueTypes'
    BY SameTypes DEF TypeOK, QueueTypes, RowsType
  <2>2. CallTypes'
    BY SameTypes DEF TypeOK, CallTypes, Msg
  <2>3. DrainTypes'
    BY SameTypes DEF TypeOK, DrainTypes
  <2>4. OtherTypes'
    BY SameTypes DEF TypeOK, OtherTypes
  <2> QED
    BY SameTypes, <2>1, <2>2, <2>3, <2>4 DEF TypeOK
<1>2. RowsMatch'
  BY DEF RowsMatch
<1>3. PlacesMatch'
  BY DEF PlacesMatch
<1>4. WayMatches'
  BY DEF WayMatches, RowsMatch, PlacesMatch
<1>5. SentMatches'
  BY DEF SentMatches, RowsMatch, PlacesMatch, WayMatches
<1>6. LeftMatches'
  BY DEF LeftMatches, RowsMatch, PlacesMatch, WayMatches
<1>7. DirectsMatch'
  BY DEF DirectsMatch, PlacesMatch
<1> QED  BY <1>1, <1>2, <1>3, <1>4, <1>5, <1>6, <1>7 DEF DeliveryInv
-----------------------------------------------------------------------------
(* Drains.                                                                 *)

LEMMA DrainClaimsYesStep ==
    ASSUME DeliveryInv, NEW a \in Fresh, NEW allow \in BOOLEAN,
           DrainClaims(a, allow), NextBatch(rows, allow) # {}
    PROVE  DeliveryInv'
<1> USE Parts, SameMail DEF Places, DrainClaims
<1>0. /\ a \in Attempt /\ ClaimedAs(a, NextBatch(rows, allow)) /\ RowsType'
      /\ \A m \in Msg : rows[m].status # "delivering" /\ rows[m].attempt # a
      /\ ~(a \in Mailed \cup retained \cup stranded \cup {turn.item, live.attempt,
         batch.attempt})
      /\ NextBatch(rows, allow) \subseteq Msg
         /\ \E m \in Msg : m \in NextBatch(rows, allow)
      /\ batch'.attempt = a /\ batch'.phase \in {"command", "claimed"}
  BY FreshIs, BatchClaimedRows, BatchIsWaiting DEF DrainClaims, Blocked
<1> USE <1>0 DEF ClaimedAs
<1>1. TypeOK'
  BY SameTypes DEF TypeOK, QueueTypes, DrainTypes, RowsType
<1>2. RowsMatch'
  BY DEF RowsMatch
<1>3. PlacesMatch'
  BY DEF PlacesMatch
<1>4. WayMatches'
  BY DEF WayMatches, RowsMatch, PlacesMatch
<1>5. SentMatches'
  BY DEF SentMatches, RowsMatch, PlacesMatch, WayMatches
<1>6. LeftMatches'
  BY DEF LeftMatches, RowsMatch, PlacesMatch, WayMatches
<1>7. DirectsMatch'
  BY DEF DirectsMatch, PlacesMatch
<1> QED  BY <1>1, <1>2, <1>3, <1>4, <1>5, <1>6, <1>7 DEF DeliveryInv

LEMMA DrainClaimsNoStep ==
    ASSUME DeliveryInv, NEW a \in Fresh, NEW allow \in BOOLEAN,
           DrainClaims(a, allow), NextBatch(rows, allow) = {}
    PROVE  DeliveryInv'
<1> USE Parts, SameMail DEF Places, DrainClaims
<1>0. ClaimedAs(a, {}) /\ RowsType' /\ batch' = batch
  BY FreshIs, BatchClaimedRows DEF DrainClaims, ClaimedAs
<1> USE <1>0 DEF ClaimedAs
<1>1. TypeOK'
  BY SameTypes DEF TypeOK, QueueTypes, DrainTypes, RowsType
<1>2. RowsMatch'
  BY DEF RowsMatch
<1>3. PlacesMatch'
  BY DEF PlacesMatch
<1>4. WayMatches'
  BY DEF WayMatches, RowsMatch, PlacesMatch
<1>5. SentMatches'
  BY DEF SentMatches, RowsMatch, PlacesMatch, WayMatches
<1>6. LeftMatches'
  BY DEF LeftMatches, RowsMatch, PlacesMatch, WayMatches
<1>7. DirectsMatch'
  BY DEF DirectsMatch, PlacesMatch
<1> QED  BY <1>1, <1>2, <1>3, <1>4, <1>5, <1>6, <1>7 DEF DeliveryInv

LEMMA CommandRunsStep ==
    ASSUME DeliveryInv, CommandRuns
    PROVE  DeliveryInv'
<1> USE Parts, SameMail DEF Places, CommandRuns, Reaches
<1>0. batch.attempt \in Attempt /\ Unsent(batch.attempt)
  BY DEF PlacesMatch, SentMatches
<1> USE <1>0
<1>1. TypeOK'
  BY SameTypes DEF TypeOK, QueueTypes, DrainTypes, RowsType
<1>2. RowsMatch'
  BY DEF RowsMatch
<1>3. PlacesMatch'
  BY DEF PlacesMatch
<1>4. WayMatches'
  BY DEF WayMatches, RowsMatch, PlacesMatch
<1>5. SentMatches'
  BY DEF SentMatches, RowsMatch, PlacesMatch, WayMatches
<1>6. LeftMatches'
  BY DEF LeftMatches, RowsMatch, PlacesMatch, WayMatches
<1>7. DirectsMatch'
  BY DEF DirectsMatch, PlacesMatch
<1> QED  BY <1>1, <1>2, <1>3, <1>4, <1>5, <1>6, <1>7 DEF DeliveryInv

LEMMA CommandEndsStep ==
    ASSUME DeliveryInv, NEW done \in BOOLEAN, NEW ok \in BOOLEAN,
           CommandEnds(done, ok)
    PROVE  DeliveryInv'
<1> USE Parts, SameMail DEF Places, CommandEnds, MayFail, Strands
<1>0. batch.attempt \in Attempt /\ (ok \/ done => RowsType'
      /\ (Settled(batch.attempt, "delivered") \/ Settled(batch.attempt,
         "failed"))) /\ (~ok /\ ~done => rows' = rows)
  BY SettledRows DEF PlacesMatch
<1> USE <1>0 DEF Settled
<1>1. TypeOK'
  BY SameTypes DEF TypeOK, QueueTypes, DrainTypes, OtherTypes, RowsType
<1>2. RowsMatch'
  BY DEF RowsMatch
<1>3. PlacesMatch'
  BY DEF PlacesMatch
<1>4. WayMatches'
  BY DEF WayMatches, RowsMatch, PlacesMatch
<1>5. SentMatches'
  BY DEF SentMatches, RowsMatch, PlacesMatch, WayMatches
<1>6. LeftMatches'
  BY DEF LeftMatches, RowsMatch, PlacesMatch, WayMatches
<1>7. DirectsMatch'
  BY DEF DirectsMatch, PlacesMatch
<1> QED  BY <1>1, <1>2, <1>3, <1>4, <1>5, <1>6, <1>7 DEF DeliveryInv

LEMMA BatchReadsStep ==
    ASSUME DeliveryInv, BatchReads
    PROVE  DeliveryInv'
<1> USE Parts, SameMail DEF Places, BatchReads
<1>1. TypeOK'
  BY SameTypes DEF TypeOK, DrainTypes
<1>2. RowsMatch'
  BY DEF RowsMatch
<1>3. PlacesMatch'
  BY DEF PlacesMatch
<1>4. WayMatches'
  BY DEF WayMatches, RowsMatch, PlacesMatch
<1>5. SentMatches'
  BY DEF SentMatches, RowsMatch, PlacesMatch, WayMatches
<1>6. LeftMatches'
  BY DEF LeftMatches, RowsMatch, PlacesMatch, WayMatches
<1>7. DirectsMatch'
  BY DEF DirectsMatch, PlacesMatch
<1> QED  BY <1>1, <1>2, <1>3, <1>4, <1>5, <1>6, <1>7 DEF DeliveryInv

LEMMA BatchPassesStep ==
    ASSUME DeliveryInv, BatchPasses
    PROVE  DeliveryInv'
<1> USE Parts, SameMail DEF Places, BatchPasses
<1>1. TypeOK'
  BY SameTypes DEF TypeOK, DrainTypes
<1>2. RowsMatch'
  BY DEF RowsMatch
<1>3. PlacesMatch'
  BY DEF PlacesMatch
<1>4. WayMatches'
  BY DEF WayMatches, RowsMatch, PlacesMatch
<1>5. SentMatches'
  BY DEF SentMatches, RowsMatch, PlacesMatch, WayMatches
<1>6. LeftMatches'
  BY DEF LeftMatches, RowsMatch, PlacesMatch, WayMatches
<1>7. DirectsMatch'
  BY DEF DirectsMatch, PlacesMatch
<1> QED  BY <1>1, <1>2, <1>3, <1>4, <1>5, <1>6, <1>7 DEF DeliveryInv

LEMMA BatchReturnsStep ==
    ASSUME DeliveryInv, NEW ok \in BOOLEAN, NEW fault \in {0, 1},
           BatchReturns(fault, ok)
    PROVE  DeliveryInv'
<1> USE Parts, SameMail DEF Places, BatchReturns, Strands
<1>0. /\ batch.attempt \in Attempt /\ Unsent(batch.attempt)
      /\ ok => RowsType' /\ Settled(batch.attempt, "pending")
      /\ ~ok => rows' = rows
  BY SettledRows DEF PlacesMatch, SentMatches
<1> USE <1>0 DEF Settled
<1>1. TypeOK'
  BY SameTypes DEF TypeOK, QueueTypes, DrainTypes, OtherTypes, RowsType
<1>2. RowsMatch'
  BY DEF RowsMatch
<1>3. PlacesMatch'
  BY DEF PlacesMatch
<1>4. WayMatches'
  BY DEF WayMatches, RowsMatch, PlacesMatch
<1>5. SentMatches'
  BY DEF SentMatches, RowsMatch, PlacesMatch, WayMatches
<1>6. LeftMatches'
  BY DEF LeftMatches, RowsMatch, PlacesMatch, WayMatches
<1>7. DirectsMatch'
  BY DEF DirectsMatch, PlacesMatch
<1> QED  BY <1>1, <1>2, <1>3, <1>4, <1>5, <1>6, <1>7 DEF DeliveryInv

LEMMA BatchHandedOverStep ==
    ASSUME DeliveryInv, BatchHandedOver
    PROVE  DeliveryInv'
<1> USE Parts, SameMail DEF Places, BatchHandedOver
<1>0. batch.attempt \in Attempt /\ MailedOnce'
      /\ Mailed' = Mailed \cup {batch.attempt} /\ mail' \in Seq(Item)
  BY MailAppended DEF PlacesMatch, TypeOK, MailTypes
<1> USE <1>0
<1>1. TypeOK'
  <2>1. DrainTypes'
    BY SameTypes DEF TypeOK, DrainTypes
  <2>2. MailTypes'
    BY SameTypes DEF TypeOK, MailTypes, Wake
  <2> QED
    BY SameTypes, <2>1, <2>2 DEF TypeOK
<1>2. RowsMatch'
  BY DEF RowsMatch
<1>3. PlacesMatch'
  BY DEF PlacesMatch
<1>4. WayMatches'
  BY DEF WayMatches, RowsMatch, PlacesMatch
<1>5. SentMatches'
  BY DEF SentMatches, RowsMatch, PlacesMatch, WayMatches
<1>6. LeftMatches'
  BY DEF LeftMatches, RowsMatch, PlacesMatch, WayMatches
<1>7. DirectsMatch'
  BY DEF DirectsMatch, PlacesMatch
<1> QED  BY <1>1, <1>2, <1>3, <1>4, <1>5, <1>6, <1>7 DEF DeliveryInv
-----------------------------------------------------------------------------
(* Direct messages.                                                        *)

LEMMA DirectReadsStep ==
    ASSUME DeliveryInv, NEW d \in Direct, DirectReads(d)
    PROVE  DeliveryInv'
<1> USE Parts, SameMail DEF Places, DirectReads, Advance
<1>1. TypeOK'
  BY SameTypes DEF TypeOK, DirectTypes, DirectState
<1>2. RowsMatch'
  BY DEF RowsMatch
<1>3. PlacesMatch'
  BY DEF PlacesMatch
<1>4. WayMatches'
  BY DEF WayMatches, RowsMatch, PlacesMatch
<1>5. SentMatches'
  BY DEF SentMatches, RowsMatch, PlacesMatch, WayMatches
<1>6. LeftMatches'
  BY DEF LeftMatches, RowsMatch, PlacesMatch, WayMatches
<1>7. DirectsMatch'
  BY DEF DirectsMatch, PlacesMatch
<1> QED  BY <1>1, <1>2, <1>3, <1>4, <1>5, <1>6, <1>7 DEF DeliveryInv

LEMMA DirectRefusedStep ==
    ASSUME DeliveryInv, NEW d \in Direct, DirectRefused(d)
    PROVE  DeliveryInv'
<1> USE Parts, SameMail DEF Places, DirectRefused, Advance
<1>1. TypeOK'
  BY SameTypes DEF TypeOK, DirectTypes, DirectState
<1>2. RowsMatch'
  BY DEF RowsMatch
<1>3. PlacesMatch'
  BY DEF PlacesMatch
<1>4. WayMatches'
  BY DEF WayMatches, RowsMatch, PlacesMatch
<1>5. SentMatches'
  BY DEF SentMatches, RowsMatch, PlacesMatch, WayMatches
<1>6. LeftMatches'
  BY DEF LeftMatches, RowsMatch, PlacesMatch, WayMatches
<1>7. DirectsMatch'
  BY DEF DirectsMatch, PlacesMatch
<1> QED  BY <1>1, <1>2, <1>3, <1>4, <1>5, <1>6, <1>7 DEF DeliveryInv

LEMMA DirectPassesStep ==
    ASSUME DeliveryInv, NEW d \in Direct, DirectPasses(d)
    PROVE  DeliveryInv'
<1> USE Parts, SameMail DEF Places, DirectPasses, Advance
<1>1. TypeOK'
  BY SameTypes DEF TypeOK, DirectTypes, DirectState
<1>2. RowsMatch'
  BY DEF RowsMatch
<1>3. PlacesMatch'
  BY DEF PlacesMatch
<1>4. WayMatches'
  BY DEF WayMatches, RowsMatch, PlacesMatch
<1>5. SentMatches'
  BY DEF SentMatches, RowsMatch, PlacesMatch, WayMatches
<1>6. LeftMatches'
  BY DEF LeftMatches, RowsMatch, PlacesMatch, WayMatches
<1>7. DirectsMatch'
  BY DEF DirectsMatch, PlacesMatch
<1> QED  BY <1>1, <1>2, <1>3, <1>4, <1>5, <1>6, <1>7 DEF DeliveryInv

LEMMA DirectMailedStep ==
    ASSUME DeliveryInv, NEW d \in Direct, DirectMailed(d)
    PROVE  DeliveryInv'
<1> USE Parts, SameMail DEF Places, DirectMailed, Advance
<1>0. ~InMail(d) /\ MailedOnce' /\ Mailed' = Mailed \cup {d}
      /\ mail' \in Seq(Item)
  BY MailAppended DEF PlacesMatch, TypeOK, MailTypes, DirectsMatch, Answered
<1> USE <1>0
<1>1. TypeOK'
  <2>1. MailTypes'
    BY SameTypes DEF TypeOK, MailTypes, Wake
  <2>2. DirectTypes'
    BY SameTypes DEF TypeOK, DirectTypes, DirectState
  <2> QED
    BY SameTypes, <2>1, <2>2 DEF TypeOK
<1>2. RowsMatch'
  BY DEF RowsMatch
<1>3. PlacesMatch'
  BY DEF PlacesMatch
<1>4. WayMatches'
  BY DEF WayMatches, RowsMatch, PlacesMatch
<1>5. SentMatches'
  BY DEF SentMatches, RowsMatch, PlacesMatch, WayMatches
<1>6. LeftMatches'
  BY DEF LeftMatches, RowsMatch, PlacesMatch, WayMatches
<1>7. DirectsMatch'
  BY DEF DirectsMatch, PlacesMatch
<1> QED  BY <1>1, <1>2, <1>3, <1>4, <1>5, <1>6, <1>7 DEF DeliveryInv
-----------------------------------------------------------------------------
(* The runner.                                                             *)

LEMMA TurnOpensStep ==
    ASSUME DeliveryInv, NEW i \in Item, TurnOpens(i)
    PROVE  DeliveryInv'
<1> USE Parts, SameMail DEF Places, TurnOpens, Takes
<1>0a. 1 \in DOMAIN mail
  BY DEF TypeOK, MailTypes
<1>0. i \in Mailed
  BY <1>0a DEF Mailed
<1>0b. turn'.item = i /\ turn'.phase = "open" /\ turn' # NoTurn
  OBVIOUS
<1> USE <1>0, <1>0b
<1>1. TypeOK'
  BY SameTypes DEF TypeOK, TurnTypes, MailTypes
<1>2. RowsMatch'
  BY DEF RowsMatch
<1>3. PlacesMatch'
  BY DEF PlacesMatch
<1>4. WayMatches'
  BY DEF WayMatches, RowsMatch, PlacesMatch
<1>5. SentMatches'
  BY DEF SentMatches, RowsMatch, PlacesMatch, WayMatches
<1>6. LeftMatches'
  BY DEF LeftMatches, RowsMatch, PlacesMatch, WayMatches
<1>7. DirectsMatch'
  BY DEF DirectsMatch, PlacesMatch
<1> QED  BY <1>1, <1>2, <1>3, <1>4, <1>5, <1>6, <1>7 DEF DeliveryInv

LEMMA TurnHeldStep ==
    ASSUME DeliveryInv, NEW i \in Direct, NEW ok \in BOOLEAN, TurnHeld(i, ok)
    PROVE  DeliveryInv'
<1> USE Parts, SameMail DEF Places
<1>0a. 1 \in DOMAIN mail
  BY DEF TypeOK, MailTypes, TurnHeld, Takes
<1>0. i \in Mailed /\ ~(i \in Attempt) /\ ~(i \in unremoved) /\ turn = NoTurn
      /\ runner = "loop"
  BY <1>0a DEF Mailed, TurnHeld, Takes
<1>0b. HandsBack(i, ok) /\ back \in [Direct -> 0 .. MaxRows]
  BY DEF TurnHeld, DirectTypes, TypeOK, MailTypes
<1>0c. HandedBack(i)
  BY <1>0b, HandsBackIs
<1>0d. /\ turn'.item = i /\ turn'.phase = "told" /\ turn' # NoTurn
          /\ ~turn'.settling
       /\ UNCHANGED <<mail, owner, callVars, drainVars, runner, unremoved,
          retained, server, reached, retries, stranded>>
       /\ rerun' = FALSE /\ turn' = [NoTurn EXCEPT !.item = i, !.phase = "told"]
  BY DEF TurnHeld
<1> USE <1>0, <1>0c, <1>0d DEF HandedBack, OneRow
<1>1. TypeOK'
  BY SameTypes DEF TypeOK, QueueTypes, TurnTypes, MailTypes, DirectTypes,
     OtherTypes, DirectState, RowsType
<1>2. RowsMatch'
  BY DEF RowsMatch
<1>3. PlacesMatch'
  BY DEF PlacesMatch
<1>4. WayMatches'
  BY DEF WayMatches, RowsMatch, PlacesMatch
<1>5. SentMatches'
  BY DEF SentMatches, RowsMatch, PlacesMatch, WayMatches
<1>6. LeftMatches'
  BY DEF LeftMatches, RowsMatch, PlacesMatch, WayMatches
<1>7. DirectsMatch'
  BY DEF DirectsMatch, PlacesMatch
<1> QED  BY <1>1, <1>2, <1>3, <1>4, <1>5, <1>6, <1>7 DEF DeliveryInv

LEMMA RemoveAgainOkStep ==
    ASSUME DeliveryInv, NEW i \in Item, RemoveAgain(i, TRUE)
    PROVE  DeliveryInv'
<1> USE Parts, SameMail DEF Places, RemoveAgain, Takes
<1>0. MailedOnce' /\ Mailed' = Mailed \ {i} /\ mail' \in Seq(Item)
  BY MailWithout DEF PlacesMatch, TypeOK, MailTypes, InMail
<1> USE <1>0
<1>1. TypeOK'
  <2>1. MailTypes'
    BY SameTypes DEF TypeOK, MailTypes
  <2>2. OtherTypes'
    BY SameTypes DEF TypeOK, OtherTypes
  <2> QED
    BY SameTypes, <2>1, <2>2 DEF TypeOK
<1>2. RowsMatch'
  BY DEF RowsMatch
<1>3. PlacesMatch'
  BY DEF PlacesMatch
<1>4. WayMatches'
  BY DEF WayMatches, RowsMatch, PlacesMatch
<1>5. SentMatches'
  BY DEF SentMatches, RowsMatch, PlacesMatch, WayMatches
<1>6. LeftMatches'
  BY DEF LeftMatches, RowsMatch, PlacesMatch, WayMatches
<1>7. DirectsMatch'
  BY DEF DirectsMatch, PlacesMatch
<1> QED  BY <1>1, <1>2, <1>3, <1>4, <1>5, <1>6, <1>7 DEF DeliveryInv

LEMMA RemoveAgainNotStep ==
    ASSUME DeliveryInv, NEW i \in Item, RemoveAgain(i, FALSE)
    PROVE  DeliveryInv'
<1> USE Parts, SameMail DEF Places, RemoveAgain
<1>0. server = "up" /\ runner = "loop"
  BY DEF Takes, PlacesMatch
<1> USE <1>0
<1>1. TypeOK'
  <2>1. MailTypes'
    BY SameTypes DEF TypeOK, MailTypes
  <2>2. OtherTypes'
    BY SameTypes DEF TypeOK, OtherTypes
  <2> QED
    BY SameTypes, <2>1, <2>2 DEF TypeOK
<1>2. RowsMatch'
  BY DEF RowsMatch
<1>3. PlacesMatch'
  BY DEF PlacesMatch
<1>4. WayMatches'
  BY DEF WayMatches, RowsMatch, PlacesMatch
<1>5. SentMatches'
  BY DEF SentMatches, RowsMatch, PlacesMatch, WayMatches
<1>6. LeftMatches'
  BY DEF LeftMatches, RowsMatch, PlacesMatch, WayMatches
<1>7. DirectsMatch'
  BY DEF DirectsMatch, PlacesMatch
<1> QED  BY <1>1, <1>2, <1>3, <1>4, <1>5, <1>6, <1>7 DEF DeliveryInv

LEMMA TurnNotStartedStep ==
    ASSUME DeliveryInv, NEW ok \in BOOLEAN, TurnNotStarted(ok)
    PROVE  DeliveryInv'
<1> USE Parts, SameMail DEF Places, TurnNotStarted, MayFail, Strands
<1>0. turn.item \in Attempt => (ok => RowsType' /\ Settled(turn.item,
      "failed")) /\ (~ok => rows' = rows)
  BY SettledRows DEF PlacesMatch
<1> USE <1>0 DEF Settled
<1>1. TypeOK'
  BY SameTypes DEF TypeOK, QueueTypes, TurnTypes, DirectTypes, OtherTypes,
     DirectState, RowsType
<1>2. RowsMatch'
  BY DEF RowsMatch
<1>3. PlacesMatch'
  BY DEF PlacesMatch
<1>4. WayMatches'
  BY DEF WayMatches, RowsMatch, PlacesMatch
<1>5. SentMatches'
  BY DEF SentMatches, RowsMatch, PlacesMatch, WayMatches
<1>6. LeftMatches'
  BY DEF LeftMatches, RowsMatch, PlacesMatch, WayMatches
<1>7. DirectsMatch'
  BY DEF DirectsMatch, PlacesMatch
<1> QED  BY <1>1, <1>2, <1>3, <1>4, <1>5, <1>6, <1>7 DEF DeliveryInv

LEMMA TurnAdmittedStep ==
    ASSUME DeliveryInv, TurnAdmitted
    PROVE  DeliveryInv'
<1> USE Parts, SameMail DEF Places, TurnAdmitted
<1>1. TypeOK'
  BY SameTypes DEF TypeOK, TurnTypes
<1>2. RowsMatch'
  BY DEF RowsMatch
<1>3. PlacesMatch'
  BY DEF PlacesMatch
<1>4. WayMatches'
  BY DEF WayMatches, RowsMatch, PlacesMatch
<1>5. SentMatches'
  BY DEF SentMatches, RowsMatch, PlacesMatch, WayMatches
<1>6. LeftMatches'
  BY DEF LeftMatches, RowsMatch, PlacesMatch, WayMatches
<1>7. DirectsMatch'
  BY DEF DirectsMatch, PlacesMatch
<1> QED  BY <1>1, <1>2, <1>3, <1>4, <1>5, <1>6, <1>7 DEF DeliveryInv

LEMMA TurnSendsStep ==
    ASSUME DeliveryInv, NEW got \in BOOLEAN, TurnSends(got)
    PROVE  DeliveryInv'
<1> USE Parts, SameMail DEF Places, TurnSends, Reaches
<1>0. /\ turn.item \in Attempt => Unsent(turn.item)
      /\ turn'.item = turn.item /\ turn'.phase = "sent" /\ turn' # NoTurn
  BY DEF PlacesMatch, SentMatches, TurnUntook, InMail
<1> USE <1>0
<1>1. TypeOK'
  <2>1. QueueTypes'
    BY SameTypes DEF TypeOK, QueueTypes, RowsType
  <2>2. TurnTypes'
    BY SameTypes DEF TypeOK, TurnTypes
  <2>3. DirectTypes'
    BY SameTypes DEF TypeOK, DirectTypes, DirectState
  <2> QED
    BY SameTypes, <2>1, <2>2, <2>3 DEF TypeOK
<1>2. RowsMatch'
  BY DEF RowsMatch
<1>3. PlacesMatch'
  BY DEF PlacesMatch
<1>4. WayMatches'
  BY DEF WayMatches, RowsMatch, PlacesMatch
<1>5. SentMatches'
  BY DEF SentMatches, RowsMatch, PlacesMatch, WayMatches
<1>6. LeftMatches'
  BY DEF LeftMatches, RowsMatch, PlacesMatch, WayMatches
<1>7. DirectsMatch'
  BY DEF DirectsMatch, PlacesMatch
<1> QED  BY <1>1, <1>2, <1>3, <1>4, <1>5, <1>6, <1>7 DEF DeliveryInv

LEMMA TurnRefusedStep ==
    ASSUME DeliveryInv, TurnRefused
    PROVE  DeliveryInv'
<1> USE Parts, SameMail DEF Places, TurnRefused
<1>1. TypeOK'
  BY SameTypes DEF TypeOK, TurnTypes
<1>2. RowsMatch'
  BY DEF RowsMatch
<1>3. PlacesMatch'
  BY DEF PlacesMatch
<1>4. WayMatches'
  BY DEF WayMatches, RowsMatch, PlacesMatch
<1>5. SentMatches'
  BY DEF SentMatches, RowsMatch, PlacesMatch, WayMatches
<1>6. LeftMatches'
  BY DEF LeftMatches, RowsMatch, PlacesMatch, WayMatches
<1>7. DirectsMatch'
  BY DEF DirectsMatch, PlacesMatch
<1> QED  BY <1>1, <1>2, <1>3, <1>4, <1>5, <1>6, <1>7 DEF DeliveryInv

LEMMA TurnAcceptedOkStep ==
    ASSUME DeliveryInv, turn.item \in Attempt, TurnAccepted(TRUE)
    PROVE  DeliveryInv'
<1> USE Parts, SameMail DEF Places, TurnAccepted, Releases
<1>0. /\ turn'.item = turn.item /\ turn'.phase = "accepted" /\ turn' # NoTurn
         /\ turn'.got
      /\ RowsType' /\ \A m \in Msg :
           IF rows[m].attempt = turn.item /\ rows[m].status \in {"delivering",
             "uncertain"}
           THEN rows'[m].status = "delivered" /\ rows'[m].attempt = NoAttempt
           ELSE rows'[m] = rows[m]
  BY ConfirmedRows
<1> USE <1>0
<1>1. TypeOK'
  BY SameTypes DEF TypeOK, QueueTypes, TurnTypes, OtherTypes, RowsType
<1>2. RowsMatch'
  BY DEF RowsMatch
<1>3. PlacesMatch'
  BY DEF PlacesMatch
<1>4. WayMatches'
  BY DEF WayMatches, RowsMatch, PlacesMatch
<1>5. SentMatches'
  BY DEF SentMatches, RowsMatch, PlacesMatch, WayMatches
<1>6. LeftMatches'
  BY DEF LeftMatches, RowsMatch, PlacesMatch, WayMatches
<1>7. DirectsMatch'
  BY DEF DirectsMatch, PlacesMatch
<1> QED  BY <1>1, <1>2, <1>3, <1>4, <1>5, <1>6, <1>7 DEF DeliveryInv

LEMMA TurnAcceptedFaultStep ==
    ASSUME DeliveryInv, turn.item \in Attempt, TurnAccepted(FALSE)
    PROVE  DeliveryInv'
<1> USE Parts, SameMail DEF Places, TurnAccepted, Releases, MayFail
<1>0. /\ turn'.item = turn.item /\ turn'.phase = "accepted" /\ turn' # NoTurn
         /\ turn'.got
      /\ (RowsType' /\ Settled(turn.item, "uncertain")) \/ rows' = rows
  BY SettledRows
<1> USE <1>0 DEF Settled
<1>1. TypeOK'
  BY SameTypes DEF TypeOK, QueueTypes, TurnTypes, OtherTypes, RowsType
<1>2. RowsMatch'
  BY DEF RowsMatch
<1>3. PlacesMatch'
  BY DEF PlacesMatch
<1>4. WayMatches'
  BY DEF WayMatches, RowsMatch, PlacesMatch
<1>5. SentMatches'
  BY DEF SentMatches, RowsMatch, PlacesMatch, WayMatches
<1>6. LeftMatches'
  BY DEF LeftMatches, RowsMatch, PlacesMatch, WayMatches
<1>7. DirectsMatch'
  BY DEF DirectsMatch, PlacesMatch
<1> QED  BY <1>1, <1>2, <1>3, <1>4, <1>5, <1>6, <1>7 DEF DeliveryInv

LEMMA TurnAcceptedDirectStep ==
    ASSUME DeliveryInv, NEW ok \in BOOLEAN, ~(turn.item \in Attempt),
           TurnAccepted(ok)
    PROVE  DeliveryInv'
<1> USE Parts, SameMail DEF Places, TurnAccepted
<1>0. turn'.item = turn.item /\ turn'.phase = "accepted" /\ turn' # NoTurn
      /\ turn'.got
  OBVIOUS
<1> USE <1>0
<1>1. TypeOK'
  BY SameTypes DEF TypeOK, QueueTypes, TurnTypes, OtherTypes, RowsType
<1>2. RowsMatch'
  BY DEF RowsMatch
<1>3. PlacesMatch'
  BY DEF PlacesMatch
<1>4. WayMatches'
  BY DEF WayMatches, RowsMatch, PlacesMatch
<1>5. SentMatches'
  BY DEF SentMatches, RowsMatch, PlacesMatch, WayMatches
<1>6. LeftMatches'
  BY DEF LeftMatches, RowsMatch, PlacesMatch, WayMatches
<1>7. DirectsMatch'
  BY DEF DirectsMatch, PlacesMatch
<1> QED  BY <1>1, <1>2, <1>3, <1>4, <1>5, <1>6, <1>7 DEF DeliveryInv

LEMMA TurnEndsStep ==
    ASSUME DeliveryInv, TurnEnds
    PROVE  DeliveryInv'
<1> USE Parts, SameMail DEF Places, TurnEnds
<1>1. TypeOK'
  BY SameTypes DEF TypeOK, TurnTypes
<1>2. RowsMatch'
  BY DEF RowsMatch
<1>3. PlacesMatch'
  BY DEF PlacesMatch
<1>4. WayMatches'
  BY DEF WayMatches, RowsMatch, PlacesMatch
<1>5. SentMatches'
  BY DEF SentMatches, RowsMatch, PlacesMatch, WayMatches
<1>6. LeftMatches'
  BY DEF LeftMatches, RowsMatch, PlacesMatch, WayMatches
<1>7. DirectsMatch'
  BY DEF DirectsMatch, PlacesMatch
<1> QED  BY <1>1, <1>2, <1>3, <1>4, <1>5, <1>6, <1>7 DEF DeliveryInv

LEMMA TurnSettlesStep ==
    ASSUME DeliveryInv, NEW ok \in BOOLEAN, TurnSettles(ok)
    PROVE  DeliveryInv'
<1> USE Parts, SameMail DEF Places, TurnSettles, MayFail, Strands
<1>0. /\ turn.item \in Attempt /\ ok => RowsType' /\ IF turn.phase \in {"sent",
         "accepted"} THEN Settled(turn.item, "uncertain") ELSE Settled(turn.item,
           "failed")
      /\ turn'.item = turn.item /\ turn'.phase = "ended" /\ turn' # NoTurn
  BY SettledRows DEF PlacesMatch
<1> USE <1>0 DEF Settled
<1>1. TypeOK'
  <2>1. QueueTypes'
    BY SameTypes DEF TypeOK, QueueTypes, RowsType
  <2>2. TurnTypes'
    BY SameTypes DEF TypeOK, TurnTypes
  <2>3. DirectTypes'
    BY SameTypes DEF TypeOK, DirectTypes, DirectState
  <2>4. OtherTypes'
    BY SameTypes DEF TypeOK, OtherTypes
  <2> QED
    BY SameTypes, <2>1, <2>2, <2>3, <2>4 DEF TypeOK
<1>2. RowsMatch'
  BY DEF RowsMatch
<1>3. PlacesMatch'
  BY DEF PlacesMatch
<1>4. WayMatches'
  BY DEF WayMatches, RowsMatch, PlacesMatch
<1>5. SentMatches'
  BY DEF SentMatches, RowsMatch, PlacesMatch, WayMatches
<1>6. LeftMatches'
  BY DEF LeftMatches, RowsMatch, PlacesMatch, WayMatches
<1>7. DirectsMatch'
  BY DEF DirectsMatch, PlacesMatch
<1> QED  BY <1>1, <1>2, <1>3, <1>4, <1>5, <1>6, <1>7 DEF DeliveryInv

LEMMA TurnConsumedStep ==
    ASSUME DeliveryInv, TurnConsumed
    PROVE  DeliveryInv'
<1> USE Parts, SameMail DEF Places, TurnConsumed
<1>0. MailedOnce' /\ Mailed' = Mailed \ {turn.item} /\ mail' \in Seq(Item)
  BY MailWithout DEF PlacesMatch, TypeOK, MailTypes
<1> USE <1>0
<1>1. TypeOK'
  BY SameTypes DEF TypeOK, TurnTypes, MailTypes
<1>2. RowsMatch'
  BY DEF RowsMatch
<1>3. PlacesMatch'
  BY DEF PlacesMatch
<1>4. WayMatches'
  BY DEF WayMatches, RowsMatch, PlacesMatch
<1>5. SentMatches'
  BY DEF SentMatches, RowsMatch, PlacesMatch, WayMatches
<1>6. LeftMatches'
  BY DEF LeftMatches, RowsMatch, PlacesMatch, WayMatches
<1>7. DirectsMatch'
  BY DEF DirectsMatch, PlacesMatch
<1> QED  BY <1>1, <1>2, <1>3, <1>4, <1>5, <1>6, <1>7 DEF DeliveryInv

LEMMA TurnNotConsumedStep ==
    ASSUME DeliveryInv, NEW ok \in BOOLEAN, TurnNotConsumed(ok)
    PROVE  DeliveryInv'
<1> USE Parts, SameMail DEF Places, TurnNotConsumed
<1>0. /\ \/ turn.item \in Attempt /\ RowsType' /\ Settled(turn.item, "failed")
         \/ rows' = rows
      /\ turn'.item = turn.item /\ turn'.phase = "failed" /\ turn' # NoTurn
      /\ turn'.settling = turn.settling
  BY SettledRows DEF PlacesMatch
<1> USE <1>0 DEF Settled
<1>1. TypeOK'
  <2>1. QueueTypes'
    BY SameTypes DEF TypeOK, QueueTypes, RowsType
  <2>2. TurnTypes'
    BY SameTypes DEF TypeOK, TurnTypes
  <2>3. OtherTypes'
    BY SameTypes DEF TypeOK, OtherTypes
  <2> QED
    BY SameTypes, <2>1, <2>2, <2>3 DEF TypeOK
<1>2. RowsMatch'
  BY DEF RowsMatch
<1>3. PlacesMatch'
  BY DEF PlacesMatch
<1>4. WayMatches'
  BY DEF WayMatches, RowsMatch, PlacesMatch
<1>5. SentMatches'
  BY DEF SentMatches, RowsMatch, PlacesMatch, WayMatches
<1>6. LeftMatches'
  BY DEF LeftMatches, RowsMatch, PlacesMatch, WayMatches
<1>7. DirectsMatch'
  BY DEF DirectsMatch, PlacesMatch
<1> QED  BY <1>1, <1>2, <1>3, <1>4, <1>5, <1>6, <1>7 DEF DeliveryInv

LEMMA ItemLeavesOkStep ==
    ASSUME DeliveryInv, ItemLeaves(TRUE)
    PROVE  DeliveryInv'
<1> USE Parts, SameMail DEF Places, ItemLeaves
<1>0. MailedOnce' /\ Mailed' = Mailed \ {turn.item} /\ mail' \in Seq(Item)
  BY MailWithout DEF PlacesMatch, TypeOK, MailTypes
<1> USE <1>0
<1>1. TypeOK'
  BY SameTypes DEF TypeOK, TurnTypes, MailTypes, OtherTypes
<1>2. RowsMatch'
  BY DEF RowsMatch
<1>3. PlacesMatch'
  BY DEF PlacesMatch
<1>4. WayMatches'
  BY DEF WayMatches, RowsMatch, PlacesMatch
<1>5. SentMatches'
  BY DEF SentMatches, RowsMatch, PlacesMatch, WayMatches
<1>6. LeftMatches'
  BY DEF LeftMatches, RowsMatch, PlacesMatch, WayMatches
<1>7. DirectsMatch'
  BY DEF DirectsMatch, PlacesMatch
<1> QED  BY <1>1, <1>2, <1>3, <1>4, <1>5, <1>6, <1>7 DEF DeliveryInv

LEMMA ItemLeavesNotStep ==
    ASSUME DeliveryInv, ItemLeaves(FALSE)
    PROVE  DeliveryInv'
<1> USE Parts, SameMail DEF Places, ItemLeaves
<1>1. TypeOK'
  <2>1. TurnTypes'
    BY SameTypes DEF TypeOK, TurnTypes
  <2>2. MailTypes'
    BY SameTypes DEF TypeOK, MailTypes, PlacesMatch
  <2>3. OtherTypes'
    BY SameTypes DEF TypeOK, OtherTypes
  <2> QED
    BY SameTypes, <2>1, <2>2, <2>3 DEF TypeOK
<1>2. RowsMatch'
  BY DEF RowsMatch
<1>3. PlacesMatch'
  BY DEF PlacesMatch
<1>4. WayMatches'
  BY DEF WayMatches, RowsMatch, PlacesMatch
<1>5. SentMatches'
  BY DEF SentMatches, RowsMatch, PlacesMatch, WayMatches
<1>6. LeftMatches'
  BY DEF LeftMatches, RowsMatch, PlacesMatch, WayMatches
<1>7. DirectsMatch'
  BY DEF DirectsMatch, PlacesMatch
<1> QED  BY <1>1, <1>2, <1>3, <1>4, <1>5, <1>6, <1>7 DEF DeliveryInv

LEMMA RetainedSettlesStep ==
    ASSUME DeliveryInv, NEW a \in Attempt, RetainedSettles(a)
    PROVE  DeliveryInv'
<1> USE Parts, SameMail DEF Places, RetainedSettles
<1>0. RowsType' /\ \A m \in Msg : IF rows[m].attempt = a
      /\ rows[m].status \in {"delivering", "uncertain"}
         THEN rows'[m].status = "delivered" /\ rows'[m].attempt = NoAttempt
           ELSE rows'[m] = rows[m]
  BY ConfirmedRows
<1> USE <1>0
<1>1. TypeOK'
  BY SameTypes DEF TypeOK, QueueTypes, OtherTypes, RowsType
<1>2. RowsMatch'
  BY DEF RowsMatch
<1>3. PlacesMatch'
  BY DEF PlacesMatch
<1>4. WayMatches'
  BY DEF WayMatches, RowsMatch, PlacesMatch
<1>5. SentMatches'
  BY DEF SentMatches, RowsMatch, PlacesMatch, WayMatches
<1>6. LeftMatches'
  BY DEF LeftMatches, RowsMatch, PlacesMatch, WayMatches
<1>7. DirectsMatch'
  BY DEF DirectsMatch, PlacesMatch
<1> QED  BY <1>1, <1>2, <1>3, <1>4, <1>5, <1>6, <1>7 DEF DeliveryInv
-----------------------------------------------------------------------------
(* Leases, crashes and the recovery.                                       *)

LEMMA LeaseTakenStep ==
    ASSUME DeliveryInv, LeaseTaken
    PROVE  DeliveryInv'
<1> USE Parts, SameMail DEF Places, LeaseTaken
<1>1. TypeOK'
  <2>1. DrainTypes'
    BY SameTypes DEF TypeOK, DrainTypes
  <2>2. MailTypes'
    BY SameTypes DEF TypeOK, MailTypes
  <2>3. DirectTypes'
    BY SameTypes DEF TypeOK, DirectTypes, DirectState
  <2>4. OtherTypes'
    BY SameTypes DEF TypeOK, OtherTypes
  <2> QED
    BY SameTypes, <2>1, <2>2, <2>3, <2>4 DEF TypeOK
<1>2. RowsMatch'
  BY DEF RowsMatch
<1>3. PlacesMatch'
  BY DEF PlacesMatch
<1>4. WayMatches'
  BY DEF WayMatches, RowsMatch, PlacesMatch
<1>5. SentMatches'
  BY DEF SentMatches, RowsMatch, PlacesMatch, WayMatches
<1>6. LeftMatches'
  BY DEF LeftMatches, RowsMatch, PlacesMatch, WayMatches
<1>7. DirectsMatch'
  BY DEF DirectsMatch, PlacesMatch
<1> QED  BY <1>1, <1>2, <1>3, <1>4, <1>5, <1>6, <1>7 DEF DeliveryInv

LEMMA CrashStep ==
    ASSUME DeliveryInv, Crash
    PROVE  DeliveryInv'
<1> USE Parts, SameMail DEF Places, Crash
<1> DEFINE cut == turn.phase \in {"run", "sent", "refused", "accepted", "ended",
                              "failed", "lost"}
<1>0a. /\ cut => turn # NoTurn /\ turn' = [NoTurn EXCEPT !.item = turn.item,
          !.phase = "lost"]
       /\ ~cut => turn' = NoTurn
  BY DEF Crash
<1>0c. checked' = 0 /\ 0 \in 0 .. MaxDrains /\ asked' = FALSE /\ batch' = NoBatch
  BY DEF Crash
<1>0. /\ cut => turn'.item = turn.item /\ turn'.phase = "lost" /\ turn # NoTurn
         /\ turn' # NoTurn /\ ~turn'.settling
      /\ live' = NoLive /\ batch' = NoBatch /\ retained' = {}
         /\ unremoved' = {} /\ server' = "turns" /\ live'.attempt = NoAttempt
            /\ batch'.attempt = NoAttempt /\ live'.phase = "none"
               /\ batch'.phase = "none"
  BY <1>0a
<1> USE <1>0, <1>0a, <1>0c
<1>1. TypeOK'
  <2>1. CallTypes'
    BY SameTypes DEF TypeOK, CallTypes, Msg
  <2>2. DrainTypes'
    BY <1>0c, NothingDrains
  <2>3. TurnTypes'
    BY SameTypes DEF TypeOK, TurnTypes
  <2>4. MailTypes'
    BY SameTypes DEF TypeOK, MailTypes
  <2>5. DirectTypes'
    BY SameTypes DEF TypeOK, DirectTypes, DirectState
  <2>6. OtherTypes'
    BY SameTypes DEF TypeOK, OtherTypes
  <2> QED
    BY SameTypes, <2>1, <2>2, <2>3, <2>4, <2>5, <2>6 DEF TypeOK
<1>2. RowsMatch'
  BY DEF RowsMatch
<1>3. PlacesMatch'
  BY DEF PlacesMatch
<1>4. WayMatches'
  BY DEF WayMatches, RowsMatch, PlacesMatch
<1>5. SentMatches'
  BY DEF SentMatches, RowsMatch, PlacesMatch, WayMatches
<1>6. LeftMatches'
  BY DEF LeftMatches, RowsMatch, PlacesMatch, WayMatches
<1>7. DirectsMatch'
  BY DEF DirectsMatch, PlacesMatch
<1> QED  BY <1>1, <1>2, <1>3, <1>4, <1>5, <1>6, <1>7 DEF DeliveryInv

LEMMA BootTurnsStep ==
    ASSUME DeliveryInv, BootTurns
    PROVE  DeliveryInv'
<1> USE Parts, SameMail DEF Places, BootTurns
<1>0. /\ turn.phase = "lost" => MailedOnce' /\ Mailed' = Mailed \ {turn.item}
         /\ mail' \in Seq(Item)
      /\ turn.phase # "lost" => turn = NoTurn /\ MailedOnce' /\ Mailed' = Mailed
      /\ turn.phase = "lost" => turn.item \in Mailed
  BY MailWithout DEF PlacesMatch, TypeOK, MailTypes, InMail, MailedOnce
<1> USE <1>0
<1>1. TypeOK'
  BY SameTypes DEF TypeOK, TurnTypes, MailTypes, DirectTypes, OtherTypes,
     DirectState
<1>2. RowsMatch'
  BY DEF RowsMatch
<1>3. PlacesMatch'
  BY DEF PlacesMatch
<1>4. WayMatches'
  BY DEF WayMatches, RowsMatch, PlacesMatch
<1>5. SentMatches'
  BY DEF SentMatches, RowsMatch, PlacesMatch, WayMatches
<1>6. LeftMatches'
  BY DEF LeftMatches, RowsMatch, PlacesMatch, WayMatches
<1>7. DirectsMatch'
  BY DEF DirectsMatch, PlacesMatch
<1> QED  BY <1>1, <1>2, <1>3, <1>4, <1>5, <1>6, <1>7 DEF DeliveryInv

LEMMA BootTellsRowsStep ==
    ASSUME DeliveryInv, NEW i \in Attempt, NEW ok \in BOOLEAN, BootTells(i, ok)
    PROVE  DeliveryInv'
<1> USE Parts, SameMail DEF Places, MayFail, Strands
<1>0a. /\ rows' = IF ok THEN MarkPending(rows, i) ELSE rows
       /\ turn = NoTurn /\ i \in Mailed /\ Spends(ok) /\ Strands(i, ok)
          /\ server = "unsent" /\ ~(i \in unremoved)
       /\ turn' = [NoTurn EXCEPT !.item = i, !.phase = "told"]
       /\ UNCHANGED <<mail, owner, callVars, drainVars, directVars, runner, rerun,
          unremoved, retained, server, reached, retries>>
  BY DEF BootTells, Mailed
<1>0b. Unsent(i) /\ turn'.item = i /\ turn'.phase = "told" /\ turn' # NoTurn
  BY <1>0a DEF SentMatches
<1>0. /\ ok => RowsType' /\ Settled(i, "pending")
      /\ ~ok => rows' = rows
  BY <1>0a, SettledRows
<1> USE <1>0, <1>0a, <1>0b DEF Settled
<1>1. TypeOK'
  <2>1. QueueTypes'
    BY SameTypes DEF TypeOK, QueueTypes, RowsType
  <2>2. TurnTypes'
    BY SameTypes DEF TypeOK, TurnTypes
  <2>3. DirectTypes'
    BY SameTypes DEF TypeOK, DirectTypes, DirectState
  <2>4. OtherTypes'
    BY SameTypes DEF TypeOK, OtherTypes
  <2> QED
    BY SameTypes, <2>1, <2>2, <2>3, <2>4 DEF TypeOK
<1>2. RowsMatch'
  BY DEF RowsMatch
<1>3. PlacesMatch'
  BY DEF PlacesMatch
<1>4. WayMatches'
  BY DEF WayMatches, RowsMatch, PlacesMatch
<1>5. SentMatches'
  BY DEF SentMatches, RowsMatch, PlacesMatch, WayMatches
<1>6. LeftMatches'
  BY DEF LeftMatches, RowsMatch, PlacesMatch, WayMatches
<1>7. DirectsMatch'
  BY DEF DirectsMatch, PlacesMatch
<1> QED  BY <1>1, <1>2, <1>3, <1>4, <1>5, <1>6, <1>7 DEF DeliveryInv

LEMMA BootTellsDirectStep ==
    ASSUME DeliveryInv, NEW i \in Direct, NEW ok \in BOOLEAN, BootTells(i, ok)
    PROVE  DeliveryInv'
<1> USE Parts, SameMail DEF Places
<1>0a. /\ HandsBack(i, ok) /\ back \in [Direct -> 0 .. MaxRows]
          /\ ~(i \in Attempt)
       /\ turn = NoTurn /\ i \in Mailed /\ server = "unsent" /\ ~(i \in unremoved)
       /\ turn' = [NoTurn EXCEPT !.item = i, !.phase = "told"]
       /\ UNCHANGED <<mail, owner, callVars, drainVars, runner, rerun, unremoved,
          retained, server, reached, retries, stranded>>
  BY DEF BootTells, Mailed, DirectTypes, TypeOK, MailTypes
<1>0. turn'.item = i /\ turn'.phase = "told" /\ turn' # NoTurn /\ HandedBack(i)
  BY <1>0a, HandsBackIs
<1> USE <1>0, <1>0a DEF HandedBack, OneRow
<1>1. TypeOK'
  BY SameTypes DEF TypeOK, QueueTypes, TurnTypes, DirectTypes, OtherTypes,
     DirectState, RowsType
<1>2. RowsMatch'
  BY DEF RowsMatch
<1>3. PlacesMatch'
  BY DEF PlacesMatch
<1>4. WayMatches'
  BY DEF WayMatches, RowsMatch, PlacesMatch
<1>5. SentMatches'
  BY DEF SentMatches, RowsMatch, PlacesMatch, WayMatches
<1>6. LeftMatches'
  BY DEF LeftMatches, RowsMatch, PlacesMatch, WayMatches
<1>7. DirectsMatch'
  BY DEF DirectsMatch, PlacesMatch
<1> QED  BY <1>1, <1>2, <1>3, <1>4, <1>5, <1>6, <1>7 DEF DeliveryInv

LEMMA BootQueueOkStep ==
    ASSUME DeliveryInv, BootQueue(TRUE)
    PROVE  DeliveryInv'
<1> USE Parts, SameMail DEF Places, BootQueue
<1>0. Mailed \subseteq unremoved /\ RowsType'
      /\ \A m \in Msg : IF rows[m].status = "delivering"
         THEN rows'[m].status = "uncertain"
           /\ rows'[m].attempt = rows[m].attempt ELSE rows'[m] = rows[m]
  BY RecoveredRows DEF Mailed
<1> USE <1>0
<1>1. TypeOK'
  <2>1. QueueTypes'
    BY SameTypes DEF TypeOK, QueueTypes, RowsType
  <2>2. DrainTypes'
    BY SameTypes DEF TypeOK, DrainTypes
  <2>3. OtherTypes'
    BY SameTypes DEF TypeOK, OtherTypes
  <2> QED
    BY SameTypes, <2>1, <2>2, <2>3 DEF TypeOK
<1>2. RowsMatch'
  BY DEF RowsMatch
<1>3. PlacesMatch'
  BY DEF PlacesMatch
<1>4. WayMatches'
  BY DEF WayMatches, RowsMatch, PlacesMatch
<1>5. SentMatches'
  BY DEF SentMatches, RowsMatch, PlacesMatch, WayMatches
<1>6. LeftMatches'
  BY DEF LeftMatches, RowsMatch, PlacesMatch, WayMatches
<1>7. DirectsMatch'
  BY DEF DirectsMatch, PlacesMatch
<1> QED  BY <1>1, <1>2, <1>3, <1>4, <1>5, <1>6, <1>7 DEF DeliveryInv

LEMMA BootQueueFaultStep ==
    ASSUME DeliveryInv, BootQueue(FALSE)
    PROVE  DeliveryInv'
<1> USE Parts, SameMail DEF Places, BootQueue
<1>0. Mailed \subseteq unremoved
  BY DEF Mailed
<1> USE <1>0
<1>1. TypeOK'
  <2>1. QueueTypes'
    BY SameTypes DEF TypeOK, QueueTypes, RowsType
  <2>2. DrainTypes'
    BY SameTypes DEF TypeOK, DrainTypes
  <2>3. OtherTypes'
    BY SameTypes DEF TypeOK, OtherTypes, RowsType, Row
  <2> QED
    BY SameTypes, <2>1, <2>2, <2>3 DEF TypeOK
<1>2. RowsMatch'
  BY DEF RowsMatch
<1>3. PlacesMatch'
  BY DEF PlacesMatch
<1>4. WayMatches'
  BY DEF WayMatches, RowsMatch, PlacesMatch
<1>5. SentMatches'
  BY DEF SentMatches, RowsMatch, PlacesMatch, WayMatches
<1>6. LeftMatches'
  BY DEF LeftMatches, RowsMatch, PlacesMatch, WayMatches
<1>7. DirectsMatch'
  BY DEF DirectsMatch, PlacesMatch
<1> QED  BY <1>1, <1>2, <1>3, <1>4, <1>5, <1>6, <1>7 DEF DeliveryInv
-----------------------------------------------------------------------------
(* The steps that move nothing the invariant speaks of.                    *)

LEMMA StillStep ==
    ASSUME DeliveryInv, TypeOK', server = "up",
           UNCHANGED <<queueVars, mail, turn, live, batch, retained, unremoved,
                       stranded, server, direct, used>>
    PROVE  DeliveryInv'
<1> USE Parts, SameMail DEF Places
<1>2. RowsMatch'
  BY DEF RowsMatch
<1>3. PlacesMatch'
  BY DEF PlacesMatch
<1>4. WayMatches'
  BY DEF WayMatches, RowsMatch, PlacesMatch
<1>5. SentMatches'
  BY DEF SentMatches, RowsMatch, PlacesMatch, WayMatches
<1>6. LeftMatches'
  BY DEF LeftMatches, RowsMatch, PlacesMatch, WayMatches
<1>7. DirectsMatch'
  BY DEF DirectsMatch, PlacesMatch
<1> QED  BY <1>2, <1>3, <1>4, <1>5, <1>6, <1>7 DEF DeliveryInv

LEMMA DispatchDeclinesStep ==
    ASSUME DeliveryInv, NEW m \in Msg, DispatchDeclines(m)
    PROVE  DeliveryInv'
<1> USE Parts DEF DispatchDeclines, DispatchEnds
<1>1. TypeOK'
  BY SameTypes DEF TypeOK, CallTypes, DrainTypes
<1> QED  BY <1>1, StillStep

LEMMA DrainLooksStep ==
    ASSUME DeliveryInv, DrainLooks
    PROVE  DeliveryInv'
<1> USE Parts DEF DrainLooks
<1>1. DrainTypes'
  <2>1. checked + 1 \in 0 .. MaxDrains \/ UNCHANGED checked
    BY DEF TypeOK, DrainTypes
  <2> QED  BY <2>1 DEF TypeOK, DrainTypes
<1>2. TypeOK'
  BY <1>1, SameTypes DEF TypeOK
<1> QED  BY <1>2, StillStep

LEMMA RunnerStopsStep ==
    ASSUME DeliveryInv, RunnerStops
    PROVE  DeliveryInv'
<1> USE Parts DEF RunnerStops
<1>1. TypeOK'
  BY SameTypes DEF TypeOK, MailTypes
<1>2. server = "up"
  BY DEF PlacesMatch
<1> QED  BY <1>1, <1>2, StillStep

LEMMA RunnerLeavesStep ==
    ASSUME DeliveryInv, NEW from \in {"ending", "lease"}, RunnerLeaves(from)
    PROVE  DeliveryInv'
<1> USE Parts DEF RunnerLeaves
<1>1. TypeOK'
  BY SameTypes DEF TypeOK, MailTypes, DrainTypes
<1>2. server = "up"
  BY DEF PlacesMatch
<1> QED  BY <1>1, <1>2, StillStep

LEMMA OwnerStep ==
    ASSUME DeliveryInv, LeaseClaims \/ OwnerLeaves
    PROVE  DeliveryInv'
<1> USE Parts DEF LeaseClaims, OwnerLeaves
<1>1. TypeOK'
  BY SameTypes DEF TypeOK, DrainTypes, OtherTypes
<1>2. server = "up"
  BY DEF PlacesMatch
<1> QED  BY <1>1, <1>2, StillStep
-----------------------------------------------------------------------------
(* The theorems.                                                           *)

LEMMA InitInv == Init => DeliveryInv
<1> SUFFICES ASSUME Init PROVE DeliveryInv
  OBVIOUS
<1> USE DEF Init
<1>1. QueueTypes
  BY ZeroCount DEF QueueTypes, Row, Status, Kind
<1>2. CallTypes /\ DrainTypes /\ TurnTypes
  <2>1. 0 \in 0 .. MaxDrains /\ 0 \in 0 .. MaxRows
    OBVIOUS
  <2>2. CallTypes
    BY <2>1 DEF CallTypes
  <2>3. DrainTypes
    BY <2>1 DEF DrainTypes
  <2> QED  BY <2>2, <2>3 DEF TurnTypes
<1>3. MailTypes /\ DirectTypes /\ OtherTypes
  <2>1. MailTypes
    BY EmptyMail DEF MailTypes
  <2>2. DirectTypes
    BY DEF DirectTypes, DirectState
  <2> QED  BY <2>1, <2>2 DEF OtherTypes
<1>4. Mailed = {} /\ MailedOnce
  BY DEF Mailed, MailedOnce
<1>5. RowsMatch
  BY DEF RowsMatch
<1>6. PlacesMatch
  BY <1>4 DEF PlacesMatch
<1>7. WayMatches /\ SentMatches /\ LeftMatches
  BY <1>4 DEF WayMatches, SentMatches, LeftMatches
<1>8. DirectsMatch
  BY <1>4 DEF DirectsMatch
<1> QED
  BY <1>1, <1>2, <1>3, <1>5, <1>6, <1>7, <1>8 DEF DeliveryInv, TypeOK

LEMMA NextInv ==
    ASSUME DeliveryInv, [Next]_vars
    PROVE  DeliveryInv'
<1>1. ASSUME Queueing PROVE DeliveryInv'
  BY <1>1, EnqueueStep, CancelStep, RetryStep, DiscardStep DEF Queueing
<1>2. ASSUME Dispatching PROVE DeliveryInv'
  <2>1. ASSUME NEW m \in Msg, DispatchDeclines(m) \/ DispatchAccepts(m)
        PROVE  DeliveryInv'
    BY <2>1, DispatchDeclinesStep, DispatchAcceptsStep
  <2>2. ASSUME NEW a \in Fresh, NEW allow \in BOOLEAN, LiveClaims(a, allow)
        PROVE  DeliveryInv'
    BY <2>2, LiveClaimsYesStep, LiveClaimsNoStep
  <2>3. ASSUME NEW b \in BOOLEAN,
               LiveReturns(b) \/ LiveSends(b) \/ LiveRefused(b)
                 \/ LiveUncertain(b)
        PROVE  DeliveryInv'
    BY <2>3, LiveReturnsStep, LiveSendsStep, LiveRefusedStep, LiveUncertainStep
  <2>4. ASSUME NEW b \in BOOLEAN, LiveAccepted(b)
        PROVE  DeliveryInv'
    BY <2>4, LiveAcceptedOkStep, LiveAcceptedFaultStep
  <2> QED  BY <1>2, <2>1, <2>2, <2>3, <2>4, LiveJoinsStep DEF Dispatching
<1>3. ASSUME Draining PROVE DeliveryInv'
  <2>1. ASSUME NEW a \in Fresh, NEW allow \in BOOLEAN, DrainClaims(a, allow)
        PROVE  DeliveryInv'
    BY <2>1, DrainClaimsYesStep, DrainClaimsNoStep
  <2>2. ASSUME NEW ok \in BOOLEAN, NEW fault \in {0, 1}, BatchReturns(fault, ok)
        PROVE  DeliveryInv'
    BY <2>2, BatchReturnsStep
  <2>3. ASSUME NEW done \in BOOLEAN, NEW ok \in BOOLEAN, CommandEnds(done, ok)
        PROVE  DeliveryInv'
    BY <2>3, CommandEndsStep
  <2> QED
    BY <1>3, <2>1, <2>2, <2>3, DrainLooksStep, CommandRunsStep, BatchReadsStep,
       BatchPassesStep, BatchHandedOverStep DEF Draining
<1>4. ASSUME Sending PROVE DeliveryInv'
  BY <1>4, DirectReadsStep, DirectRefusedStep, DirectPassesStep, DirectMailedStep
     DEF Sending
<1>5. ASSUME Running PROVE DeliveryInv'
  <2>1. ASSUME NEW i \in Item, NEW ok \in BOOLEAN, TurnHeld(i, ok)
        PROVE  DeliveryInv'
    BY <2>1, TurnHeldStep DEF TurnHeld
  <2>2. ASSUME NEW i \in Item, NEW ok \in BOOLEAN, RemoveAgain(i, ok)
        PROVE  DeliveryInv'
    BY <2>2, RemoveAgainOkStep, RemoveAgainNotStep
  <2>3. ASSUME NEW b \in BOOLEAN, TurnAccepted(b)
        PROVE  DeliveryInv'
    BY <2>3, TurnAcceptedOkStep, TurnAcceptedFaultStep, TurnAcceptedDirectStep
  <2>4. ASSUME NEW b \in BOOLEAN, ItemLeaves(b)
        PROVE  DeliveryInv'
    BY <2>4, ItemLeavesOkStep, ItemLeavesNotStep
  <2>5. ASSUME NEW b \in BOOLEAN, TurnNotStarted(b) \/ TurnSends(b)
        \/ TurnSettles(b) \/ TurnNotConsumed(b)
        PROVE  DeliveryInv'
    BY <2>5, TurnNotStartedStep, TurnSendsStep, TurnSettlesStep,
       TurnNotConsumedStep
  <2>6. ASSUME NEW a \in retained, RetainedSettles(a)
        PROVE  DeliveryInv'
    BY <2>6, RetainedSettlesStep, Parts DEF Places
  <2>7. ASSUME RunnerGone PROVE DeliveryInv'
    BY <2>7, RunnerLeavesStep DEF RunnerGone
  <2> QED
    BY <1>5, <2>1, <2>2, <2>3, <2>4, <2>5, <2>6, <2>7, TurnOpensStep,
       TurnAdmittedStep, TurnRefusedStep, TurnEndsStep, TurnConsumedStep,
       RunnerStopsStep DEF Running
<1>6. ASSUME Leasing PROVE DeliveryInv'
  BY <1>6, LeaseTakenStep, OwnerStep, RunnerLeavesStep DEF Leasing, LeaseReleased
<1>7. ASSUME Booting PROVE DeliveryInv'
  <2>1. ASSUME NEW i \in Item, NEW ok \in BOOLEAN, BootTells(i, ok)
        PROVE  DeliveryInv'
    BY <2>1, BootTellsRowsStep, BootTellsDirectStep
  <2>2. ASSUME NEW ok \in BOOLEAN, BootQueue(ok)
        PROVE  DeliveryInv'
    BY <2>2, BootQueueOkStep, BootQueueFaultStep
  <2> QED  BY <1>7, <2>1, <2>2, BootTurnsStep DEF Booting
<1>8. ASSUME UNCHANGED vars PROVE DeliveryInv'
  <2> USE <1>8, Parts, SameMail DEF vars
  <2>1. TypeOK'
    BY SameTypes DEF TypeOK
  <2>2. RowsMatch' /\ PlacesMatch'
    BY DEF RowsMatch, PlacesMatch
  <2>3. WayMatches' /\ SentMatches'
    BY DEF WayMatches, SentMatches
  <2>4. LeftMatches' /\ DirectsMatch'
    BY DEF LeftMatches, DirectsMatch
  <2> QED  BY <2>1, <2>2, <2>3, <2>4 DEF DeliveryInv
<1> QED
  BY <1>1, <1>2, <1>3, <1>4, <1>5, <1>6, <1>7, <1>8, CrashStep DEF Next

(***************************************************************************)
(* The queue, the mailbox, the turn and the attempts always agree: each    *)
(* attempt is in one place, its rows say what became of it, and what has   *)
(* reached the agent is known, whatever crashes, faults and retries occur. *)
(***************************************************************************)
THEOREM DeliveryInvariant == Spec => []DeliveryInv
<1>1. Init => DeliveryInv
  BY InitInv
<1>2. DeliveryInv /\ [Next]_vars => DeliveryInv'
  BY NextInv
<1> QED  BY <1>1, <1>2, PTL DEF Spec

(***************************************************************************)
(* No message reaches the agent twice unless a person asked for it again:  *)
(* a row the queue may send by itself has not been seen by the agent.      *)
(***************************************************************************)
THEOREM NothingIsSentTwice == Spec => []OfferedIsUnsent
<1>1. DeliveryInv => OfferedIsUnsent
  BY DEF DeliveryInv, RowsMatch, OfferedIsUnsent
<1> QED  BY <1>1, DeliveryInvariant, PTL

(***************************************************************************)
(* Every claim has an owner: rows being delivered belong to one attempt    *)
(* that some part of the server answers for.                               *)
(***************************************************************************)
THEOREM ClaimsHaveOwners == Spec => []ClaimHasOwner
<1>1. DeliveryInv => ClaimHasOwner
  <2> SUFFICES ASSUME DeliveryInv PROVE ClaimHasOwner
    OBVIOUS
  <2>1. ASSUME NEW m \in Msg, rows[m].status = "delivering"
        PROVE  rows[m].attempt \in Attempt /\ Out(rows[m].attempt)
    BY <2>1, Parts DEF Places, RowsType, Row, RowsMatch
  <2> QED
    BY <2>1, Parts DEF RowsMatch, LeftMatches, ClaimHasOwner
<1> QED  BY <1>1, DeliveryInvariant, PTL

-----------------------------------------------------------------------------
(* Direct messages.                                                        *)

\* One that had its turn keeps it, and one that leaves the mailbox has been
\* answered.
DirectKept ==
  \A d \in Direct :
    /\ direct[d] \in {"taken", "ended"} => direct'[d] \in {"taken", "ended"}
    /\ InMail(d) /\ ~InMail(d)' =>
         \/ direct'[d] \in {"taken", "ended", "told", "handed"}
         \/ direct'[d] = "lost" /\ used'.faults > 0

LEMMA QuietForDirects ==
    ASSUME UNCHANGED direct, Mailed \subseteq Mailed'
    PROVE  DirectKept
BY DEF DirectKept

LEMMA SendingKeeps ==
    ASSUME DeliveryInv, Sending
    PROVE  DirectKept
<1> USE Parts DEF Places
<1>1. PICK d \in Direct : \/ DirectReads(d) \/ DirectRefused(d)
                          \/ DirectPasses(d) \/ DirectMailed(d)
  BY DEF Sending
<1>2. /\ direct[d] \in {"idle", "read", "stale", "passed"}
      /\ \A e \in Direct : e # d => direct'[e] = direct[e]
  BY <1>1 DEF DirectReads, DirectRefused, DirectPasses, DirectMailed, Advance
<1>3. Mailed \subseteq Mailed'
  <2>1. CASE DirectMailed(d)
    <3>1. ~InMail(d)
      BY <1>2 DEF DirectsMatch
    <3> QED
      BY <2>1, <3>1, MailAppended DEF PlacesMatch, TypeOK, MailTypes, DirectMailed
  <2>2. CASE ~DirectMailed(d)
    BY <1>1, <2>2, SameMail DEF DirectReads, DirectRefused, DirectPasses
  <2> QED  BY <2>1, <2>2
<1> QED  BY <1>2, <1>3 DEF DirectKept

LEMMA RunningKeeps ==
    ASSUME DeliveryInv, Running
    PROVE  DirectKept
<1> USE Parts DEF Places
<1>1. ASSUME NEW i \in Item, NEW ok \in BOOLEAN, TurnHeld(i, ok)
      PROVE  DirectKept
  <2>1. 1 \in DOMAIN mail /\ turn = NoTurn /\ i = mail[1]
    BY <1>1 DEF TurnHeld, Takes, TypeOK, MailTypes
  <2>2. i \in Direct /\ InMail(i) /\ UNCHANGED mail
        /\ \A e \in Direct : e # i => direct'[e] = direct[e]
    BY <1>1, <2>1 DEF TurnHeld, HandsBack, Mailed
  <2>3. direct[i] \notin {"taken", "ended"}
    BY <2>1, <2>2 DEF DirectsMatch
  <2> QED  BY <2>2, <2>3, SameMail DEF DirectKept
<1>2. ASSUME NEW i \in Item, NEW ok \in BOOLEAN, RemoveAgain(i, ok)
      PROVE  DirectKept
  <2>1. UNCHANGED direct /\ i \in unremoved
        /\ used'.faults \in Nat /\ used'.faults >= used.faults
    BY <1>2 DEF RemoveAgain
  <2>2. Mailed \ {i} \subseteq Mailed'
    BY <1>2, SameMail, MailWithout
       DEF RemoveAgain, PlacesMatch, TypeOK, MailTypes
  <2>3. i \in Direct => direct[i] \in {"told", "handed", "lost"}
                        /\ (direct[i] = "lost" => used.faults > 0)
    BY <2>1 DEF DirectsMatch
  <2> QED  BY <2>1, <2>2, <2>3 DEF DirectKept
<1>3. ASSUME NEW b \in BOOLEAN, ItemLeaves(b)
      PROVE  DirectKept
  <2>1. UNCHANGED direct /\ turn.phase \in {"failed", "told"} /\ InMail(turn.item)
        /\ used'.faults \in Nat /\ used'.faults >= used.faults
    BY <1>3 DEF ItemLeaves, PlacesMatch
  <2>2. Mailed \ {turn.item} \subseteq Mailed'
    BY <1>3, <2>1, SameMail, MailWithout
       DEF ItemLeaves, PlacesMatch, TypeOK, MailTypes
  <2>3. turn.item \in Direct =>
          direct[turn.item] \in {"told", "handed", "lost", "ended"}
          /\ (direct[turn.item] = "lost" => used.faults > 0)
    BY <2>1 DEF DirectsMatch
  <2> QED  BY <2>1, <2>2, <2>3 DEF DirectKept
<1>4. ASSUME TurnConsumed
      PROVE  DirectKept
  <2>1. UNCHANGED direct /\ turn.phase = "ended" /\ InMail(turn.item)
    BY <1>4 DEF TurnConsumed, PlacesMatch
  <2>2. Mailed \ {turn.item} \subseteq Mailed'
    BY <1>4, <2>1, MailWithout DEF TurnConsumed, PlacesMatch, TypeOK, MailTypes
  <2>3. turn.item \in Direct => direct[turn.item] = "ended"
    BY <2>1 DEF DirectsMatch
  <2> QED  BY <2>1, <2>2, <2>3 DEF DirectKept
<1>5. ASSUME NEW b \in BOOLEAN, TurnNotStarted(b)
      PROVE  DirectKept
  <2>1. UNCHANGED mail /\ turn.phase = "open" /\ InMail(turn.item)
        /\ \A e \in Direct : e # turn.item => direct'[e] = direct[e]
    BY <1>5 DEF TurnNotStarted, PlacesMatch
  <2>2. turn.item \in Direct => direct[turn.item] \notin {"taken", "ended"}
    BY <2>1 DEF DirectsMatch
  <2> QED  BY <2>1, <2>2, SameMail DEF DirectKept
<1>6. ASSUME NEW b \in BOOLEAN, TurnSends(b) \/ TurnSettles(b)
      PROVE  DirectKept
  <2>1. UNCHANGED mail /\ \A e \in Direct :
          direct'[e] \in {direct[e], "taken", "ended"}
    BY <1>6 DEF TurnSends, TurnSettles
  <2> QED  BY <2>1, SameMail DEF DirectKept
<1>7. ASSUME NEW i \in Item, TurnOpens(i) PROVE DirectKept
  BY <1>7, SameMail, QuietForDirects DEF TurnOpens
<1>8. ASSUME NEW b \in BOOLEAN, TurnAccepted(b) \/ TurnNotConsumed(b)
      PROVE  DirectKept
  BY <1>8, SameMail, QuietForDirects DEF TurnAccepted, TurnNotConsumed
<1>9. ASSUME TurnAdmitted \/ TurnRefused \/ TurnEnds PROVE DirectKept
  BY <1>9, SameMail, QuietForDirects DEF TurnAdmitted, TurnRefused, TurnEnds
<1>10. ASSUME RunnerStops \/ RunnerGone PROVE DirectKept
  BY <1>10, SameMail, QuietForDirects DEF RunnerStops, RunnerGone, RunnerLeaves
<1>11. ASSUME NEW a \in retained, RetainedSettles(a) PROVE DirectKept
  BY <1>11, SameMail, QuietForDirects DEF RetainedSettles
<1> QED
  BY <1>1, <1>2, <1>3, <1>4, <1>5, <1>6, <1>7, <1>8, <1>9, <1>10, <1>11
     DEF Running

LEMMA BootingKeeps ==
    ASSUME DeliveryInv, Booting
    PROVE  DirectKept
<1> USE Parts DEF Places
<1>1. ASSUME BootTurns PROVE DirectKept
  <2>1. CASE turn.phase = "lost"
    <3>1. InMail(turn.item) /\ mail' = Without(turn.item)
      BY <1>1, <2>1 DEF BootTurns, PlacesMatch
    <3>2. Mailed \ {turn.item} \subseteq Mailed'
      BY <3>1, MailWithout DEF PlacesMatch, TypeOK, MailTypes
    <3>3. /\ turn.item \in Direct => direct'[turn.item] = "ended"
          /\ \A e \in Direct : e # turn.item => direct'[e] = direct[e]
      BY <1>1 DEF BootTurns
    <3> QED  BY <3>2, <3>3 DEF DirectKept
  <2>2. CASE turn.phase # "lost"
    <3>1. UNCHANGED <<mail, direct>>
      BY <1>1, <2>2 DEF BootTurns, PlacesMatch
    <3> QED  BY <3>1, SameMail, QuietForDirects
  <2> QED  BY <2>1, <2>2
<1>2. ASSUME NEW ok \in BOOLEAN, BootQueue(ok) PROVE DirectKept
  BY <1>2, SameMail, QuietForDirects DEF BootQueue
<1>3. ASSUME NEW i \in Item, NEW ok \in BOOLEAN, BootTells(i, ok) PROVE DirectKept
  <2>1. CASE i \in Attempt
    BY <1>3, <2>1, SameMail, QuietForDirects DEF BootTells
  <2>2. CASE i \notin Attempt
    <3>1. /\ i \in Direct /\ InMail(i) /\ turn = NoTurn /\ UNCHANGED mail
          /\ \A e \in Direct : e # i => direct'[e] = direct[e]
      BY <1>3, <2>2 DEF BootTells, HandsBack, Mailed
    <3>2. direct[i] \notin {"taken", "ended"}
      BY <3>1 DEF DirectsMatch
    <3> QED  BY <3>1, <3>2, SameMail DEF DirectKept
  <2> QED  BY <2>1, <2>2
<1> QED  BY <1>1, <1>2, <1>3 DEF Booting

LEMMA NextKeepsDirects ==
    ASSUME DeliveryInv, [Next]_vars
    PROVE  DirectKept
<1> USE Parts DEF Places
<1>1. ASSUME Queueing PROVE DirectKept
  BY <1>1, SameMail, QuietForDirects DEF Queueing, Enqueue, Cancel, Retry, Discard
<1>2. ASSUME Dispatching PROVE DirectKept
  <2>1. UNCHANGED <<mail, direct>>
    BY <1>2 DEF Dispatching, DispatchDeclines, DispatchAccepts, LiveClaims,
       LiveJoins,
                LiveReturns, LiveSends, LiveRefused, LiveAccepted, LiveUncertain
  <2> QED  BY <2>1, SameMail, QuietForDirects
<1>3. ASSUME Draining PROVE DirectKept
  <2>1. CASE BatchHandedOver
    <3>1. batch.attempt \in Item /\ ~InMail(batch.attempt)
      BY <2>1 DEF BatchHandedOver, PlacesMatch
    <3> QED
      BY <2>1, <3>1, MailAppended, QuietForDirects
         DEF BatchHandedOver, PlacesMatch, TypeOK, MailTypes
  <2>2. CASE ~BatchHandedOver
    <3>1. UNCHANGED <<mail, direct>>
      BY <1>3, <2>2 DEF Draining, DrainLooks, DrainClaims, CommandRuns,
         CommandEnds,
                        BatchReads, BatchPasses, BatchReturns
    <3> QED  BY <3>1, SameMail, QuietForDirects
  <2> QED  BY <2>1, <2>2
<1>4. ASSUME Leasing PROVE DirectKept
  <2>1. UNCHANGED mail /\ \A d \in Direct :
          direct[d] \in {"taken", "ended"} => direct'[d] = direct[d]
    BY <1>4 DEF Leasing, LeaseTaken, LeaseClaims, LeaseReleased, OwnerLeaves,
                RunnerLeaves
  <2> QED  BY <2>1, SameMail DEF DirectKept
<1>5. ASSUME Crash PROVE DirectKept
  <2>1. UNCHANGED mail /\ \A d \in Direct :
          direct[d] \in {"taken", "ended"} => direct'[d] = direct[d]
    BY <1>5 DEF Crash
  <2> QED  BY <2>1, SameMail DEF DirectKept
<1>6. ASSUME UNCHANGED vars PROVE DirectKept
  BY <1>6, SameMail, QuietForDirects DEF vars
<1> QED
  BY <1>1, <1>2, <1>3, <1>4, <1>5, <1>6, SendingKeeps, RunningKeeps, BootingKeeps
     DEF Next

(***************************************************************************)
(* A person's direct message never vanishes: it leaves the mailbox only    *)
(* after its turn, or its sender was told, or it was handed back, or the   *)
(* write that would have handed it back failed; and one whose turn has     *)
(* begun is never handed back.                                             *)
(***************************************************************************)
THEOREM DirectMessagesAnswered == Spec => DirectsAnswered
<1>1. DeliveryInv /\ [Next]_vars => [DirectKept]_vars
  BY NextKeepsDirects
<1> QED  BY <1>1, DeliveryInvariant, PTL DEF Spec, DirectsAnswered, DirectKept
-----------------------------------------------------------------------------
(* No wake-up is lost.  A waiting row of a conversation at rest is behind   *)
(* one under review, and whatever resolves that one asks for a drain.       *)

Waits(m) == rows[m].status = "pending" /\ Ordinary(rows[m])
Calm == Blocked(rows) \/ \A m \in Msg : ~Waits(m)

\* Without failed writes nothing is owed, a live delivery has its dispatch, and
\* only a runner has a turn.
WakeInv ==
  /\ used.faults = 0 => retained = {}
  /\ live.phase # "none" => live.msg \in todo
  /\ server = "up" /\ turn # NoTurn => runner = "loop"
  /\ AtRest /\ used.faults = 0 => Calm

LEMMA FirstMessage ==
    ASSUME NEW S \in SUBSET Msg, S # {}
    PROVE  \E h \in S : IsFirst(h, S)
<1>1. S \subseteq Nat /\ \A m \in S : m \in Int
  BY QueueAssumption DEF Msg
<1>2. PICK h \in S : \A n \in S : ~(<<n, h>> \in OpToRel(<, Nat))
  BY <1>1, NatLessThanWellFounded, WFMin
<1>3. ASSUME NEW n \in S, n < h PROVE FALSE
  <2>1. n \in Nat /\ h \in Nat
    BY <1>1
  <2>2. <<n, h>> \in OpToRel(<, Nat)
    BY <1>3, <2>1 DEF OpToRel
  <2> QED  BY <1>2, <2>2
<1>4. \A n \in S : h <= n
  BY <1>1, <1>3
<1> QED  BY <1>4 DEF IsFirst

\* A drain that finds nothing to claim leaves nothing that could go.
LEMMA DrainCalms ==
    ASSUME RowsType, NEW allow \in BOOLEAN, NEW a, NextBatch(rows, allow) = {},
           rows' = ClaimNextBatch(rows, a, allow)
    PROVE  Calm'
<1> USE DEF Calm, RowsType
<1>1. CASE Blocked(rows)
  BY <1>1 DEF ClaimNextBatch
<1>2. CASE ~Blocked(rows)
  <2> DEFINE s == HeldAtCap(rows)
  <2>1. rows' = s
    BY <1>2 DEF ClaimNextBatch, HeldAtCap
  <2>2. CASE \E m \in Msg : Capped(rows[m]) /\ Ordinary(rows[m])
    <3>1. PICK m \in Msg : Capped(rows[m]) /\ Ordinary(rows[m])
      BY <2>2
    <3>2. s[m] = Failed(rows[m])
      BY <3>1 DEF HeldAtCap
    <3>3. s[m].status = "failed" /\ Ordinary(s[m])
      BY <3>1, <3>2 DEF Failed, Ordinary, Row
    <3> QED  BY <2>1, <3>3 DEF Blocked, BlocksOrdinary, Review
  <2>3. CASE ~\E m \in Msg : Capped(rows[m]) /\ Ordinary(rows[m])
    <3> DEFINE E == Eligible(s, WakesAllowed(s, allow))
    <3>1. BatchFrom(s, E) = {}
      BY <1>2, <2>3 DEF NextBatch
    <3>2. E \in SUBSET Msg
      BY DEF Eligible
    <3>3. E = {}
      <4> HIDE DEF E, s
      <4>1. ASSUME E # {} PROVE FALSE
        <5>1. PICK h \in E : IsFirst(h, E)
          BY <3>2, <4>1, FirstMessage
        <5>2. h \in BatchFrom(s, E)
          BY <5>1 DEF BatchFrom
        <5> QED  BY <3>1, <5>2
      <4> QED  BY <4>1
    <3> QED  BY <2>1, <3>3 DEF Eligible, Waits
  <2> QED  BY <2>2, <2>3
<1> QED  BY <1>1, <1>2

LEMMA CalmHoldsAll == ASSUME Calm PROVE ~Claimable
<1>1. ASSUME Claimable PROVE FALSE
  <2>1. /\ ~Blocked(rows)
        /\ ~\E m \in Msg : Capped(rows[m]) /\ Ordinary(rows[m])
        /\ BatchFrom(HeldAtCap(rows),
              Eligible(HeldAtCap(rows), WakesAllowed(HeldAtCap(rows), FALSE))) # {}
    BY <1>1 DEF Claimable, NextBatch
  <2>2. PICK m \in Eligible(HeldAtCap(rows), WakesAllowed(HeldAtCap(rows), FALSE)) :
          TRUE
    BY <2>1 DEF BatchFrom
  <2>3. /\ m \in Msg /\ HeldAtCap(rows)[m].status = "pending"
        /\ Ordinary(HeldAtCap(rows)[m])
    BY <2>2 DEF Eligible, WakesAllowed
  <2>4. HeldAtCap(rows)[m] = IF Capped(rows[m]) THEN Failed(rows[m]) ELSE rows[m]
    BY <2>3 DEF HeldAtCap
  <2>5. CASE Capped(rows[m])
    <3>1. ~Ordinary(rows[m]) /\ HeldAtCap(rows)[m] = Failed(rows[m])
      BY <2>1, <2>3, <2>4, <2>5
    <3> QED  BY <2>3, <3>1 DEF Failed, Ordinary, Capped
  <2>6. CASE ~Capped(rows[m])
    BY <2>1, <2>3, <2>4, <2>6 DEF Calm, Waits
  <2> QED  BY <2>5, <2>6
<1> QED  BY <1>1

\* A cancelled row was in nobody's way.
LEMMA CancelCalm ==
    ASSUME RowsType, Calm, NEW m \in Msg, Cancel(m)
    PROVE  Calm'
<1>1. rows[m].status = "pending" /\ rows'[m].status = "cancelled"
      /\ \A n \in Msg : n # m => rows'[n] = rows[n]
  BY DEF Cancel, Pruned, RowsType, Row
<1> QED
  BY <1>1 DEF Calm, Waits, Blocked, BlocksOrdinary, Review, Ordinary

LEMMA QueueingWakes ==
    ASSUME DeliveryInv, WakeInv, Queueing
    PROVE  WakeInv'
<1>1. CASE \E m \in Msg : Cancel(m)
  <2>1. PICK m \in Msg : Cancel(m)
    BY <1>1
  <2>2. RowsType
    BY DEF DeliveryInv, TypeOK, QueueTypes, RowsType
  <2> QED  BY <2>1, <2>2, CancelCalm DEF WakeInv, AtRest, Cancel, callVars, drainVars
<1>2. CASE \E m \in Msg : \/ \E offer \in Offer : Enqueue(m, offer)
                          \/ Retry(m) \/ Discard(m)
  BY <1>2 DEF WakeInv, AtRest, Enqueue, Retry, Discard, callVars, drainVars
<1> QED  BY <1>1, <1>2 DEF Queueing

\* A dispatch asks for a drain when it ends, and is one until then.
DispatchGoesOn ==
  \/ live'.phase = "none" /\ asked'
  \/ live'.msg \in todo /\ todo' = todo

LEMMA DispatchBegins ==
    ASSUME CallTypes, NEW m \in Msg, DispatchDeclines(m) \/ DispatchAccepts(m)
    PROVE  DispatchGoesOn
<1>1. CASE DispatchDeclines(m)
  BY <1>1 DEF DispatchDeclines, DispatchEnds, NoLive, DispatchGoesOn
<1>2. CASE DispatchAccepts(m)
  BY <1>2 DEF DispatchAccepts, IsFirst, NoLive, DispatchGoesOn
<1> QED  BY <1>1, <1>2

LEMMA DispatchClaims ==
    ASSUME CallTypes, live.phase # "none" => live.msg \in todo,
           NEW a, NEW allow \in BOOLEAN, LiveClaims(a, allow)
    PROVE  DispatchGoesOn
<1>1. CASE ClaimsLive(rows, live.msg, allow)
  BY <1>1 DEF LiveClaims, CallTypes, DispatchGoesOn
<1>2. CASE ~ClaimsLive(rows, live.msg, allow)
  BY <1>2 DEF LiveClaims, DispatchEnds, NoLive, DispatchGoesOn
<1> QED  BY <1>1, <1>2

LEMMA DispatchingWakes ==
    ASSUME DeliveryInv, WakeInv, Dispatching
    PROVE  WakeInv'
<1> USE DEF DeliveryInv, TypeOK, OtherTypes, CallTypes, WakeInv, AtRest,
            DispatchEnds, DispatchThrows, NoLive, drainVars, queueVars
<1>1. ASSUME NEW m \in Msg, DispatchDeclines(m) \/ DispatchAccepts(m) PROVE WakeInv'
  <2>1. /\ UNCHANGED <<used, retained, server, turn, runner>>
    BY <1>1 DEF DispatchDeclines, DispatchAccepts
  <2>2. DispatchGoesOn
    BY <1>1, DispatchBegins
  <2> QED  BY <2>1, <2>2 DEF DispatchGoesOn
<1>2. ASSUME NEW a, NEW allow \in BOOLEAN, LiveClaims(a, allow) PROVE WakeInv'
  <2>1. /\ UNCHANGED <<used, retained, server, turn, runner>>
    BY <1>2 DEF LiveClaims
  <2>2. DispatchGoesOn
    BY <1>2, DispatchClaims
  <2> QED  BY <2>1, <2>2 DEF DispatchGoesOn
<1>3. CASE LiveJoins
  BY <1>3 DEF LiveJoins
<1>4. ASSUME NEW b \in BOOLEAN, LiveReturns(b) \/ LiveRefused(b) \/ LiveUncertain(b)
      PROVE  WakeInv'
  BY <1>4 DEF LiveReturns, LiveRefused, LiveUncertain, Spends
<1>5. ASSUME NEW b \in BOOLEAN, LiveSends(b) PROVE WakeInv'
  BY <1>5 DEF LiveSends
<1>6. ASSUME NEW b \in BOOLEAN, LiveAccepted(b) PROVE WakeInv'
  BY <1>6 DEF LiveAccepted, Releases, Spends
<1> QED  BY <1>1, <1>2, <1>3, <1>4, <1>5, <1>6 DEF Dispatching

\* A drain that found the conversation busy leaves it to what made it so.
LEMMA DrainingWakes ==
    ASSUME DeliveryInv, WakeInv, Draining
    PROVE  WakeInv'
<1> USE DEF DeliveryInv, TypeOK, OtherTypes, DrainTypes, MailTypes, WakeInv,
            AtRest, Busy, callVars, queueVars
<1>1. CASE DrainLooks
  BY <1>1, DeliveryAssumption DEF DrainLooks
<1>2. ASSUME NEW a \in Fresh, NEW allow \in BOOLEAN, DrainClaims(a, allow)
      PROVE  WakeInv'
  <2>1. /\ UNCHANGED <<used, retained, todo, live, server, turn, runner>>
        /\ rows' = ClaimNextBatch(rows, a, allow)
        /\ batch' = NoBatch => NextBatch(rows, allow) = {}
    BY <1>2, FreshIs, QueueAssumption DEF DrainClaims, NoBatch
  <2>2. RowsType
    BY DEF QueueTypes, RowsType
  <2>3. AtRest' => Calm'
    BY <2>1, <2>2, DrainCalms
  <2> QED  BY <2>1, <2>3
<1>3. CASE CommandRuns
  BY <1>3 DEF CommandRuns, NoBatch
<1>4. ASSUME NEW done \in BOOLEAN, NEW ok \in BOOLEAN, CommandEnds(done, ok)
      PROVE  WakeInv'
  BY <1>4, DeliveryAssumption DEF CommandEnds, Spends
<1>5. CASE BatchReads \/ BatchPasses
  <2>1. /\ UNCHANGED <<used, retained, todo, live, server, turn, runner>>
        /\ batch'.phase \in {"read", "passed", "claimed"}
    BY <1>5 DEF BatchReads, BatchPasses
  <2>2. batch' # NoBatch
    BY <2>1 DEF NoBatch
  <2> QED  BY <2>1, <2>2
<1>6. CASE BatchHandedOver
  <2>1. mail' # <<>>
    BY <1>6, MailAppended DEF BatchHandedOver, PlacesMatch
  <2> QED  BY <1>6, <2>1 DEF BatchHandedOver, Wake, PlacesMatch
<1>7. ASSUME NEW ok \in BOOLEAN, NEW fault \in {0, 1}, BatchReturns(fault, ok)
      PROVE  WakeInv'
  BY <1>7 DEF BatchReturns
<1> QED  BY <1>1, <1>2, <1>3, <1>4, <1>5, <1>6, <1>7 DEF Draining

\* The runner asks for a drain when it is gone; until then it is there.
LEMMA RunningWakes ==
    ASSUME DeliveryInv, WakeInv, Running
    PROVE  WakeInv'
<1> USE DEF DeliveryInv, TypeOK, OtherTypes, TurnTypes, MailTypes, WakeInv,
            AtRest, callVars, drainVars, queueVars, NoTurn
<1>1. ASSUME NEW i \in Item, TurnOpens(i) PROVE WakeInv'
  BY <1>1 DEF TurnOpens, Takes
<1>2. ASSUME NEW i \in Item, NEW ok \in BOOLEAN, TurnHeld(i, ok) PROVE WakeInv'
  BY <1>2 DEF TurnHeld, Takes, HandsBack, Spends
<1>3. ASSUME NEW i \in Item, NEW ok \in BOOLEAN, RemoveAgain(i, ok) PROVE WakeInv'
  BY <1>3 DEF RemoveAgain, Takes, Spends
<1>4. ASSUME NEW b \in BOOLEAN,
             TurnNotStarted(b) \/ TurnSettles(b) \/ TurnNotConsumed(b)
      PROVE  WakeInv'
  <2>1. /\ UNCHANGED <<retained, todo, live, server, runner>>
        /\ used'.faults = 0 => used.faults = 0
        /\ turn # NoTurn
    BY <1>4 DEF TurnNotStarted, TurnSettles, TurnNotConsumed, Spends
  <2> QED  BY <2>1
<1>5. ASSUME NEW b \in BOOLEAN, TurnSends(b) PROVE WakeInv'
  <2>1. UNCHANGED <<retained, todo, live, server, runner, used>> /\ turn # NoTurn
    BY <1>5 DEF TurnSends
  <2> QED  BY <2>1
<1>6. ASSUME NEW b \in BOOLEAN, TurnAccepted(b) PROVE WakeInv'
  <2>1. /\ UNCHANGED <<todo, live, server, runner>> /\ turn # NoTurn
        /\ used'.faults = 0 => used.faults = 0 /\ retained' = retained
    BY <1>6 DEF TurnAccepted, Releases, Spends
  <2> QED  BY <2>1
<1>7. ASSUME NEW b \in BOOLEAN, ItemLeaves(b) PROVE WakeInv'
  <2>1. /\ UNCHANGED <<retained, todo, live, server>> /\ turn # NoTurn /\ turn' = NoTurn
        /\ used'.faults = 0 => used.faults = 0
        /\ runner' \in {runner, "ending"}
    BY <1>7 DEF ItemLeaves, Spends
  <2> QED  BY <2>1
<1>8. CASE TurnAdmitted \/ TurnRefused \/ TurnEnds
  <2>1. UNCHANGED <<retained, todo, live, server, runner, used>> /\ turn # NoTurn
    BY <1>8 DEF TurnAdmitted, TurnRefused, TurnEnds, PlacesMatch
  <2> QED  BY <2>1
<1>9. CASE TurnConsumed
  <2>1. UNCHANGED <<retained, todo, live, server, runner, used>> /\ turn # NoTurn
        /\ turn' = NoTurn
    BY <1>9 DEF TurnConsumed
  <2> QED  BY <2>1
<1>10. CASE RunnerStops \/ RunnerGone
  BY <1>10 DEF RunnerStops, RunnerGone, RunnerLeaves
<1>11. ASSUME NEW a \in retained, RetainedSettles(a) PROVE WakeInv'
  BY <1>11 DEF RetainedSettles
<1> QED
  BY <1>1, <1>2, <1>3, <1>4, <1>5, <1>6, <1>7, <1>8, <1>9, <1>10, <1>11 DEF Running

LEMMA SendingWakes ==
    ASSUME DeliveryInv, WakeInv, Sending
    PROVE  WakeInv'
<1>1. PICK d \in Direct : \/ DirectReads(d) \/ DirectRefused(d)
                          \/ DirectPasses(d) \/ DirectMailed(d)
  BY DEF Sending
<1>2. CASE DirectMailed(d)
  <2>1. mail' # <<>>
    BY <1>2, EmptyMail
       DEF DirectMailed, DeliveryInv, TypeOK, MailTypes, Item
  <2>2. /\ UNCHANGED <<used, retained, todo, live, server, turn>>
        /\ runner = "loop" => runner' = "loop"
    BY <1>2 DEF DirectMailed, Wake, callVars
  <2> QED  BY <2>1, <2>2 DEF WakeInv, AtRest
<1>3. CASE DirectReads(d) \/ DirectRefused(d) \/ DirectPasses(d)
  BY <1>3 DEF DirectReads, DirectRefused, DirectPasses, WakeInv, AtRest, callVars,
              drainVars, queueVars, Calm, Waits
<1> QED  BY <1>1, <1>2, <1>3

LEMMA OthersWake ==
    ASSUME DeliveryInv, WakeInv, Leasing \/ Booting \/ Crash \/ UNCHANGED vars
    PROVE  WakeInv'
<1> USE DEF DeliveryInv, TypeOK, OtherTypes, MailTypes, WakeInv, AtRest, callVars,
            drainVars, queueVars
<1>1. CASE Leasing
  BY <1>1 DEF Leasing, LeaseTaken, LeaseClaims, LeaseReleased, OwnerLeaves,
              RunnerLeaves, Busy
<1>2. CASE Booting
  BY <1>2 DEF Booting, BootTurns, BootQueue, BootTells, PlacesMatch, NoLive, Spends,
              HandsBack
<1>3. CASE Crash
  BY <1>3 DEF Crash, NoLive
<1>4. CASE UNCHANGED vars
  BY <1>4 DEF vars, Calm, Waits
<1> QED  BY <1>1, <1>2, <1>3, <1>4

(***************************************************************************)
(* No wake-up is lost: whichever of a drain, a dispatch, a turn, a review, *)
(* a lease, a collaboration and a recovery comes last, it asks for the     *)
(* drain that finds what still waits.                                      *)
(***************************************************************************)
THEOREM NoRowIsForgotten == Spec => []NoForgottenRow
<1>1. Init => WakeInv
  BY DEF Init, WakeInv, NoLive, Calm, Waits
<1>2. DeliveryInv /\ WakeInv /\ [Next]_vars => WakeInv'
  BY QueueingWakes, DispatchingWakes, DrainingWakes, RunningWakes, SendingWakes,
     OthersWake DEF Next
<1>3. WakeInv => NoForgottenRow
  BY CalmHoldsAll DEF WakeInv, NoForgottenRow
<1> QED  BY <1>1, <1>2, <1>3, DeliveryInvariant, PTL DEF Spec
=============================================================================
