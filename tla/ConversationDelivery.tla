------------------------ MODULE ConversationDelivery ------------------------
(***************************************************************************)
(* How the messages of one conversation reach its agent.  Messages wait in *)
(* the queue (MessageQueue); a drain claims a batch and sends it to the    *)
(* conversation core, whose runner takes one item of a durable mailbox     *)
(* after another and runs it as a turn; a message may also join the turn   *)
(* that is running; a person's direct message goes to the mailbox without  *)
(* the queue.  Rows, mailbox, attempts and the conversation's owner are    *)
(* durable; everything else dies with the process.                         *)
(*                                                                         *)
(* Sources: conversations/message-queue-drain.ts, prompt/queue.ts,         *)
(* prompt/queue-operations.ts, conversation-core/{queue-bridge,executor,   *)
(* interactive-turns,turn-input}.ts, supervision/supervision.ts.           *)
(***************************************************************************)
EXTENDS MessageQueue, Sequences

CONSTANTS Direct,       \* a person's direct messages
          NoItem,
          Offer,        \* <<kind, model>> pairs that are enqueued
          MaxSent,      \* bound: messages enqueued by a person or a wake
          MaxDrains,    \* bound: drains past their busy check at a time
          MaxCrashes,   \* bound: crashes
          MaxFaults,    \* bound: writes that fail
          MaxRetries,   \* bound: retries per row
          MaxLeases     \* bound: maintenance leases, fewer than the three that
                        \* make an admission give up reading the holds

ASSUME DeliveryAssumption ==
  /\ MaxSent \in Nat
  /\ MaxSent <= MaxRows
  /\ Offer \subseteq Kind \X Model
  /\ Direct \cap Attempt = {}
  /\ NoItem \notin Direct \cup Attempt
  /\ {MaxDrains, MaxCrashes, MaxFaults, MaxRetries} \subseteq Nat
  /\ MaxLeases \in 0 .. 2

VARIABLES
  rows,      \* the queue
  mail,      \* items waiting or running in the mailbox, in arrival order
  owner,     \* a collaboration owns the conversation
  turn,      \* the runner's item and how far its turn has come
  direct,    \* what became of each direct message
  back,      \* the row in which it was handed back, or 0
  retries,   \* how often a person asked to send a row again
  \* in memory only
  todo,      \* rows whose live dispatch is not finished, done in order
  live,      \* the live delivery under way
  asked,     \* a drain has been asked for and has not looked yet
  checked,   \* drains that saw an idle conversation and have not claimed yet
  batch,     \* the batch a drain claimed and has not handed over
  runner,    \* who runs the conversation
  rerun,     \* something arrived while it ran
  unremoved, \* items that ended but could not be removed from the mailbox
  retained,  \* attempts whose accepted rows are still to be released
  \* the process and its environment
  server,    \* "up", or how far the recovery at boot has come
  used,      \* how much of each bound is used up
  \* history, which no action reads
  reached,   \* how often a row's message reached its agent since a person
             \* last asked for it
  stranded   \* attempts whose rows could not be written back

queueVars == <<rows, retries, reached>>
callVars == <<todo, live>>
drainVars == <<asked, checked, batch>>
coreVars == <<mail, turn, runner, rerun, unremoved>>
directVars == <<direct, back>>
vars == <<rows, mail, owner, turn, direct, back, todo, live, asked, checked, batch,
          runner, rerun, unremoved, retained, server, used, reached, retries,
          stranded>>

Item == Attempt \cup Direct
NoTurn == [item |-> NoItem, phase |-> "none", settling |-> FALSE, got |-> FALSE]
NoLive == [msg |-> 0, attempt |-> NoAttempt, phase |-> "none", got |-> FALSE]
NoBatch == [attempt |-> NoAttempt, phase |-> "none", fresh |-> FALSE]
TurnPhase == {"none", "open", "run", "sent", "refused", "accepted", "ended",
              "failed", "told", "lost"}

Mailed == {mail[n] : n \in DOMAIN mail}
InMail(i) == i \in Mailed
Referenced == {rows[m].attempt : m \in Msg} \cup Mailed
              \cup retained \cup {turn.item, live.attempt, batch.attempt}
              \cup stranded
Unused == Attempt \ Referenced
\* Ids are random and only compared: which unused one is taken does not matter.
Fresh == IF Unused = {} THEN {} ELSE {CHOOSE a \in Unused : TRUE}

Enqueued == {m \in Msg : rows[m].status # "absent"}
NextRow(m) == m \in Msg \ Enqueued /\ \A n \in Msg : n < m => n \in Enqueued

\* Executor.isBusy and localRefusal of a message or a delivery: while a runner
\* or a lease is registered, or an item is queued.
Busy == runner # "off" \/ mail # <<>>
NeedsReview == \E m \in Msg : BlocksOrdinary(rows[m])
DirectHeld == owner \/ NeedsReview

\* A write that fails is only logged, or passed on to a caller who is told.
Spends(ok) == used' = [used EXCEPT !.faults = @ + (IF ok THEN 0 ELSE 1)]
MayFail(ok) == ok \/ used.faults < MaxFaults
Strands(a, ok) == stranded' = IF ok THEN stranded ELSE stranded \cup {a}

\* "got" is whether the agent really takes the input, which the server learns
\* from an acceptance or a proof of the contrary, or never.
Reaches(a, got) ==
  reached' = [m \in Msg |-> reached[m] + (IF got /\ Under(rows[m], a) THEN 1 ELSE 0)]

Init ==
  /\ rows = [m \in Msg |-> [status |-> "absent", attempt |-> NoAttempt,
                            count |-> 0, kind |-> "text",
                            model |-> CHOOSE x \in Model : TRUE]]
  /\ mail = <<>> /\ owner = FALSE /\ turn = NoTurn
  /\ direct = [d \in Direct |-> "idle"] /\ back = [d \in Direct |-> 0]
  /\ todo = {} /\ live = NoLive
  /\ asked = FALSE /\ checked = 0 /\ batch = NoBatch
  /\ runner = "off" /\ rerun = FALSE /\ unremoved = {} /\ retained = {}
  /\ server = "up"
  /\ used = [crashes |-> 0, faults |-> 0, leases |-> 0]
  /\ reached = [m \in Msg |-> 0] /\ retries = [m \in Msg |-> 0]
  /\ stranded = {}
-----------------------------------------------------------------------------
(* People.                                                                 *)

Put(m, status, kind, model) ==
  rows' = [rows EXCEPT ![m] = [@ EXCEPT !.status = status, !.kind = kind,
                                        !.model = model]]

\* The row is durable at once; its live dispatch waits for the ones before.
Enqueue(m, offer) ==
  /\ server = "up"
  /\ m <= MaxSent /\ NextRow(m)
  /\ Put(m, "pending", offer[1], offer[2])
  /\ todo' = todo \cup {m}
  /\ UNCHANGED <<mail, owner, turn, directVars, live, drainVars, runner, rerun,
                 unremoved, retained, server, used, reached, retries, stranded>>

Cancel(m) ==
  /\ server = "up" /\ rows[m].status = "pending"
  /\ rows' = [rows EXCEPT ![m] = Pruned(@, "cancelled")]
  /\ UNCHANGED <<mail, owner, turn, directVars, callVars, drainVars, runner, rerun,
                 unremoved, retained, server, used, reached, retries, stranded>>

\* A review is refused while the conversation shows a turn; the caller drains
\* the queue afterwards.
MayReview(m) == server = "up" /\ turn.item = NoItem /\ rows[m].status \in Review

Retry(m) ==
  /\ MayReview(m) /\ retries[m] < MaxRetries
  /\ rows' = [rows EXCEPT ![m] = Retried(@)]
  /\ retries' = [retries EXCEPT ![m] = @ + 1]
  /\ reached' = [reached EXCEPT ![m] = 0]
  /\ asked' = TRUE
  /\ UNCHANGED <<mail, owner, turn, directVars, callVars, checked, batch, runner,
                 rerun, unremoved, retained, server, used, stranded>>

Discard(m) ==
  /\ MayReview(m)
  /\ rows' = [rows EXCEPT ![m] = Pruned(@, "cancelled")]
  /\ asked' = TRUE
  /\ UNCHANGED <<mail, owner, turn, directVars, callVars, checked, batch, runner,
                 rerun, unremoved, retained, server, used, reached, retries,
                 stranded>>
-----------------------------------------------------------------------------
(* Live delivery: a queued message joins the running turn.                 *)

\* Input joins a turn once the turn's own input is accepted, until it settles.
Joinable == turn.phase = "accepted" /\ ~turn.settling

\* The dispatch failed, and its caller with it: nobody looks at the queue.
DispatchThrows(m) ==
  live' = NoLive /\ todo' = todo \ {m} /\ UNCHANGED asked

\* The dispatch is over; its caller asks for a drain.
DispatchEnds(m) ==
  /\ live' = NoLive
  /\ todo' = todo \ {m}
  /\ asked' = TRUE

\* It waits for the next turn: by policy, for its model, as a command, or
\* because no turn takes it.
DispatchDeclines(m) ==
  /\ server = "up" /\ live = NoLive /\ IsFirst(m, todo)
  /\ DispatchEnds(m)
  /\ UNCHANGED <<queueVars, mail, owner, turn, directVars, checked, batch, runner,
                 rerun, unremoved, retained, server, used, stranded>>

DispatchAccepts(m) ==
  /\ server = "up" /\ live = NoLive /\ IsFirst(m, todo)
  /\ Joinable /\ rows[m].kind # "command"
  /\ live' = [NoLive EXCEPT !.msg = m, !.phase = "accepts"]
  /\ UNCHANGED <<queueVars, mail, owner, turn, directVars, todo, drainVars, runner,
                 rerun, unremoved, retained, server, used, stranded>>

\* A row cancelled or claimed meanwhile is left alone.
LiveClaims(a, allow) ==
  /\ live.phase = "accepts"
  /\ rows' = ClaimLive(rows, live.msg, a, allow)
  /\ IF ClaimsLive(rows, live.msg, allow)
     THEN /\ live' = [live EXCEPT !.phase = "claimed", !.attempt = a]
          /\ UNCHANGED <<todo, asked>>
     ELSE DispatchEnds(live.msg)
  /\ UNCHANGED <<mail, owner, turn, directVars, checked, batch, runner, rerun,
                 unremoved, retained, server, used, reached, retries, stranded>>

\* The turn is read again after the claim.
LiveJoins ==
  /\ live.phase = "claimed" /\ Joinable
  /\ live' = [live EXCEPT !.phase = "joined"]
  /\ UNCHANGED <<queueVars, mail, owner, turn, directVars, todo, drainVars, runner,
                 rerun, unremoved, retained, server, used, stranded>>

\* Nothing takes it any more, its request was given up, or preparing it
\* failed: nothing was sent and the row goes back.  A row that cannot be
\* written back fails the request that enqueued it.
LiveReturns(ok) ==
  /\ live.phase \in {"claimed", "joined"} /\ MayFail(ok)
  /\ rows' = IF ok THEN MarkPending(rows, live.attempt) ELSE rows
  /\ Spends(ok) /\ Strands(live.attempt, ok)
  /\ IF ok THEN DispatchEnds(live.msg) ELSE DispatchThrows(live.msg)
  /\ UNCHANGED <<mail, owner, turn, directVars, checked, batch, runner, rerun,
                 unremoved, retained, server, reached, retries>>

LiveSends(got) ==
  /\ live.phase = "joined"
  /\ live' = [live EXCEPT !.phase = "sent", !.got = got]
  /\ Reaches(live.attempt, got)
  /\ UNCHANGED <<rows, mail, owner, turn, directVars, todo, drainVars, runner,
                 rerun, unremoved, retained, server, used, retries, stranded>>

LiveRefused(ok) ==
  /\ live.phase = "sent" /\ ~live.got /\ MayFail(ok)
  /\ rows' = IF ok THEN MarkPending(rows, live.attempt) ELSE rows
  /\ Spends(ok) /\ Strands(live.attempt, ok)
  /\ IF ok THEN DispatchEnds(live.msg) ELSE DispatchThrows(live.msg)
  /\ UNCHANGED <<mail, owner, turn, directVars, checked, batch, runner, rerun,
                 unremoved, retained, server, reached, retries>>

\* The accepted rows leave the queue; when the release fails they are held for
\* review, if that can be written, and the release stays owed.
Releases(a, ok) ==
  /\ rows' \in IF ok THEN {ConfirmDelivery(rows, a)}
                      ELSE {MarkUncertain(rows, a), rows}
  /\ retained' = IF ok THEN retained ELSE retained \cup {a}
  /\ Spends(ok)

LiveAccepted(ok) ==
  /\ live.phase = "sent" /\ live.got /\ MayFail(ok)
  /\ Releases(live.attempt, ok)
  /\ DispatchEnds(live.msg)
  /\ UNCHANGED <<mail, owner, turn, directVars, checked, batch, runner, rerun,
                 unremoved, server, reached, retries, stranded>>

\* Neither accepted nor refused: held for review.
LiveUncertain(ok) ==
  /\ live.phase = "sent" /\ MayFail(ok)
  /\ rows' = IF ok THEN MarkUncertain(rows, live.attempt) ELSE rows
  /\ Spends(ok) /\ Strands(live.attempt, ok)
  /\ DispatchEnds(live.msg)
  /\ UNCHANGED <<mail, owner, turn, directVars, checked, batch, runner, rerun,
                 unremoved, retained, server, reached, retries>>
-----------------------------------------------------------------------------
(* The drain: claim a batch, run a command or send the batch to the core.  *)

DrainLooks ==
  /\ server = "up" /\ asked
  /\ IF Busy \/ owner
     THEN UNCHANGED checked
     ELSE /\ checked < MaxDrains
          /\ checked' = checked + 1
  /\ asked' = FALSE
  /\ UNCHANGED <<queueVars, mail, owner, turn, directVars, callVars, batch, runner,
                 rerun, unremoved, retained, server, used, stranded>>

DrainClaims(a, allow) ==
  /\ checked > 0
  /\ checked' = checked - 1
  /\ rows' = ClaimNextBatch(rows, a, allow)
  /\ LET claimed == NextBatch(rows, allow)
     IN  batch' = IF claimed = {} THEN batch
                  ELSE [attempt |-> a, fresh |-> FALSE,
                        phase |-> IF \E m \in claimed : rows[m].kind = "command"
                                  THEN "command" ELSE "claimed"]
  /\ UNCHANGED <<mail, owner, turn, directVars, callVars, asked, runner, rerun,
                 unremoved, retained, server, used, reached, retries, stranded>>

\* runQueuedCommand
CommandRuns ==
  /\ batch.phase = "command"
  /\ batch' = [batch EXCEPT !.phase = "ran"]
  /\ Reaches(batch.attempt, TRUE)
  /\ UNCHANGED <<rows, mail, owner, turn, directVars, callVars, asked, checked,
                 runner, rerun, unremoved, retained, server, used, retries, stranded>>

\* Done, or failed before or after it ran; what could not be marked delivered
\* is marked failed.  Then the queue goes on unless a turn started meanwhile.
CommandEnds(done, ok) ==
  /\ batch.phase = "ran" \/ (batch.phase = "command" /\ ~done)
  /\ MayFail(ok)
  /\ rows' = IF ok /\ done THEN MarkDelivered(rows, batch.attempt)
             ELSE IF ok \/ done THEN MarkFailed(rows, batch.attempt)
             ELSE rows
  /\ Spends(ok) /\ Strands(batch.attempt, ok \/ done)
  /\ batch' = NoBatch
  /\ IF Busy
     THEN UNCHANGED checked
     ELSE checked < MaxDrains /\ checked' = checked + 1
  /\ UNCHANGED <<mail, owner, turn, directVars, callVars, asked, runner, rerun,
                 unremoved, retained, server, reached, retries>>

\* sendUserMessage for the batch.  The durable holds are read between two
\* looks at what the core knows; a lease begun meanwhile makes it read again.
BatchReads ==
  /\ batch.phase = "claimed" /\ ~Busy /\ ~owner
  /\ batch' = [batch EXCEPT !.phase = "read", !.fresh = TRUE]
  /\ UNCHANGED <<queueVars, mail, owner, turn, directVars, callVars, asked, checked,
                 runner, rerun, unremoved, retained, server, used, stranded>>

BatchPasses ==
  /\ batch.phase = "read" /\ ~Busy
  /\ batch' = [batch EXCEPT !.phase = IF batch.fresh THEN "passed" ELSE "claimed"]
  /\ UNCHANGED <<queueVars, mail, owner, turn, directVars, callVars, asked, checked,
                 runner, rerun, unremoved, retained, server, used, stranded>>

\* Refused, or (with a fault) the submission threw: the rows go back.  Nothing
\* is awaited between a refusal and the write that answers it.
BatchReturns(fault, ok) ==
  /\ batch.phase \in {"claimed", "read", "passed"}
  /\ used.faults + fault + (IF ok THEN 0 ELSE 1) <= MaxFaults
  /\ fault = 0 => \/ batch.phase = "claimed" /\ (Busy \/ owner)
                  \/ batch.phase = "read" /\ Busy
  /\ rows' = IF ok THEN MarkPending(rows, batch.attempt) ELSE rows
  /\ used' = [used EXCEPT !.faults = @ + fault + (IF ok THEN 0 ELSE 1)]
  /\ Strands(batch.attempt, ok)
  /\ batch' = NoBatch
  /\ UNCHANGED <<mail, owner, turn, directVars, callVars, asked, checked, runner,
                 rerun, unremoved, retained, server, reached, retries>>

\* wake: a runner starts, or the one there is told to look again.
Wake == IF runner = "off" THEN runner' = "loop" /\ UNCHANGED rerun
        ELSE rerun' = TRUE /\ UNCHANGED runner

BatchHandedOver ==
  /\ batch.phase = "passed"
  /\ mail' = Append(mail, batch.attempt)
  /\ batch' = NoBatch
  /\ Wake
  /\ UNCHANGED <<queueVars, owner, turn, directVars, callVars, asked, checked,
                 unremoved, retained, server, used, stranded>>
-----------------------------------------------------------------------------
(* Direct messages: sendUserMessage without a queued delivery.             *)

Advance(d, from, to) ==
  /\ server = "up" /\ direct[d] = from
  /\ direct' = [direct EXCEPT ![d] = to]

DirectReads(d) ==
  /\ Advance(d, "idle", "read") /\ ~Busy /\ ~DirectHeld
  /\ UNCHANGED <<back, queueVars, mail, owner, turn, callVars, drainVars, runner,
                 rerun, unremoved, retained, server, used, stranded>>

\* Its sender is told.
DirectRefused(d) ==
  /\ \/ Advance(d, "idle", "refused") /\ (Busy \/ DirectHeld)
     \/ Advance(d, "read", "refused") /\ Busy
     \/ Advance(d, "stale", "refused") /\ (Busy \/ DirectHeld)
  /\ UNCHANGED <<back, queueVars, mail, owner, turn, callVars, drainVars, runner,
                 rerun, unremoved, retained, server, used, stranded>>

DirectPasses(d) ==
  /\ ~Busy
  /\ \/ Advance(d, "read", "passed")
     \/ Advance(d, "stale", "read") /\ ~DirectHeld
  /\ UNCHANGED <<back, queueVars, mail, owner, turn, callVars, drainVars, runner,
                 rerun, unremoved, retained, server, used, stranded>>

DirectMailed(d) ==
  /\ Advance(d, "passed", "mailed")
  /\ mail' = Append(mail, d)
  /\ Wake
  /\ UNCHANGED <<back, queueVars, owner, turn, callVars, drainVars, unremoved,
                 retained, server, used, stranded>>
-----------------------------------------------------------------------------
(* The runner: one item of the mailbox after another.                      *)

Takes(i) == runner = "loop" /\ turn = NoTurn /\ mail # <<>> /\ i = mail[1]

Without(i) ==
  LET at == CHOOSE n \in DOMAIN mail : mail[n] = i
  IN  [n \in 1 .. Len(mail) - 1 |-> IF n < at THEN mail[n] ELSE mail[n + 1]]

\* The person gets a message that never started back for review, as a row that
\* failed, unless the row is there already (its id names the message, until a
\* retry gives it another); a failed write loses it.
StillOffered(d) ==
  back[d] # 0 /\ rows[back[d]].status = "failed" /\ retries[back[d]] = 0
HandsBack(d, ok) ==
  /\ MayFail(ok) /\ Spends(ok)
  /\ IF ~ok
     THEN direct' = [direct EXCEPT ![d] = "lost"] /\ UNCHANGED <<rows, back>>
     ELSE /\ direct' = [direct EXCEPT ![d] = "handed"]
          /\ IF StillOffered(d)
             THEN UNCHANGED <<rows, back>>
             ELSE \E m \in Msg :
                    /\ NextRow(m)
                    /\ Put(m, "failed", "text", CHOOSE x \in Model : TRUE)
                    /\ back' = [back EXCEPT ![d] = m]

TurnOpens(i) ==
  /\ Takes(i) /\ i \notin unremoved
  /\ i \in Direct => ~DirectHeld
  /\ rerun' = FALSE
  /\ turn' = [NoTurn EXCEPT !.item = i, !.phase = "open"]
  /\ UNCHANGED <<queueVars, mail, owner, directVars, callVars, drainVars, runner,
                 unremoved, retained, server, used, stranded>>

\* A direct message that waited behind a turn which left something to review.
TurnHeld(i, ok) ==
  /\ Takes(i) /\ i \notin unremoved /\ i \in Direct /\ DirectHeld
  /\ rerun' = FALSE
  /\ turn' = [NoTurn EXCEPT !.item = i, !.phase = "told"]
  /\ HandsBack(i, ok)
  /\ UNCHANGED <<mail, owner, callVars, drainVars, runner, unremoved, retained,
                 server, reached, retries, stranded>>

\* An item that ended but is still in the mailbox is only removed again.
RemoveAgain(i, ok) ==
  /\ Takes(i) /\ i \in unremoved /\ MayFail(ok) /\ Spends(ok)
  /\ rerun' = FALSE
  /\ IF ok
     THEN /\ mail' = Without(i) /\ unremoved' = unremoved \ {i}
          /\ UNCHANGED runner
     ELSE runner' = "ending" /\ UNCHANGED <<mail, unremoved>>
  /\ UNCHANGED <<queueVars, owner, turn, directVars, callVars, drainVars, retained,
                 server, stranded>>

\* Stopped by a person, or failed, before it was admitted.
TurnNotStarted(ok) ==
  /\ turn.phase = "open" /\ MayFail(ok) /\ Spends(ok)
  /\ turn' = [turn EXCEPT !.phase = "told"]
  /\ IF turn.item \in Attempt
     THEN /\ rows' = IF ok THEN MarkFailed(rows, turn.item) ELSE rows
          /\ Strands(turn.item, ok)
          /\ UNCHANGED direct
     ELSE /\ direct' = [direct EXCEPT ![turn.item] = "told"]
          /\ UNCHANGED <<rows, stranded>>
  /\ UNCHANGED <<back, mail, owner, callVars, drainVars, runner, rerun, unremoved,
                 retained, server, reached, retries>>

TurnAdmitted ==
  /\ turn.phase = "open"
  /\ turn' = [turn EXCEPT !.phase = "run"]
  /\ UNCHANGED <<queueVars, mail, owner, directVars, callVars, drainVars, runner,
                 rerun, unremoved, retained, server, used, stranded>>

TurnSends(got) ==
  /\ turn.phase = "run" /\ ~turn.settling
  /\ turn' = [turn EXCEPT !.phase = "sent", !.got = got]
  /\ IF turn.item \in Attempt
     THEN Reaches(turn.item, got) /\ UNCHANGED direct
     ELSE /\ direct' = [direct EXCEPT ![turn.item] = IF got THEN "taken" ELSE @]
          /\ UNCHANGED reached
  /\ UNCHANGED <<back, rows, mail, owner, callVars, drainVars, runner, rerun,
                 unremoved, retained, server, used, retries, stranded>>

TurnRefused ==
  /\ turn.phase = "sent" /\ ~turn.settling /\ ~turn.got
  /\ turn' = [turn EXCEPT !.phase = "refused"]
  /\ UNCHANGED <<queueVars, mail, owner, directVars, callVars, drainVars, runner,
                 rerun, unremoved, retained, server, used, stranded>>

TurnAccepted(ok) ==
  /\ turn.phase = "sent" /\ ~turn.settling /\ turn.got /\ MayFail(ok)
  /\ turn' = [turn EXCEPT !.phase = "accepted"]
  /\ IF turn.item \in Attempt
     THEN Releases(turn.item, ok)
     ELSE ok /\ UNCHANGED <<rows, retained, used>>
  /\ UNCHANGED <<mail, owner, directVars, callVars, drainVars, runner, rerun,
                 unremoved, server, reached, retries, stranded>>

\* The turn is over; what joined it finishes first.
TurnEnds ==
  /\ turn.phase \in {"run", "sent", "refused", "accepted"} /\ ~turn.settling
  /\ turn' = [turn EXCEPT !.settling = TRUE]
  /\ UNCHANGED <<queueVars, mail, owner, directVars, callVars, drainVars, runner,
                 rerun, unremoved, retained, server, used, stranded>>

\* settleQueued: what may have reached the agent is held for review, what is
\* proven unsent fails.
TurnSettles(ok) ==
  /\ turn.settling /\ live.phase \notin {"joined", "sent"}
  /\ MayFail(ok) /\ Spends(ok)
  /\ LET a == turn.item
     IN  IF a \in Attempt
         THEN /\ rows' = IF ~ok THEN rows
                         ELSE IF turn.phase \in {"sent", "accepted"}
                              THEN MarkUncertain(rows, a)
                              ELSE MarkFailed(rows, a)
              /\ Strands(a, ok)
              /\ UNCHANGED direct
         ELSE /\ direct' = [direct EXCEPT ![a] = "ended"]
              /\ UNCHANGED <<rows, stranded>>
  /\ turn' = [NoTurn EXCEPT !.item = turn.item, !.phase = "ended"]
  /\ UNCHANGED <<back, mail, owner, callVars, drainVars, runner, rerun, unremoved,
                 retained, server, reached, retries>>

\* The attempt's result and the consumption of its item are one transaction.
TurnConsumed ==
  /\ turn.phase = "ended"
  /\ mail' = Without(turn.item)
  /\ turn' = NoTurn
  /\ UNCHANGED <<queueVars, owner, directVars, callVars, drainVars, runner, rerun,
                 unremoved, retained, server, used, stranded>>

\* When that transaction fails, the turn counts as one that failed before it
\* could settle: rows still out fail, and a direct message's sender is told.
TurnNotConsumed(ok) ==
  /\ turn.phase = "ended"
  /\ used.faults + 1 + (IF ok THEN 0 ELSE 1) <= MaxFaults
  /\ used' = [used EXCEPT !.faults = @ + 1 + (IF ok THEN 0 ELSE 1)]
  /\ turn' = [turn EXCEPT !.phase = "failed"]
  /\ rows' = IF ok /\ turn.item \in Attempt THEN MarkFailed(rows, turn.item) ELSE rows
  /\ UNCHANGED <<mail, owner, directVars, callVars, drainVars, runner, rerun,
                 unremoved, retained, server, reached, retries, stranded>>

\* leaveMailbox, of a message that will not run and whose sender was told, or
\* whose turn failed at its very end (its removal is taken to succeed then).
ItemLeaves(ok) ==
  /\ turn.phase = "told" \/ (turn.phase = "failed" /\ ok)
  /\ MayFail(ok) /\ Spends(ok)
  /\ turn' = NoTurn
  /\ IF ok
     THEN mail' = Without(turn.item) /\ UNCHANGED <<unremoved, runner>>
     ELSE /\ unremoved' = unremoved \cup {turn.item}
          /\ runner' = IF runner = "loop" /\ ~rerun THEN "ending" ELSE runner
          /\ UNCHANGED mail
  /\ UNCHANGED <<queueVars, owner, directVars, callVars, drainVars, rerun, retained,
                 server, stranded>>

RunnerStops ==
  /\ runner = "loop" /\ turn = NoTurn /\ mail = <<>>
  /\ runner' = "ending" /\ rerun' = FALSE
  /\ UNCHANGED <<queueVars, mail, owner, turn, directVars, callVars, drainVars,
                 unremoved, retained, server, used, stranded>>

RunnerLeavesQuietly(from) ==   \* mutant: the queue is not told
  /\ runner = from
  /\ runner' = IF rerun THEN "loop" ELSE "off"
  /\ rerun' = FALSE
  /\ UNCHANGED <<queueVars, mail, owner, turn, directVars, callVars, drainVars,
                 unremoved, retained, server, used, stranded>>

\* What arrived while the runner ended starts another; otherwise the queue may
\* hand over the next turn.
RunnerLeaves(from) ==
  /\ runner = from
  /\ IF rerun
     THEN runner' = "loop" /\ UNCHANGED asked
     ELSE runner' = "off" /\ asked' = TRUE
  /\ rerun' = FALSE
  /\ UNCHANGED <<queueVars, mail, owner, turn, directVars, callVars, checked, batch,
                 unremoved, retained, server, used, stranded>>

RunnerGone == RunnerLeaves("ending")

\* The owed releases of earlier inputs, at the next turn or hold check.
RetainedSettles(a) ==
  /\ server = "up" /\ a \in retained
  /\ rows' = ConfirmDelivery(rows, a)
  /\ retained' = retained \ {a}
  /\ UNCHANGED <<mail, owner, turn, directVars, callVars, drainVars, runner, rerun,
                 unremoved, server, used, reached, retries, stranded>>
-----------------------------------------------------------------------------
(* Maintenance leases, and the collaborations claimed under one.           *)

\* Every lease makes the admissions that are reading the holds read again.
LeaseTaken ==
  /\ server = "up" /\ ~Busy /\ used.leases < MaxLeases
  /\ used' = [used EXCEPT !.leases = @ + 1]
  /\ runner' = "lease"
  /\ batch' = [batch EXCEPT !.fresh = FALSE]
  /\ direct' = [d \in Direct |-> IF direct[d] = "read" THEN "stale" ELSE direct[d]]
  /\ UNCHANGED <<back, queueVars, mail, owner, turn, callVars, asked, checked, rerun,
                 unremoved, retained, server, stranded>>

LeaseClaims ==
  /\ runner = "lease" /\ ~DirectHeld
  /\ owner' = TRUE
  /\ UNCHANGED <<queueVars, mail, turn, directVars, callVars, drainVars, runner,
                 rerun, unremoved, retained, server, used, stranded>>

LeaseReleased == RunnerLeaves("lease")

OwnerLeaves ==
  /\ server = "up" /\ owner
  /\ owner' = FALSE /\ asked' = TRUE
  /\ UNCHANGED <<queueVars, mail, turn, directVars, callVars, checked, batch, runner,
                 rerun, unremoved, retained, server, used, stranded>>
-----------------------------------------------------------------------------
(* A crash, and the recovery at boot before anything drains.               *)

\* An attempt that was admitted stays so; one that was only open leaves its
\* item queued.
Crash ==
  /\ used.crashes < MaxCrashes
  /\ used' = [used EXCEPT !.crashes = @ + 1]
  /\ server' = "turns"
  /\ turn' = IF turn.phase \in {"run", "sent", "refused", "accepted", "ended",
                               "failed", "lost"}
             THEN [NoTurn EXCEPT !.item = turn.item, !.phase = "lost"]
             ELSE NoTurn
  /\ direct' = [d \in Direct |->
                  IF direct[d] \in {"read", "stale", "passed"} THEN "refused"
                  ELSE direct[d]]
  /\ todo' = {} /\ live' = NoLive
  /\ asked' = FALSE /\ checked' = 0 /\ batch' = NoBatch
  /\ runner' = "off" /\ rerun' = FALSE /\ unremoved' = {} /\ retained' = {}
  /\ UNCHANGED <<back, queueVars, mail, owner, stranded>>

BootTurnsKept ==   \* mutant: an interrupted turn's item stays queued
  /\ server = "turns" /\ server' = "unsent" /\ turn' = NoTurn
  /\ UNCHANGED <<mail, directVars, queueVars, owner, callVars, drainVars, runner,
                 rerun, unremoved, retained, used, stranded>>

\* Executor.recover, first transaction: an admitted attempt is interrupted and
\* its item consumed.
BootTurns ==
  /\ server = "turns" /\ server' = "unsent"
  /\ turn' = NoTurn
  /\ mail' = IF turn.phase = "lost" THEN Without(turn.item) ELSE mail
  /\ direct' = IF turn.item \in Direct
               THEN [direct EXCEPT ![turn.item] = "ended"] ELSE direct
  /\ UNCHANGED <<back, queueVars, owner, callVars, drainVars, runner, rerun, unremoved,
                 retained, used, stranded>>

\* Then what never started, one item after another: a batch back to the queue,
\* a direct message back to its sender.
BootTells(i, ok) ==
  /\ server = "unsent" /\ turn = NoTurn /\ i \notin unremoved
  /\ \E n \in DOMAIN mail : /\ mail[n] = i
                            /\ \A k \in 1 .. n - 1 : mail[k] \in unremoved
  /\ turn' = [NoTurn EXCEPT !.item = i, !.phase = "told"]
  /\ IF i \in Attempt
     THEN /\ MayFail(ok) /\ Spends(ok)
          /\ rows' = IF ok THEN MarkPending(rows, i) ELSE rows
          /\ Strands(i, ok)
          /\ UNCHANGED directVars
     ELSE HandsBack(i, ok) /\ UNCHANGED stranded
  /\ UNCHANGED <<mail, owner, callVars, drainVars, runner, rerun, unremoved,
                 retained, server, reached, retries>>

\* Claims nobody owns any more wait for review; then the queues drain.
BootQueue(ok) ==
  /\ server = "unsent" /\ turn = NoTurn
  /\ \A n \in DOMAIN mail : mail[n] \in unremoved
  /\ MayFail(ok) /\ Spends(ok)
  /\ rows' = IF ok THEN RecoverAbandoned(rows) ELSE rows
  /\ stranded' = IF ok THEN stranded
                 ELSE stranded \cup {rows[m].attempt : m \in
                        {n \in Msg : rows[n].status = "delivering"}}
  /\ server' = "up" /\ asked' = TRUE
  /\ UNCHANGED <<mail, owner, turn, directVars, callVars, checked, batch, runner,
                 rerun, unremoved, retained, reached, retries>>
-----------------------------------------------------------------------------
Queueing ==
  \E m \in Msg : \/ \E offer \in Offer : Enqueue(m, offer)
                 \/ Cancel(m) \/ Retry(m) \/ Discard(m)

Dispatching ==
  \/ \E m \in Msg : DispatchDeclines(m) \/ DispatchAccepts(m)
  \/ \E a \in Fresh, allow \in BOOLEAN : LiveClaims(a, allow)
  \/ LiveJoins
  \/ \E b \in BOOLEAN : \/ LiveReturns(b) \/ LiveSends(b) \/ LiveRefused(b)
                        \/ LiveAccepted(b) \/ LiveUncertain(b)

Draining ==
  \/ DrainLooks
  \/ \E a \in Fresh, allow \in BOOLEAN : DrainClaims(a, allow)
  \/ CommandRuns
  \/ \E done, ok \in BOOLEAN : CommandEnds(done, ok)
  \/ BatchReads \/ BatchPasses \/ BatchHandedOver
  \/ \E ok \in BOOLEAN, fault \in {0, 1} : BatchReturns(fault, ok)

Sending ==
  \E d \in Direct : \/ DirectReads(d) \/ DirectRefused(d)
                    \/ DirectPasses(d) \/ DirectMailed(d)

Running ==
  \/ \E i \in Item : \/ TurnOpens(i)
                     \/ \E ok \in BOOLEAN : TurnHeld(i, ok) \/ RemoveAgain(i, ok)
  \/ \E b \in BOOLEAN : \/ TurnNotStarted(b) \/ TurnSends(b) \/ TurnAccepted(b)
                        \/ TurnSettles(b) \/ TurnNotConsumed(b) \/ ItemLeaves(b)
  \/ TurnAdmitted \/ TurnRefused \/ TurnEnds \/ TurnConsumed
  \/ RunnerStops \/ RunnerGone
  \/ \E a \in retained : RetainedSettles(a)

Leasing == LeaseTaken \/ LeaseClaims \/ LeaseReleased \/ OwnerLeaves

Booting ==
  \/ BootTurns
  \/ \E ok \in BOOLEAN : BootQueue(ok) \/ \E i \in Item : BootTells(i, ok)

Next == \/ Queueing \/ Dispatching \/ Draining \/ Sending \/ Running
        \/ Leasing \/ Booting \/ Crash

Spec == Init /\ [][Next]_vars
-----------------------------------------------------------------------------
DirectState == {"idle", "read", "stale", "passed", "mailed", "taken", "told",
                "ended", "handed", "lost", "refused"}

QueueTypes ==
  /\ rows \in [Msg -> Row]
  /\ reached \in [Msg -> Nat] /\ retries \in [Msg -> Nat]
CallTypes ==
  /\ todo \subseteq Msg
  /\ live \in [msg : 0 .. MaxRows, attempt : Attempt \cup {NoAttempt},
               phase : {"none", "accepts", "claimed", "joined", "sent"},
               got : BOOLEAN]
DrainTypes ==
  /\ asked \in BOOLEAN /\ checked \in 0 .. MaxDrains
  /\ batch \in [attempt : Attempt \cup {NoAttempt}, fresh : BOOLEAN,
                phase : {"none", "command", "ran", "claimed", "read",
                         "passed"}]
TurnTypes ==
  turn \in [item : Item \cup {NoItem}, phase : TurnPhase,
            settling : BOOLEAN, got : BOOLEAN]
MailTypes ==
  /\ mail \in Seq(Item) /\ unremoved \subseteq Item
  /\ runner \in {"off", "loop", "ending", "lease"} /\ rerun \in BOOLEAN
DirectTypes ==
  direct \in [Direct -> DirectState] /\ back \in [Direct -> 0 .. MaxRows]
OtherTypes ==
  /\ owner \in BOOLEAN /\ retained \subseteq Attempt
  /\ server \in {"up", "turns", "unsent"}
  /\ used \in [crashes : Nat, faults : Nat, leases : Nat]
  /\ stranded \subseteq Attempt \cup {NoAttempt}

TypeOK == /\ QueueTypes /\ CallTypes /\ DrainTypes /\ TurnTypes /\ MailTypes
          /\ DirectTypes /\ OtherTypes

\* Who answers for the rows of an attempt.
Owners(a) ==
  \/ batch.attempt = a \/ live.attempt = a \/ InMail(a)
  \/ a \in retained \/ a \in stranded

(***************************************************************************)
(* The inductive invariant behind the properties below.                    *)
(***************************************************************************)
Out(a) == \E m \in Msg : Under(rows[m], a)
Unsent(a) == \A m \in Msg : rows[m].attempt = a => reached[m] = 0
Sent(a) == \A m \in Msg : rows[m].attempt = a => reached[m] = 1

\* Some part of the server still has the rows of the attempt to settle.
UnderWay(a) ==
  \/ live.attempt = a \/ batch.attempt = a
  \/ /\ server = "up" /\ InMail(a) /\ a \notin unremoved
     /\ turn.item = a => turn.phase \in {"open", "run", "sent", "refused"}

\* What a row's status says of its attempt and of the agent.
RowsMatch ==
  /\ \A m \in Msg :
       /\ rows[m].attempt # NoAttempt <=> rows[m].status \in {"delivering", "uncertain"}
       /\ rows[m].status \in {"absent", "pending"} => reached[m] = 0
       /\ reached[m] <= 1
  /\ \A m, n \in Msg :
       rows[m].status = "delivering" /\ rows[n].status = "delivering"
         => rows[m].attempt = rows[n].attempt

\* An attempt is in one place at a time.
MailedOnce == \A i, j \in DOMAIN mail : mail[i] = mail[j] => i = j
PlacesMatch ==
  /\ MailedOnce
  /\ unremoved \subseteq Mailed
  /\ turn.item = NoItem <=> turn = NoTurn
  /\ turn # NoTurn => InMail(turn.item) /\ turn.item \notin unremoved
                      /\ turn.phase # "none"
  /\ turn.phase = "accepted" => turn.got
  /\ turn.settling => turn.phase \in {"run", "sent", "refused", "accepted"}
  /\ live.attempt # NoAttempt <=> live.phase \in {"claimed", "joined", "sent"}
  /\ batch.attempt # NoAttempt <=> batch.phase # "none"
  /\ live.attempt # NoAttempt => ~InMail(live.attempt)
  /\ batch.attempt # NoAttempt =>
       ~InMail(batch.attempt) /\ batch.attempt # live.attempt
  /\ \A a \in retained :
       /\ a # live.attempt /\ a # batch.attempt
       /\ InMail(a) => turn.item = a /\ turn.phase \in {"accepted", "ended", "failed"}
  /\ server # "up" =>
       /\ live = NoLive /\ batch = NoBatch /\ checked = 0
       /\ retained = {} /\ runner = "off"
       /\ turn.phase \in {"none", IF server = "turns" THEN "lost" ELSE "told"}

\* What is under way has its rows out; no other row is.
WayMatches ==
  \A a \in Attempt : UnderWay(a) =>
    /\ Out(a)
    /\ \A m \in Msg : rows[m].attempt = a => rows[m].status = "delivering"

\* What the place of an attempt says of the agent.
LiveTook == live.phase = "sent" /\ live.got
TurnTook == turn.phase \in {"sent", "accepted"} /\ turn.got
TurnUntook == \/ turn.phase \in {"open", "run", "refused", "told"}
              \/ turn.phase = "sent" /\ ~turn.got
SentMatches ==
  /\ live.attempt # NoAttempt =>
       IF LiveTook THEN Sent(live.attempt) ELSE Unsent(live.attempt)
  /\ batch.attempt # NoAttempt =>
       IF batch.phase = "ran" THEN Sent(batch.attempt) ELSE Unsent(batch.attempt)
  /\ \A a \in retained : Sent(a)
  /\ turn.item \in Attempt /\ TurnTook => Sent(turn.item)
  /\ \A a \in Attempt :
       InMail(a) /\ (turn.item = a => TurnUntook) => Unsent(a)

\* Rows left behind are known to be.
LeftMatches ==
  server = "up" => \A a \in Attempt : Out(a) =>
    /\ Owners(a)
    /\ a \in unremoved => a \in retained \cup stranded
    /\ turn.item = a /\ turn.phase \in {"ended", "failed", "told"} =>
         a \in retained \cup stranded

\* A direct message in the mailbox knows whether its turn has come.
Answered == {"told", "handed", "lost"}
DirectsMatch ==
  \A d \in Direct :
    /\ InMail(d) => direct[d] \in {"mailed", "taken", "ended"} \cup Answered
    /\ InMail(d) /\ (turn.item = d => turn.phase \in {"open", "told"}) =>
         direct[d] \notin {"taken", "ended"}
    /\ d \in unremoved \/ (turn.item = d /\ turn.phase = "told") =>
         direct[d] \in Answered
    /\ turn.item = d /\ turn.phase \in {"ended", "failed"} => direct[d] = "ended"
    /\ direct[d] = "lost" => used.faults > 0

DeliveryInv == /\ TypeOK /\ RowsMatch /\ PlacesMatch /\ WayMatches /\ SentMatches
               /\ LeftMatches /\ DirectsMatch

(***************************************************************************)
(* A row the queue may send by itself has not reached the agent since the  *)
(* last time a person asked for it: however a delivery is cut off, by a    *)
(* crash, a failed write, a refused admission or a turn that ends under a  *)
(* live delivery, nothing is sent twice unless a person says so.           *)
(***************************************************************************)
OfferedIsUnsent ==
  \A m \in Msg :
    /\ rows[m].status \in {"absent", "pending"} => reached[m] = 0
    /\ reached[m] <= 1

(***************************************************************************)
(* Rows that are being delivered belong to one attempt and, while the      *)
(* server is up, some part of it still answers for them, unless the write  *)
(* that would have settled them failed.                                    *)
(***************************************************************************)
ClaimHasOwner ==
  /\ \A m, n \in Msg :
       rows[m].status = "delivering" /\ rows[n].status = "delivering"
         => rows[m].attempt = rows[n].attempt
  /\ server = "up" => \A m \in Msg :
       rows[m].status = "delivering" => Owners(rows[m].attempt)

\* What the next drain would claim, were nobody asked to hold wakes back.
Claimable == NextBatch(rows, FALSE) # {}

AtRest ==
  /\ server = "up" /\ runner = "off" /\ mail = <<>> /\ ~owner
  /\ ~asked /\ checked = 0 /\ batch = NoBatch /\ todo = {}

(***************************************************************************)
(* No wake-up is lost: when the conversation is at rest, no message that   *)
(* could go is waiting, as long as no write failed.                        *)
(***************************************************************************)
NoForgottenRow == AtRest /\ used.faults = 0 => ~Claimable

(***************************************************************************)
(* A direct message is handed back for review only if it never reached the *)
(* agent, and one that is in the mailbox leaves it only with its turn run, *)
(* its sender told, or the message handed back.                            *)
(***************************************************************************)
DirectsAnswered ==
  [][\A d \in Direct :
       /\ direct[d] \in {"taken", "ended"} => direct'[d] \in {"taken", "ended"}
       /\ InMail(d) /\ ~InMail(d)' =>
            \/ direct'[d] \in {"taken", "ended", "told", "handed"}
            \/ direct'[d] = "lost" /\ used'.faults > 0]_vars
-----------------------------------------------------------------------------
(* Fairness: the server's own steps are taken, agents end their turns, and  *)
(* leases and collaborations end; people and faults owe nothing.            *)
FairSpec ==
  /\ Spec
  /\ WF_vars(Dispatching) /\ WF_vars(Draining) /\ WF_vars(Booting)
  /\ WF_vars(Running) /\ WF_vars(LeaseReleased) /\ WF_vars(OwnerLeaves)

(***************************************************************************)
(* Every ordinary message that waits is eventually taken, or a person has  *)
(* to decide about one; the cap on attempts ends every cycle of refusals.  *)
(***************************************************************************)
EveryMessageServed ==
  \A m \in Msg :
    rows[m].status = "pending" /\ Ordinary(rows[m])
      ~> rows[m].status # "pending" \/ NeedsReview
=============================================================================
