--------------------------- MODULE DeliveryPromise ---------------------------
(***************************************************************************)
(* The delivery of a conversation's messages, with its drains, turns, live *)
(* dispatches, crashes and failed writes, implements InOrderDelivery.      *)
(***************************************************************************)
EXTENDS ConversationDelivery

FateOf(status) ==
  CASE status = "pending"    -> "waiting"
    [] status = "delivering" -> "out"
    [] status \in Review     -> "review"
    [] status = "cancelled"  -> "withdrawn"
    [] OTHER                 -> status

Promise == INSTANCE InOrderDelivery WITH
    Message <- Msg,
    fate    <- [m \in Msg |-> FateOf(rows[m].status)],
    took    <- reached,
    strict  <- {m \in Enqueued : Ordinary(rows[m])}

(***************************************************************************)
(* Whatever cuts a delivery off -- a turn that refuses, ends or is stopped *)
(* under it, a failed write, a crash between any two steps -- every step   *)
(* is one the promise allows: one delivery at a time, ordinary messages in *)
(* order, nothing sent twice unless a person asks for it again, nothing    *)
(* reported delivered that the agent did not take.                         *)
(***************************************************************************)
KeepsDeliveryPromise == Promise!Spec
=============================================================================
