----------------------------- MODULE MCDelivery -----------------------------
(* Instances of ConversationDelivery for TLC. *)
EXTENDS DeliveryPromise, TLC

CONSTANTS m1, m2

Texts == {<<"text", m1>>}
AllKinds == {<<"text", m1>>, <<"text", m2>>, <<"command", m1>>,
             <<"report", m1>>, <<"wake", m1>>}

\* Any two of a crash, a failed write and a lease, not all three.
TwoTroubles == used.crashes + used.faults + used.leases <= 2
=============================================================================
