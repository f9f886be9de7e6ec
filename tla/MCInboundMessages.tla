-------------------------- MODULE MCInboundMessages --------------------------
(***************************************************************************)
(* Instances of InboundMessages for TLC: one message with most of what can *)
(* go wrong, and a batch of two while the queue is down once.              *)
(***************************************************************************)
EXTENDS InboundMessages

CONSTANTS m1, m2

Alone == [batch |-> <<m1>>, attempts |-> 2, faults |-> 2, outages |-> 1, removals |-> 1]
Pair == [batch |-> <<m1, m2>>, attempts |-> 1, faults |-> 0, outages |-> 1, removals |-> 0]
Scenes12 == {Alone, Pair}
=============================================================================
