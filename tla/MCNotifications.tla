-------------------------- MODULE MCNotifications --------------------------
(***************************************************************************)
(* Instances of Notifications for TLC: two senders of one durable          *)
(* notification, and one sender whose message Meta reports on.             *)
(***************************************************************************)
EXTENDS Notifications

CONSTANTS s1, s2

Sent == [durable : {TRUE, FALSE}, senders : {{s1, s2}}, refusals : {2}, reports : {0}, faults : {1}]
Reported == [durable : {TRUE}, senders : {{s1}}, refusals : {0}, reports : {2}, faults : {1}]
Retried == [durable : {TRUE}, senders : {{s1}}, refusals : {0}, reports : {1}, faults : {2}]
Scenes12 == Sent \cup Reported \cup Retried
=============================================================================
