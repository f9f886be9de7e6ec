-------------------------- MODULE MCIdempotentSend --------------------------
(* IdempotentSend for TLC, up to the names of the calls and fingerprints. *)
EXTENDS IdempotentSend

CONSTANTS c1, c2, p1

\* Of three calls two send the same request: let c1 and c2 send p1.
AskingInit == Init /\ asks[c1] = p1 /\ asks[c2] = p1
AskingSpec == AskingInit /\ [][Next]_vars /\ Fairness
=============================================================================
