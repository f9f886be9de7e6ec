----------------------------- MODULE MCRefunds -----------------------------
(***************************************************************************)
(* An instance of Refunds for TLC: refunds of parts or all of a payment of *)
(* two units, to a customer who received one unit elsewhere.               *)
(***************************************************************************)
EXTENDS Refunds

One == {1}

\* Three calls: two that race, and one that reads what they left.  Two calls with
\* faults and retries; a submission that pays twice is one of the faults.
TwoScenes == {[calls |-> 3, faults |-> 0, retries |-> 0],
              [calls |-> 2, faults |-> 2, retries |-> 2]}
=============================================================================
