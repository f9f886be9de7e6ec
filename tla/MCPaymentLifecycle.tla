------------------------ MODULE MCPaymentLifecycle ------------------------
(* Constants of the PaymentLifecycle runs that a .cfg cannot write. *)
EXTENDS PaymentLifecycle, TLC

\* Every request pays the same amount to the same destination.
SameKind == [r \in Request |-> "same"]
\* The calls, and the sweeps, are interchangeable.
Symmetry == Permutations(Request) \cup Permutations(Sweep)
=============================================================================
