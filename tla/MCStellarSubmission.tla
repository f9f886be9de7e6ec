------------------------ MODULE MCStellarSubmission ------------------------
(* StellarSubmission for TLC, up to the names of the processes. *)
EXTENDS StellarSubmission

CONSTANTS c1, h1

\* Renaming the processes changes nothing: let h1 run the call c1.
PlacedInit == Init /\ at[c1] = h1
PlacedSpec == PlacedInit /\ [][Next]_vars /\ Fairness
=============================================================================
