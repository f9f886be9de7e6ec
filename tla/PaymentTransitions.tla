------------------------- MODULE PaymentTransitions -------------------------
(***************************************************************************)
(* The status matrix of a payment row (payment/payment.transitions.js).    *)
(* Pure definitions: the modules that move payment rows share them.        *)
(***************************************************************************)

PAYMENT_STATUSES ==
  {"processing", "pending", "success", "failed", "expired",
   "cancelled", "resolved", "escalated", "reversed"}

\* The statuses that may follow each status.
PAYMENT_TRANSITIONS ==
  [processing |-> {"pending", "success", "failed", "cancelled", "reversed"},
   pending    |-> {"success", "failed", "expired", "escalated", "resolved",
                   "cancelled", "processing", "reversed"},
   escalated  |-> {"processing", "resolved", "failed", "success", "reversed"},
   failed     |-> {"processing"},
   expired    |-> {"processing"},
   cancelled  |-> {},
   success    |-> {"reversed"},
   resolved   |-> {},
   reversed   |-> {}]

\* A row may keep its status, or take one the matrix lists for it.
isValidPaymentTransition(from, to) ==
  from = to \/ to \in PAYMENT_TRANSITIONS[from]

\* transitionPaymentState goes on after its read when the matrix and the
\* expected states both admit the status it read; otherwise it throws.
TransitionAdmits(current, expected, to) ==
  current \in expected /\ isValidPaymentTransition(current, to)
=============================================================================
