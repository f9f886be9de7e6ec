------------------------- MODULE SubmissionContract -------------------------
(***************************************************************************)
(* What a caller of stellarAdapter.submitPayment may rely on, and no more: *)
(* the returned hash is on the ledger, and a call that returned one puts   *)
(* nothing else there.  A call that throws promises nothing: its envelopes *)
(* may already be on the ledger, several of them, or get there later.      *)
(* PaymentLifecycle's Include, Accept and Throw assume exactly this.       *)
(***************************************************************************)
EXTENDS Naturals

CONSTANTS Call, MaxAttempts

VARIABLES
  fate,    \* what the ledger did with each envelope of each call
  verdict, \* what each call told its caller
  hash     \* the envelope a call returned; 0 when none

cvars == <<fate, verdict, hash>>

Attempt == 1 .. MaxAttempts

CInit ==
  /\ fate = [c \in Call |-> [a \in Attempt |-> "absent"]]
  /\ verdict = [c \in Call |-> "idle"]
  /\ hash = [c \in Call |-> 0]

Begin(c) ==
  /\ verdict[c] = "idle"
  /\ verdict' = [verdict EXCEPT ![c] = "open"]
  /\ UNCHANGED <<fate, hash>>

\* The ledger includes an envelope, also after the call threw.
Included(c, a) ==
  /\ verdict[c] \in {"open", "error"}
  /\ fate[c][a] = "absent"
  /\ \E f \in {"paid", "unsuccessful"} : fate' = [fate EXCEPT ![c][a] = f]
  /\ UNCHANGED <<verdict, hash>>

ReturnHash(c, a) ==
  /\ verdict[c] = "open"
  /\ fate[c][a] # "absent"
  /\ verdict' = [verdict EXCEPT ![c] = "ok"]
  /\ hash' = [hash EXCEPT ![c] = a]
  /\ UNCHANGED fate

ThrowError(c) ==
  /\ verdict[c] \in {"idle", "open"}
  /\ verdict' = [verdict EXCEPT ![c] = "error"]
  /\ UNCHANGED <<fate, hash>>

CNext ==
  \E c \in Call :
    \/ Begin(c) \/ ThrowError(c)
    \/ \E a \in Attempt : Included(c, a) \/ ReturnHash(c, a)

CSpec == CInit /\ [][CNext]_cvars
=============================================================================
