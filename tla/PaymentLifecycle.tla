-------------------------- MODULE PaymentLifecycle --------------------------
(***************************************************************************)
(* The life of an outbound payment: executePayment reserves a row, submits *)
(* to Stellar, records the hash and posts the journal; reconciler sweeps   *)
(* and operators move the row afterwards; Horizon shows the ledger with a  *)
(* lag.  Any process may stop between two awaits.                          *)
(***************************************************************************)
EXTENDS Naturals, PaymentTransitions

CONSTANTS
  Request,      \* calls of executePayment; a call that creates a row names it
  Sweep,        \* sweeps of reconcileStaleTransactions that may overlap
  MaxEnvelopes, \* envelopes one submission may put on the ledger
  Kind,         \* sender, destination and amount of a request, as one value
  Key,          \* idempotency keys callers pass; today's callers pass none
  None,         \* no key, no txHash, no row
  StaleAge,     \* staleAgeMs
  MaxStaleAge,  \* staleAgeMs * 3
  Window,       \* LEDGER_SEQUENCE_WINDOW_MS
  MaxOps        \* bound on operator actions

ASSUME ConstantsOK ==
  /\ MaxEnvelopes \in Nat \ {0}
  /\ StaleAge \in Nat \ {0}
  /\ MaxStaleAge \in Nat /\ MaxStaleAge >= StaleAge
  /\ Window \in Nat \ {0}
  /\ MaxOps \in Nat
  /\ None \notin Request \X (1 .. MaxEnvelopes)
  /\ None \notin Key

MaxAge == IF MaxStaleAge > Window THEN MaxStaleAge ELSE Window

VARIABLES
  row,     \* the Transaction table: [status, hash, key] of each row
  age,     \* time since createdAt, in units that tell the thresholds apart
  journal, \* JournalEntry counts of each row: [settled, reversed]
  pc,      \* where each executePayment call is
  on,      \* the row each call works on
  got,     \* the txHash the submission gave each call
  chain,   \* the Stellar ledger: what became of each envelope
  visible, \* the hashes Horizon has ingested
  sweep,   \* each sweep: [pc, tx, snap, to, hash]
  ops      \* operator actions taken so far

vars == <<row, age, journal, pc, on, got, chain, visible, sweep, ops>>

Hash == Request \X (1 .. MaxEnvelopes)
Status == PAYMENT_STATUSES \cup {"none"}
Row == [status : Status, hash : Hash \cup {None}, key : Key \cup {None}]
Journal == [settled : Nat, reversed : Nat]
Stage == {"idle", "submitting", "accepted", "linked", "failing", "reversing",
          "returned", "threw", "crashed"}
Cycle == [pc : {"idle", "consult", "read", "write"},
          tx : Request \cup {None},
          snap : Hash \cup {None},
          to : {"none", "success", "failed", "expired"},
          hash : Hash \cup {None}]

NoRow == [status |-> "none", hash |-> None, key |-> None]
Idle  == [pc |-> "idle", tx |-> None, snap |-> None, to |-> "none", hash |-> None]

Created(t) == row[t].status # "none"
Put(t, status, hash) ==
  [row EXCEPT ![t] = [status |-> status, hash |-> hash, key |-> row[t].key]]
Unsettled  == {"processing", "pending"}
Paid(h)    == h \in Hash /\ chain[h] = "paid"
OnLedger(h) == h \in Hash /\ chain[h] \in {"paid", "unsuccessful"}

Init ==
  /\ row = [t \in Request |-> NoRow]
  /\ age = [t \in Request |-> 0]
  /\ journal = [t \in Request |-> [settled |-> 0, reversed |-> 0]]
  /\ pc = [r \in Request |-> "idle"]
  /\ on = [r \in Request |-> r]
  /\ got = [r \in Request |-> None]
  /\ chain = [h \in Hash |-> "absent"]
  /\ visible = {}
  /\ sweep = [w \in Sweep |-> Idle]
  /\ ops = 0

-----------------------------------------------------------------------------
(* executePayment *)

\* runCore commits a fresh row and its quote in one database transaction, with
\* a key no row carries or with none.
Reserve(r) ==
  /\ pc[r] = "idle"
  /\ \E k \in Key \cup {None} :
       /\ k # None => \A t \in Request : row[t].key # k
       /\ row' = [row EXCEPT ![r] =
            [status |-> "processing", hash |-> None, key |-> k]]
  /\ pc' = [pc EXCEPT ![r] = "submitting"]
  /\ UNCHANGED <<age, journal, on, got, chain, visible, sweep, ops>>

\* The idempotency short-circuit: an earlier row holds the key.  A row that is
\* still 'processing' does not return; the call goes on with it.
Reuse(r) ==
  /\ pc[r] = "idle"
  /\ \E t \in Request :
       /\ row[t].key # None
       /\ on' = [on EXCEPT ![r] = t]
       /\ pc' = [pc EXCEPT ![r] = IF row[t].status = "processing"
                                  THEN "submitting" ELSE "returned"]
  /\ UNCHANGED <<row, age, journal, got, chain, visible, sweep, ops>>

\* A policy, quote or constraint error rolls runCore back.
Refuse(r) ==
  /\ pc[r] = "idle"
  /\ pc' = [pc EXCEPT ![r] = "threw"]
  /\ UNCHANGED <<row, age, journal, on, got, chain, visible, sweep, ops>>

\* The network includes an envelope of the running submission (createOrGetWallet
\* and walletService.submitPayment are under way).  An inclusion after the call
\* gave up differs from one before it only in when Horizon shows it, and Ingest
\* leaves that open.
Include(r) ==
  /\ pc[r] = "submitting"
  /\ \E a \in 1 .. MaxEnvelopes, fate \in {"paid", "unsuccessful"} :
       /\ chain[<<r, a>>] = "absent"
       /\ chain' = [chain EXCEPT ![<<r, a>>] = fate]
  /\ UNCHANGED <<row, age, journal, pc, on, got, visible, sweep, ops>>

\* Mutation: the signed envelope's hash is returned without Horizon's word.
AcknowledgedUnheard(h) == h \in Hash

\* What lets submitPayment return a hash: the answer to its POST, or the lookup
\* after an uncertain one, which does not ask whether the envelope succeeded.
Acknowledged(h) == OnLedger(h)

Accept(r) ==
  /\ pc[r] = "submitting"
  /\ \E a \in 1 .. MaxEnvelopes :
       /\ Acknowledged(<<r, a>>)
       /\ got' = [got EXCEPT ![r] = <<r, a>>]
  /\ pc' = [pc EXCEPT ![r] = "accepted"]
  /\ UNCHANGED <<row, age, journal, on, chain, visible, sweep, ops>>

\* The wallet lookup or the submission threw: a refusal, or no answer at all.
Throw(r) ==
  /\ pc[r] = "submitting"
  /\ pc' = [pc EXCEPT ![r] = "failing"]
  /\ UNCHANGED <<row, age, journal, on, got, chain, visible, sweep, ops>>

\* The toState of a submitted payment.
LinkedStatus == "pending"

\* transitionPaymentState processing -> pending with the hash.  Its expected
\* list has one state, so the read before the compare-and-set decides nothing
\* the compare-and-set does not.  A database error also ends in the catch, the
\* one of the read after the compare-and-set with the row already moved.
Link(r) ==
  /\ pc[r] = "accepted"
  /\ \/ /\ row[on[r]].status = "processing"
        /\ row' = Put(on[r], LinkedStatus, got[r])
        /\ \E next \in {"linked", "failing"} : pc' = [pc EXCEPT ![r] = next]
     \/ /\ pc' = [pc EXCEPT ![r] = "failing"]
        /\ UNCHANGED row
  /\ UNCHANGED <<age, journal, on, got, chain, visible, sweep, ops>>

\* Mutation: an error of appendEvent is not swallowed.
PostSettledEventThrows(r) ==
  /\ pc[r] = "linked"
  /\ journal' = [journal EXCEPT ![on[r]].settled = @ + 1]
  /\ \E next \in {"returned", "failing"} : pc' = [pc EXCEPT ![r] = next]
  /\ UNCHANGED <<row, age, on, got, chain, visible, sweep, ops>>

\* ledger.postPaymentSettled, then the receipt-less return.
PostSettled(r) ==
  /\ pc[r] = "linked"
  /\ \/ /\ journal' = [journal EXCEPT ![on[r]].settled = @ + 1]
        /\ pc' = [pc EXCEPT ![r] = "returned"]
     \/ /\ pc' = [pc EXCEPT ![r] = "failing"]
        /\ UNCHANGED journal
  /\ UNCHANGED <<row, age, on, got, chain, visible, sweep, ops>>

\* markTransactionFailed: an unconditional write whose own error is swallowed.
MarkFailed(r) ==
  /\ pc[r] = "failing"
  /\ \/ row' = Put(on[r], "failed", row[on[r]].hash)
     \/ UNCHANGED row
  /\ pc' = [pc EXCEPT ![r] = "reversing"]
  /\ UNCHANGED <<age, journal, on, got, chain, visible, sweep, ops>>

\* ledger.postPaymentFailed in a database transaction, its error swallowed;
\* the original error is rethrown.
PostReversal(r) ==
  /\ pc[r] = "reversing"
  /\ \/ journal' = [journal EXCEPT ![on[r]].reversed = @ + 1]
     \/ UNCHANGED journal
  /\ pc' = [pc EXCEPT ![r] = "threw"]
  /\ UNCHANGED <<row, age, on, got, chain, visible, sweep, ops>>

\* The process running the call stops.
Crash(r) ==
  /\ pc[r] \notin {"idle", "returned", "threw", "crashed"}
  /\ pc' = [pc EXCEPT ![r] = "crashed"]
  /\ UNCHANGED <<row, age, journal, on, got, chain, visible, sweep, ops>>

-----------------------------------------------------------------------------
(* Time and Horizon *)

Tick(t) ==
  /\ Created(t)
  /\ age[t] < MaxAge
  /\ age' = [age EXCEPT ![t] = @ + 1]
  /\ UNCHANGED <<row, journal, pc, on, got, chain, visible, sweep, ops>>

Ingest(h) ==
  /\ OnLedger(h)
  /\ h \notin visible
  /\ visible' = visible \cup {h}
  /\ UNCHANGED <<row, age, journal, pc, on, got, chain, sweep, ops>>

-----------------------------------------------------------------------------
(* reconcileStaleTransactions.  A sweep reads all its rows at the start; a *)
(* Sweep element here holds one of them, so several elements stand for the *)
(* rows of one sweep as well as for overlapping sweeps.                    *)

isLedgerSequenceExpired(t) == age[t] >= Window

\* findMany of the stale rows: the snapshot the loop works from.
Select(w) ==
  /\ sweep[w].pc = "idle"
  /\ \E t \in Request :
       /\ row[t].status \in Unsettled
       /\ age[t] >= StaleAge
       /\ sweep' = [sweep EXCEPT ![w] =
            [pc |-> "consult", tx |-> t, snap |-> row[t].hash,
             to |-> "none", hash |-> None]]
  /\ UNCHANGED <<row, age, journal, pc, on, got, chain, visible, ops>>

\* The hash and the status the loop body settles on.
Decide(w, to, h) ==
  sweep' = [sweep EXCEPT ![w] = [pc |-> "read", tx |-> sweep[w].tx,
              snap |-> sweep[w].snap, to |-> to, hash |-> h]]
Drop(w) == sweep' = [sweep EXCEPT ![w] = Idle]

\* Mutation: a transaction record counts as success whatever its result.
ConfirmsIncluded(h) == h \in visible

\* Horizon shows the transaction, and as successful.
Confirms(h) == h \in visible /\ Paid(h)

\* A payment of the sender's recent history with the row's amount and
\* destination; the Horizon endpoint lists successful payments.
HistoryMatch(t, h) == h \in visible /\ Paid(h) /\ Kind[h[1]] = Kind[t]

\* Step 3: no evidence found, the row is old and the window is closed.
GiveUp(w) ==
  LET t == sweep[w].tx
  IN  IF age[t] >= MaxStaleAge /\ isLedgerSequenceExpired(t)
      THEN Decide(w, "failed", None)
      ELSE Drop(w)

\* Step 1 of the loop body: Horizon answers for the recorded hash.
ConsultHash(w) ==
  LET h == sweep[w].snap
  IN  /\ sweep[w].pc = "consult"
      /\ h # None
      /\ \/ Confirms(h) /\ Decide(w, "success", None)
         \/ h \in visible /\ ~Confirms(h) /\ Decide(w, "failed", None)
         \/ /\ h \notin visible
            /\ IF isLedgerSequenceExpired(sweep[w].tx)
               THEN Decide(w, "expired", None)
               ELSE Drop(w)
      /\ UNCHANGED <<row, age, journal, pc, on, got, chain, visible, ops>>

\* Steps 2 and 3: no hash, or Horizon failed on it; search the history, which
\* may fail too.
ConsultHistory(w) ==
  /\ sweep[w].pc = "consult"
  /\ \/ \E h \in visible : /\ HistoryMatch(sweep[w].tx, h)
                           /\ Decide(w, "success", h)
     \/ GiveUp(w)
  /\ UNCHANGED <<row, age, journal, pc, on, got, chain, visible, ops>>

\* transitionPaymentState reads the row and throws unless the matrix and the
\* expected states admit its status; the loop swallows the error.
TransitionRead(w) ==
  /\ sweep[w].pc = "read"
  /\ IF TransitionAdmits(row[sweep[w].tx].status, Unsettled, sweep[w].to)
     THEN sweep' = [sweep EXCEPT ![w].pc = "write"]
     ELSE Drop(w)
  /\ UNCHANGED <<row, age, journal, pc, on, got, chain, visible, ops>>

\* Mutation: the update names the row alone.
CasMatchesAny(t) == Created(t)

\* casWhere: the row's status is one of the expected states.
CasMatches(t) == row[t].status \in Unsettled

\* The compare-and-set: it tests the expected states, not the status read.
TransitionWrite(w) ==
  LET t == sweep[w].tx
  IN  /\ sweep[w].pc = "write"
      /\ IF CasMatches(t)
         THEN row' = Put(t, sweep[w].to,
                         IF sweep[w].hash = None THEN row[t].hash ELSE sweep[w].hash)
         ELSE UNCHANGED row
      /\ Drop(w)
      /\ UNCHANGED <<age, journal, pc, on, got, chain, visible, ops>>

-----------------------------------------------------------------------------
(* operatorResolveStuckPayment *)

OperatorTarget ==
  [retry |-> "processing", mark_resolved |-> "resolved", escalate |-> "escalated"]

\* The row is read and compare-and-set to the action's status inside one
\* database transaction, with the status read as the only expected state.
OperatorResolve(t) ==
  /\ ops < MaxOps
  /\ Created(t)
  /\ row[t].status \notin {"success", "resolved"}
  /\ \E action \in DOMAIN OperatorTarget :
       /\ isValidPaymentTransition(row[t].status, OperatorTarget[action])
       /\ row' = Put(t, OperatorTarget[action], row[t].hash)
  /\ ops' = ops + 1
  /\ UNCHANGED <<age, journal, pc, on, got, chain, visible, sweep>>

-----------------------------------------------------------------------------
ExecutePayment(r) ==
  \/ Reserve(r) \/ Reuse(r) \/ Refuse(r) \/ Accept(r) \/ Throw(r)
  \/ Link(r) \/ PostSettled(r) \/ MarkFailed(r) \/ PostReversal(r)

Reconcile(w) ==
  \/ Select(w) \/ ConsultHash(w) \/ ConsultHistory(w)
  \/ TransitionRead(w) \/ TransitionWrite(w)

Next ==
  \/ \E r \in Request : ExecutePayment(r) \/ Include(r) \/ Crash(r)
  \/ \E t \in Request : Tick(t) \/ OperatorResolve(t)
  \/ \E h \in Hash : Ingest(h)
  \/ \E w \in Sweep : Reconcile(w)

Spec == Init /\ [][Next]_vars

-----------------------------------------------------------------------------
(* Properties *)

\* Every variable has its type.
TypeOK ==
  /\ row \in [Request -> Row]
  /\ age \in [Request -> 0 .. MaxAge]
  /\ journal \in [Request -> Journal]
  /\ pc \in [Request -> Stage]
  /\ on \in [Request -> Request]
  /\ got \in [Request -> Hash \cup {None}]
  /\ chain \in [Hash -> {"absent", "paid", "unsuccessful"}]
  /\ visible \subseteq Hash
  /\ sweep \in [Sweep -> Cycle]
  /\ ops \in 0 .. MaxOps

\* A hash that reaches a row, from the submission, a recovered lookup or the
\* reconciler's history search, is the hash of an envelope the ledger holds.
RecordedHashOnLedger ==
  \A t \in Request : row[t].hash # None => OnLedger(row[t].hash)

\* Only the calls that share an idempotency key work on one row.
Keyless(t) == Created(t) /\ row[t].key = None

\* Ledger-backed finality: no interleaving of calls, sweeps and operators
\* leaves a row 'success' with a hash whose envelope did not move the money,
\* or moved it for another sender, destination or amount.
SuccessOnLedger ==
  \A t \in Request :
    Keyless(t) /\ row[t].status = "success" =>
      Paid(row[t].hash) /\ Kind[row[t].hash[1]] = Kind[t]

\* No payment is both settled and reversed in the journal, nor either of them
\* twice: the catch of executePayment runs only when the settlement entry was
\* not posted, wherever the call failed or stopped.
JournalPostsOnce ==
  \A t \in Request : Keyless(t) => journal[t].settled + journal[t].reversed <= 1

\* Once a sweep or an operator made a row final, only the failure write of a
\* call that is still working on the row changes it: a sweep that decided
\* earlier, and an operator, do not.
FinalRowsMoveOnlyByFailureWrite ==
  [][\A t \in Request :
       row[t].status \in {"success", "resolved"} /\ row'[t] # row[t] =>
         \E r \in Request : on[r] = t /\ pc[r] = "failing" /\ pc'[r] = "reversing"]_vars
=============================================================================
