----------------------- MODULE PaymentLifecycleProofs -----------------------
(***************************************************************************)
(* Proofs that hold for any number of calls, sweeps, envelopes, keys and   *)
(* operator actions: types, RecordedHashOnLedger, SuccessOnLedger and      *)
(* JournalPostsOnce.  The inductive invariant explains why a sweep may act *)
(* on a snapshot: a row's hash only ever grows from None, a call that has  *)
(* not linked its row finds no hash in it unless the row is already        *)
(* 'success', and whatever replaces a hash replaces it by a paid one.      *)
(* The last two sections are about Refunds, for any number of calls,       *)
(* envelopes, amounts, faults and retries: its journal, and how much is    *)
(* paid back.                                                              *)
(***************************************************************************)
EXTENDS PaymentLifecycle, Refunds, FiniteSetTheorems, TLAPS

\* The row's hash is a paid envelope of the row's kind.
Settles(t, h) == Paid(h) /\ Kind[h[1]] = Kind[t]

\* Each call works on its own row, unless the row carries a key.
CallsOwnRows ==
  \A r \in Request :
    /\ pc[r] = "idle" => on[r] = r /\ ~Created(r)
    /\ on[r] # r => row[on[r]].key # None
    /\ pc[r] \in {"submitting", "accepted", "linked", "failing", "reversing"}
         => Created(on[r])

\* Rows that do not exist are blank.
BlankRows == \A t \in Request : ~Created(t) => row[t] = NoRow

\* What Horizon shows, what a submission returned and what a row holds is on
\* the ledger.
HashesOnLedger ==
  /\ \A h \in visible : OnLedger(h)
  /\ \A r \in Request : pc[r] = "accepted" => OnLedger(got[r]) /\ got[r][1] = r
  /\ RecordedHashOnLedger

\* A keyless row's hash pays what the row asks for, and appears before the
\* row's own call linked it only with 'success'.
KeylessHashes ==
  \A t \in Request : Keyless(t) /\ row[t].hash # None =>
    /\ Kind[row[t].hash[1]] = Kind[t]
    /\ pc[t] \in {"submitting", "accepted"} => row[t].status = "success"

\* What a sweep may still rely on.
Knows(w) ==
  LET t == sweep[w].tx
  IN  /\ t \in Request
      /\ Created(t)
      /\ sweep[w].pc \in {"read", "write"} => sweep[w].to # "none"
      /\ sweep[w].pc = "consult" => sweep[w].hash = None
      /\ sweep[w].pc = "consult" /\ sweep[w].snap # None /\ Keyless(t) =>
           /\ row[t].hash # None
           /\ row[t].hash = sweep[w].snap \/ Settles(t, row[t].hash)
      /\ sweep[w].hash # None => sweep[w].to = "success" /\ Settles(t, sweep[w].hash)
      /\ sweep[w].pc \in {"read", "write"} /\ sweep[w].to = "success"
           /\ sweep[w].hash = None /\ Keyless(t) => Settles(t, row[t].hash)

SweepsKnow == \A w \in Sweep : sweep[w].pc # "idle" => Knows(w)

IInv ==
  /\ TypeOK
  /\ CallsOwnRows
  /\ BlankRows
  /\ HashesOnLedger
  /\ KeylessHashes
  /\ SweepsKnow
  /\ SuccessOnLedger

\* A row without a call's last word has no journal entry.
Quiet(t) == journal[t] = [settled |-> 0, reversed |-> 0]
JournalOf(t) ==
  /\ ~Created(t) => Quiet(t)
  /\ Keyless(t) => /\ pc[t] \notin {"returned", "threw"} => Quiet(t)
                   /\ journal[t].settled + journal[t].reversed <= 1
JournalInv == \A t \in Request : JournalOf(t)

-----------------------------------------------------------------------------
(* Types *)

LEMMA TypeInit == Init => TypeOK
  BY ConstantsOK DEF Init, TypeOK, Row, Status, Journal, Stage, Cycle, NoRow, Idle,
     Hash, MaxAge, PAYMENT_STATUSES

\* Writing a row, and the two ways a sweep's step ends, keep the types.
LEMMA PutType ==
  ASSUME TypeOK, NEW t \in Request, NEW status \in Status,
         NEW hash \in Hash \cup {None}
  PROVE  Put(t, status, hash) \in [Request -> Row]
  BY DEF TypeOK, Put, Row

LEMMA DecideType ==
  ASSUME TypeOK, NEW w \in Sweep, NEW hash \in Hash \cup {None},
         NEW to \in {"success", "failed", "expired"}, Decide(w, to, hash)
  PROVE  sweep' \in [Sweep -> Cycle]
  BY DEF TypeOK, Decide, Cycle

LEMMA DropType ==
  ASSUME TypeOK, NEW w \in Sweep, Drop(w)
  PROVE  sweep' \in [Sweep -> Cycle]
  BY DEF TypeOK, Drop, Idle, Cycle

LEMMA TypeNext == ASSUME TypeOK, [Next]_vars PROVE TypeOK'
<1> USE DEF TypeOK
<1>1. ASSUME NEW r \in Request, Reserve(r) PROVE TypeOK'
  BY <1>1 DEF Reserve, Row, Status, PAYMENT_STATUSES, Stage
<1>2. ASSUME NEW r \in Request, Reuse(r) PROVE TypeOK'
  BY <1>2 DEF Reuse, Stage
<1>3. ASSUME NEW r \in Request, Refuse(r) PROVE TypeOK'
  BY <1>3 DEF Refuse, Stage
<1>4. ASSUME NEW r \in Request, Accept(r) PROVE TypeOK'
  BY <1>4 DEF Accept, Stage, Hash, Acknowledged, OnLedger
<1>5. ASSUME NEW r \in Request, Throw(r) PROVE TypeOK'
  BY <1>5 DEF Throw, Stage
<1>6. ASSUME NEW r \in Request, Link(r) PROVE TypeOK'
  <2>1. LinkedStatus \in Status
    BY DEF LinkedStatus, Status, PAYMENT_STATUSES
  <2>2. row' \in [Request -> Row]
    BY <1>6, <2>1, PutType DEF Link
  <2>3. QED
    BY <1>6, <2>2 DEF Link, Stage
<1>7. ASSUME NEW r \in Request, PostSettled(r) PROVE TypeOK'
  <2>1. journal' \in [Request -> Journal]
    BY <1>7 DEF PostSettled, Journal
  <2>2. QED
    BY <1>7, <2>1 DEF PostSettled, Stage
<1>8. ASSUME NEW r \in Request, MarkFailed(r) PROVE TypeOK'
  <2>1. row' \in [Request -> Row]
    <3>1. "failed" \in Status /\ row[on[r]].hash \in Hash \cup {None}
      BY DEF Row, Status, PAYMENT_STATUSES
    <3>2. QED
      BY <1>8, <3>1, PutType DEF MarkFailed
  <2>2. QED
    BY <1>8, <2>1 DEF MarkFailed, Stage
<1>9. ASSUME NEW r \in Request, PostReversal(r) PROVE TypeOK'
  <2>1. journal' \in [Request -> Journal]
    BY <1>9 DEF PostReversal, Journal
  <2>2. QED
    BY <1>9, <2>1 DEF PostReversal, Stage
<1>10. ASSUME NEW r \in Request, Include(r) PROVE TypeOK'
  BY <1>10 DEF Include, Hash
<1>11. ASSUME NEW r \in Request, Crash(r) PROVE TypeOK'
  BY <1>11 DEF Crash, Stage
<1>12. ASSUME NEW t \in Request, Tick(t) PROVE TypeOK'
  BY ConstantsOK, <1>12 DEF Tick, MaxAge
<1>13. ASSUME NEW t \in Request, OperatorResolve(t) PROVE TypeOK'
  <2>1. \A action \in DOMAIN OperatorTarget : OperatorTarget[action] \in Status
    BY DEF OperatorTarget, Status, PAYMENT_STATUSES
  <2>2. row' \in [Request -> Row]
    <3>1. row[t].hash \in Hash \cup {None}
      BY DEF Row
    <3>2. QED
      BY <1>13, <2>1, <3>1, PutType DEF OperatorResolve
  <2>3. QED
    BY ConstantsOK, <1>13, <2>2 DEF OperatorResolve
<1>14. ASSUME NEW w \in Sweep, Select(w) PROVE TypeOK'
  BY <1>14 DEF Select, Idle, Cycle, Row
<1>15. ASSUME NEW w \in Sweep, ConsultHash(w) PROVE TypeOK'
  BY <1>15, DecideType, DropType DEF ConsultHash
<1>16. ASSUME NEW w \in Sweep, ConsultHistory(w) PROVE TypeOK'
  BY <1>16, DecideType, DropType DEF ConsultHistory, GiveUp
<1>17. ASSUME NEW w \in Sweep, TransitionRead(w) PROVE TypeOK'
  BY <1>17, DropType DEF TransitionRead, Cycle
<1>18. ASSUME NEW w \in Sweep, TransitionWrite(w) PROVE TypeOK'
  <2> DEFINE hash == IF sweep[w].hash = None THEN row[sweep[w].tx].hash
                     ELSE sweep[w].hash
  <2>1. sweep' \in [Sweep -> Cycle]
    BY <1>18, DropType DEF TransitionWrite
  <2>2. CASE sweep[w].tx \in Request
    <3>1. sweep[w].to \in Status /\ hash \in Hash \cup {None}
      BY <2>2 DEF Cycle, Row, Status, PAYMENT_STATUSES
    <3>2. row' \in [Request -> Row]
      BY <1>18, <2>2, <3>1, PutType DEF TransitionWrite
    <3>3. QED
      BY <1>18, <2>1, <3>2 DEF TransitionWrite
  <2>3. CASE sweep[w].tx \notin Request
    <3>1. row' = row
      BY <1>18, <2>3 DEF TransitionWrite, Put
    <3>2. QED
      BY <1>18, <2>1, <3>1 DEF TransitionWrite
  <2>4. QED
    BY <2>2, <2>3
<1>19. ASSUME NEW h \in Hash, Ingest(h) PROVE TypeOK'
  BY <1>19 DEF Ingest
<1>20. CASE UNCHANGED vars
  BY <1>20 DEF vars
<1>21. QED
  BY <1>1, <1>2, <1>3, <1>4, <1>5, <1>6, <1>7, <1>8, <1>9, <1>10, <1>11, <1>12, <1>13, <1>14, <1>15, <1>16, <1>17, <1>18, <1>19, <1>20
     DEF Next, ExecutePayment, Reconcile

-----------------------------------------------------------------------------
(* The inductive invariant *)

\* What the ledger holds it keeps.
LEMMA LedgerOnlyGrows ==
  ASSUME TypeOK, [Next]_vars
  PROVE  \A h \in Hash : (Paid(h) => Paid(h)') /\ (OnLedger(h) => OnLedger(h)')
<1> USE DEF TypeOK, Paid, OnLedger
<1> DEFINE Keeps == \A h \in Hash : (Paid(h) => Paid(h)') /\ (OnLedger(h) => OnLedger(h)')
<1>1. ASSUME NEW r \in Request, Reserve(r) PROVE Keeps
  BY <1>1 DEF Reserve
<1>2. ASSUME NEW r \in Request, Reuse(r) PROVE Keeps
  BY <1>2 DEF Reuse
<1>3. ASSUME NEW r \in Request, Refuse(r) PROVE Keeps
  BY <1>3 DEF Refuse
<1>4. ASSUME NEW r \in Request, Accept(r) PROVE Keeps
  BY <1>4 DEF Accept
<1>5. ASSUME NEW r \in Request, Throw(r) PROVE Keeps
  BY <1>5 DEF Throw
<1>6. ASSUME NEW r \in Request, Link(r) PROVE Keeps
  BY <1>6 DEF Link
<1>7. ASSUME NEW r \in Request, PostSettled(r) PROVE Keeps
  BY <1>7 DEF PostSettled
<1>8. ASSUME NEW r \in Request, MarkFailed(r) PROVE Keeps
  BY <1>8 DEF MarkFailed
<1>9. ASSUME NEW r \in Request, PostReversal(r) PROVE Keeps
  BY <1>9 DEF PostReversal
<1>10. ASSUME NEW r \in Request, Include(r) PROVE Keeps
  BY <1>10 DEF Include, Hash
<1>11. ASSUME NEW r \in Request, Crash(r) PROVE Keeps
  BY <1>11 DEF Crash
<1>12. ASSUME NEW t \in Request, Tick(t) PROVE Keeps
  BY <1>12 DEF Tick
<1>13. ASSUME NEW t \in Request, OperatorResolve(t) PROVE Keeps
  BY <1>13 DEF OperatorResolve
<1>14. ASSUME NEW w \in Sweep, Select(w) PROVE Keeps
  BY <1>14 DEF Select
<1>15. ASSUME NEW w \in Sweep, ConsultHash(w) PROVE Keeps
  BY <1>15 DEF ConsultHash
<1>16. ASSUME NEW w \in Sweep, ConsultHistory(w) PROVE Keeps
  BY <1>16 DEF ConsultHistory
<1>17. ASSUME NEW w \in Sweep, TransitionRead(w) PROVE Keeps
  BY <1>17 DEF TransitionRead
<1>18. ASSUME NEW w \in Sweep, TransitionWrite(w) PROVE Keeps
  BY <1>18 DEF TransitionWrite
<1>19. ASSUME NEW h \in Hash, Ingest(h) PROVE Keeps
  BY <1>19 DEF Ingest
<1>20. CASE UNCHANGED vars
  BY <1>20 DEF vars
<1>21. QED
  BY <1>1, <1>2, <1>3, <1>4, <1>5, <1>6, <1>7, <1>8, <1>9, <1>10, <1>11,
     <1>12, <1>13, <1>14, <1>15, <1>16, <1>17, <1>18, <1>19, <1>20
     DEF Next, ExecutePayment, Reconcile

\* A row stays, keeps its key, and never loses its hash.
LEMMA RowsPersist ==
  ASSUME TypeOK, CallsOwnRows, HashesOnLedger, SweepsKnow, [Next]_vars
  PROVE  \A t \in Request : Created(t) =>
           /\ Created(t)'
           /\ row'[t].key = row[t].key
           /\ row[t].hash # None => row'[t].hash # None
<1> USE DEF TypeOK, Created
<1> DEFINE Stays == \A t \in Request : Created(t) =>
           /\ Created(t)'
           /\ row'[t].key = row[t].key
           /\ row[t].hash # None => row'[t].hash # None
<1>1. ASSUME NEW r \in Request, Reserve(r) PROVE Stays
  BY <1>1 DEF Reserve, CallsOwnRows
<1>2. ASSUME NEW r \in Request, Reuse(r) PROVE Stays
  BY <1>2 DEF Reuse
<1>3. ASSUME NEW r \in Request, Refuse(r) PROVE Stays
  BY <1>3 DEF Refuse
<1>4. ASSUME NEW r \in Request, Accept(r) PROVE Stays
  BY <1>4 DEF Accept
<1>5. ASSUME NEW r \in Request, Throw(r) PROVE Stays
  BY <1>5 DEF Throw
<1>6. ASSUME NEW r \in Request, Link(r) PROVE Stays
  <2>1. got[r] # None /\ on[r] \in Request
    BY <1>6, ConstantsOK DEF Link, HashesOnLedger, OnLedger, Hash
  <2>2. QED
    BY <1>6, <2>1 DEF Link, Put, LinkedStatus
<1>7. ASSUME NEW r \in Request, PostSettled(r) PROVE Stays
  BY <1>7 DEF PostSettled
<1>8. ASSUME NEW r \in Request, MarkFailed(r) PROVE Stays
  BY <1>8 DEF MarkFailed, Put
<1>9. ASSUME NEW r \in Request, PostReversal(r) PROVE Stays
  BY <1>9 DEF PostReversal
<1>10. ASSUME NEW r \in Request, Include(r) PROVE Stays
  BY <1>10 DEF Include
<1>11. ASSUME NEW r \in Request, Crash(r) PROVE Stays
  BY <1>11 DEF Crash
<1>12. ASSUME NEW t \in Request, Tick(t) PROVE Stays
  BY <1>12 DEF Tick
<1>13. ASSUME NEW t \in Request, OperatorResolve(t) PROVE Stays
  BY <1>13 DEF OperatorResolve, Put, OperatorTarget
<1>14. ASSUME NEW w \in Sweep, Select(w) PROVE Stays
  BY <1>14 DEF Select
<1>15. ASSUME NEW w \in Sweep, ConsultHash(w) PROVE Stays
  BY <1>15 DEF ConsultHash
<1>16. ASSUME NEW w \in Sweep, ConsultHistory(w) PROVE Stays
  BY <1>16 DEF ConsultHistory
<1>17. ASSUME NEW w \in Sweep, TransitionRead(w) PROVE Stays
  BY <1>17 DEF TransitionRead
<1>18. ASSUME NEW w \in Sweep, TransitionWrite(w) PROVE Stays
  <2>1. sweep[w].tx \in Request /\ sweep[w].to # "none"
    BY <1>18 DEF TransitionWrite, SweepsKnow, Knows
  <2>2. QED
    BY <1>18, <2>1 DEF TransitionWrite, Put
<1>19. ASSUME NEW h \in Hash, Ingest(h) PROVE Stays
  BY <1>19 DEF Ingest
<1>20. CASE UNCHANGED vars
  BY <1>20 DEF vars
<1>21. QED
  BY <1>1, <1>2, <1>3, <1>4, <1>5, <1>6, <1>7, <1>8, <1>9, <1>10, <1>11,
     <1>12, <1>13, <1>14, <1>15, <1>16, <1>17, <1>18, <1>19, <1>20
     DEF Next, ExecutePayment, Reconcile

LEMMA CallsOwnRowsNext ==
  ASSUME IInv, [Next]_vars
  PROVE  CallsOwnRows'
<1> USE DEF IInv, TypeOK, CallsOwnRows, Created
<1>1. ASSUME NEW r \in Request, Reserve(r) PROVE CallsOwnRows'
  BY <1>1 DEF Reserve, BlankRows, NoRow
<1>2. ASSUME NEW r \in Request, Reuse(r) PROVE CallsOwnRows'
  BY <1>2 DEF Reuse
<1>3. ASSUME NEW r \in Request, Refuse(r) PROVE CallsOwnRows'
  BY <1>3 DEF Refuse
<1>4. ASSUME NEW r \in Request, Accept(r) PROVE CallsOwnRows'
  BY <1>4 DEF Accept
<1>5. ASSUME NEW r \in Request, Throw(r) PROVE CallsOwnRows'
  BY <1>5 DEF Throw
<1>6. ASSUME NEW r \in Request, Link(r) PROVE CallsOwnRows'
  BY <1>6 DEF Link, Put, LinkedStatus
<1>7. ASSUME NEW r \in Request, PostSettled(r) PROVE CallsOwnRows'
  BY <1>7 DEF PostSettled
<1>8. ASSUME NEW r \in Request, MarkFailed(r) PROVE CallsOwnRows'
  BY <1>8 DEF MarkFailed, Put
<1>9. ASSUME NEW r \in Request, PostReversal(r) PROVE CallsOwnRows'
  BY <1>9 DEF PostReversal
<1>10. ASSUME NEW r \in Request, Include(r) PROVE CallsOwnRows'
  BY <1>10 DEF Include
<1>11. ASSUME NEW r \in Request, Crash(r) PROVE CallsOwnRows'
  BY <1>11 DEF Crash
<1>12. ASSUME NEW t \in Request, Tick(t) PROVE CallsOwnRows'
  BY <1>12 DEF Tick
<1>13. ASSUME NEW t \in Request, OperatorResolve(t) PROVE CallsOwnRows'
  BY <1>13 DEF OperatorResolve, Put, OperatorTarget
<1>14. ASSUME NEW w \in Sweep, Select(w) PROVE CallsOwnRows'
  BY <1>14 DEF Select
<1>15. ASSUME NEW w \in Sweep, ConsultHash(w) PROVE CallsOwnRows'
  BY <1>15 DEF ConsultHash
<1>16. ASSUME NEW w \in Sweep, ConsultHistory(w) PROVE CallsOwnRows'
  BY <1>16 DEF ConsultHistory
<1>17. ASSUME NEW w \in Sweep, TransitionRead(w) PROVE CallsOwnRows'
  BY <1>17 DEF TransitionRead
<1>18. ASSUME NEW w \in Sweep, TransitionWrite(w) PROVE CallsOwnRows'
  BY <1>18 DEF TransitionWrite, Put, SweepsKnow, Knows
<1>19. ASSUME NEW h \in Hash, Ingest(h) PROVE CallsOwnRows'
  BY <1>19 DEF Ingest
<1>20. CASE UNCHANGED vars
  BY <1>20 DEF vars
<1>21. QED
  BY <1>1, <1>2, <1>3, <1>4, <1>5, <1>6, <1>7, <1>8, <1>9, <1>10, <1>11,
     <1>12, <1>13, <1>14, <1>15, <1>16, <1>17, <1>18, <1>19, <1>20
     DEF Next, ExecutePayment, Reconcile

LEMMA BlankRowsNext ==
  ASSUME IInv, [Next]_vars
  PROVE  BlankRows'
<1> USE DEF IInv, TypeOK, BlankRows, Created, CallsOwnRows
<1>1. ASSUME NEW r \in Request, Reserve(r) PROVE BlankRows'
  BY <1>1 DEF Reserve
<1>2. ASSUME NEW r \in Request, Reuse(r) PROVE BlankRows'
  BY <1>2 DEF Reuse
<1>3. ASSUME NEW r \in Request, Refuse(r) PROVE BlankRows'
  BY <1>3 DEF Refuse
<1>4. ASSUME NEW r \in Request, Accept(r) PROVE BlankRows'
  BY <1>4 DEF Accept
<1>5. ASSUME NEW r \in Request, Throw(r) PROVE BlankRows'
  BY <1>5 DEF Throw
<1>6. ASSUME NEW r \in Request, Link(r) PROVE BlankRows'
  BY <1>6 DEF Link, Put, LinkedStatus
<1>7. ASSUME NEW r \in Request, PostSettled(r) PROVE BlankRows'
  BY <1>7 DEF PostSettled
<1>8. ASSUME NEW r \in Request, MarkFailed(r) PROVE BlankRows'
  BY <1>8 DEF MarkFailed, Put
<1>9. ASSUME NEW r \in Request, PostReversal(r) PROVE BlankRows'
  BY <1>9 DEF PostReversal
<1>10. ASSUME NEW r \in Request, Include(r) PROVE BlankRows'
  BY <1>10 DEF Include
<1>11. ASSUME NEW r \in Request, Crash(r) PROVE BlankRows'
  BY <1>11 DEF Crash
<1>12. ASSUME NEW t \in Request, Tick(t) PROVE BlankRows'
  BY <1>12 DEF Tick
<1>13. ASSUME NEW t \in Request, OperatorResolve(t) PROVE BlankRows'
  BY <1>13 DEF OperatorResolve, Put, OperatorTarget
<1>14. ASSUME NEW w \in Sweep, Select(w) PROVE BlankRows'
  BY <1>14 DEF Select
<1>15. ASSUME NEW w \in Sweep, ConsultHash(w) PROVE BlankRows'
  BY <1>15 DEF ConsultHash
<1>16. ASSUME NEW w \in Sweep, ConsultHistory(w) PROVE BlankRows'
  BY <1>16 DEF ConsultHistory
<1>17. ASSUME NEW w \in Sweep, TransitionRead(w) PROVE BlankRows'
  BY <1>17 DEF TransitionRead
<1>18. ASSUME NEW w \in Sweep, TransitionWrite(w) PROVE BlankRows'
  BY <1>18 DEF TransitionWrite, Put, SweepsKnow, Knows, Created
<1>19. ASSUME NEW h \in Hash, Ingest(h) PROVE BlankRows'
  BY <1>19 DEF Ingest
<1>20. CASE UNCHANGED vars
  BY <1>20 DEF vars
<1>21. QED
  BY <1>1, <1>2, <1>3, <1>4, <1>5, <1>6, <1>7, <1>8, <1>9, <1>10, <1>11,
     <1>12, <1>13, <1>14, <1>15, <1>16, <1>17, <1>18, <1>19, <1>20
     DEF Next, ExecutePayment, Reconcile

LEMMA HashesOnLedgerNext ==
  ASSUME IInv, [Next]_vars
  PROVE  HashesOnLedger'
<1> USE DEF IInv, TypeOK, HashesOnLedger, RecordedHashOnLedger, OnLedger
<1>1. ASSUME NEW r \in Request, Reserve(r) PROVE HashesOnLedger'
  BY <1>1 DEF Reserve
<1>2. ASSUME NEW r \in Request, Reuse(r) PROVE HashesOnLedger'
  BY <1>2 DEF Reuse
<1>3. ASSUME NEW r \in Request, Refuse(r) PROVE HashesOnLedger'
  BY <1>3 DEF Refuse
<1>4. ASSUME NEW r \in Request, Accept(r) PROVE HashesOnLedger'
  BY <1>4 DEF Accept, Acknowledged, Hash
<1>5. ASSUME NEW r \in Request, Throw(r) PROVE HashesOnLedger'
  BY <1>5 DEF Throw
<1>6. ASSUME NEW r \in Request, Link(r) PROVE HashesOnLedger'
  BY <1>6 DEF Link, Put
<1>7. ASSUME NEW r \in Request, PostSettled(r) PROVE HashesOnLedger'
  BY <1>7 DEF PostSettled
<1>8. ASSUME NEW r \in Request, MarkFailed(r) PROVE HashesOnLedger'
  BY <1>8 DEF MarkFailed, Put
<1>9. ASSUME NEW r \in Request, PostReversal(r) PROVE HashesOnLedger'
  BY <1>9 DEF PostReversal
<1>10. ASSUME NEW r \in Request, Include(r) PROVE HashesOnLedger'
  BY <1>10 DEF Include, Hash
<1>11. ASSUME NEW r \in Request, Crash(r) PROVE HashesOnLedger'
  BY <1>11 DEF Crash
<1>12. ASSUME NEW t \in Request, Tick(t) PROVE HashesOnLedger'
  BY <1>12 DEF Tick
<1>13. ASSUME NEW t \in Request, OperatorResolve(t) PROVE HashesOnLedger'
  BY <1>13 DEF OperatorResolve, Put
<1>14. ASSUME NEW w \in Sweep, Select(w) PROVE HashesOnLedger'
  BY <1>14 DEF Select
<1>15. ASSUME NEW w \in Sweep, ConsultHash(w) PROVE HashesOnLedger'
  BY <1>15 DEF ConsultHash
<1>16. ASSUME NEW w \in Sweep, ConsultHistory(w) PROVE HashesOnLedger'
  BY <1>16 DEF ConsultHistory
<1>17. ASSUME NEW w \in Sweep, TransitionRead(w) PROVE HashesOnLedger'
  BY <1>17 DEF TransitionRead
<1>18. ASSUME NEW w \in Sweep, TransitionWrite(w) PROVE HashesOnLedger'
  BY <1>18 DEF TransitionWrite, Put, SweepsKnow, Knows, Settles, Paid
<1>19. ASSUME NEW h \in Hash, Ingest(h) PROVE HashesOnLedger'
  BY <1>19 DEF Ingest
<1>20. CASE UNCHANGED vars
  BY <1>20 DEF vars
<1>21. QED
  BY <1>1, <1>2, <1>3, <1>4, <1>5, <1>6, <1>7, <1>8, <1>9, <1>10, <1>11,
     <1>12, <1>13, <1>14, <1>15, <1>16, <1>17, <1>18, <1>19, <1>20
     DEF Next, ExecutePayment, Reconcile

\* Who changes a row, and how: its reservation, its link, a status written over
\* the same hash (never 'success', and never over a call that is still
\* submitting, unless the row was not 'success'), or a sweep.
Reserved(t) == pc[t] = "idle" /\ row[t] = NoRow /\ row'[t].hash = None
                 /\ row'[t].status = "processing"
Linked(t) == \E r \in Request :
  /\ pc[r] = "accepted" /\ pc'[r] \in {"linked", "failing"} /\ on[r] = t
  /\ row[t].status = "processing"
  /\ row'[t] = [status |-> "pending", hash |-> got[r], key |-> row[t].key]
StatusWritten(t) ==
  /\ row'[t].hash = row[t].hash /\ row'[t].key = row[t].key
  /\ row'[t].status # "success"
  /\ \/ row[t].status # "success"
     \/ \E r \in Request : on[r] = t /\ pc[r] = "failing"
Swept(t) == \E w \in Sweep : TransitionWrite(w) /\ sweep[w].tx = t

LEMMA RowSteps ==
  ASSUME IInv, [Next]_vars, NEW t \in Request
  PROVE  row'[t] = row[t] \/ Reserved(t) \/ Linked(t) \/ StatusWritten(t) \/ Swept(t)
<1> USE DEF IInv, TypeOK
<1> DEFINE G == row'[t] = row[t] \/ Reserved(t) \/ Linked(t) \/ StatusWritten(t) \/ Swept(t)
<1>1. ASSUME NEW r \in Request, Reserve(r) PROVE G
  BY <1>1 DEF Reserve, Reserved, CallsOwnRows, BlankRows
<1>2. ASSUME NEW r \in Request, Link(r) PROVE G
  BY <1>2 DEF Link, Put, LinkedStatus, Linked
<1>3. ASSUME NEW r \in Request, MarkFailed(r) PROVE G
  BY <1>3 DEF MarkFailed, Put, StatusWritten
<1>4. ASSUME NEW r \in Request, OperatorResolve(r) PROVE G
  BY <1>4 DEF OperatorResolve, Put, OperatorTarget, StatusWritten
<1>5. ASSUME NEW w \in Sweep, TransitionWrite(w) PROVE G
  <2>1. CASE sweep[w].tx = t
    BY <1>5, <2>1 DEF Swept
  <2>2. CASE sweep[w].tx # t
    BY <1>5, <2>2 DEF TransitionWrite, Put
  <2>3. QED
    BY <2>1, <2>2
<1>6. CASE UNCHANGED row
  BY <1>6
<1>7. QED
  BY <1>1, <1>2, <1>3, <1>4, <1>5, <1>6
     DEF Next, vars, ExecutePayment, Reconcile, Reuse, Refuse, Accept, Throw,
         PostSettled, PostReversal, Include, Crash, Tick, Ingest, Select,
         ConsultHash, ConsultHistory, TransitionRead

\* A sweep's write leaves a row alone, or replaces its hash by one that settles
\* it; 'success' comes only with a hash that does.
LEMMA SweptRow ==
  ASSUME IInv, NEW t \in Request, Swept(t)
  PROVE  /\ chain' = chain /\ pc' = pc /\ on' = on
         /\ \/ row'[t] = row[t]
            \/ /\ row'[t].key = row[t].key
               /\ row[t].status \in Unsettled
               /\ \/ row'[t].hash = row[t].hash /\ row'[t].status # "success"
                  \/ row'[t].status = "success" /\ (Keyless(t) => Settles(t, row'[t].hash))
<1> USE DEF IInv, TypeOK
<1>1. PICK w \in Sweep : TransitionWrite(w) /\ sweep[w].tx = t
  BY DEF Swept
<1>2. Knows(w)
  BY <1>1 DEF SweepsKnow, TransitionWrite
<1>3. UNCHANGED <<chain, pc, on>>
  BY <1>1 DEF TransitionWrite
<1>4. CASE ~CasMatches(t)
  BY <1>1, <1>3, <1>4 DEF TransitionWrite
<1>5. CASE CasMatches(t)
  <2>1. row'[t] = [status |-> sweep[w].to,
                   hash |-> IF sweep[w].hash = None THEN row[t].hash ELSE sweep[w].hash,
                   key |-> row[t].key]
    BY <1>1, <1>5 DEF TransitionWrite, Put
  <2>2. sweep[w].pc = "write"
    BY <1>1 DEF TransitionWrite
  <2>3. CASE sweep[w].to = "success"
    BY <1>1, <1>2, <1>3, <1>5, <2>1, <2>2, <2>3 DEF Knows, CasMatches
  <2>4. CASE sweep[w].to # "success"
    BY <1>1, <1>2, <1>3, <1>5, <2>1, <2>4 DEF Knows, CasMatches
  <2>5. QED
    BY <2>3, <2>4
<1>6. QED
  BY <1>4, <1>5

\* A call begins to submit when it leaves 'idle'.
LEMMA CallSteps ==
  ASSUME TypeOK, [Next]_vars, NEW t \in Request, pc'[t] \in {"submitting", "accepted"}
  PROVE  pc[t] \in {"idle", "submitting", "accepted"}
<1> USE DEF TypeOK
<1>1. ASSUME NEW r \in Request, ExecutePayment(r)
      PROVE  pc[t] \in {"idle", "submitting", "accepted"}
  <2>1. CASE Reserve(r) \/ Reuse(r) \/ Refuse(r)
    BY <2>1 DEF Reserve, Reuse, Refuse
  <2>2. CASE Accept(r) \/ Throw(r) \/ Link(r)
    BY <2>2 DEF Accept, Throw, Link
  <2>3. CASE PostSettled(r) \/ MarkFailed(r) \/ PostReversal(r)
    BY <2>3 DEF PostSettled, MarkFailed, PostReversal
  <2>4. QED
    BY <1>1, <2>1, <2>2, <2>3 DEF ExecutePayment
<1>2. ASSUME NEW r \in Request, Crash(r)
      PROVE  pc[t] \in {"idle", "submitting", "accepted"}
  BY <1>2 DEF Crash
<1>3. CASE UNCHANGED pc
  BY <1>3
<1>4. QED
  BY <1>1, <1>2, <1>3
     DEF Next, vars, Reconcile, Include, Tick, OperatorResolve, Ingest, Select,
         ConsultHash, ConsultHistory, TransitionRead, TransitionWrite

LEMMA KeylessHashesNext ==
  ASSUME IInv, [Next]_vars
  PROVE  KeylessHashes'
<1> USE DEF IInv, TypeOK
<1> SUFFICES ASSUME NEW t \in Request, Keyless(t)', row'[t].hash # None
             PROVE  /\ Kind[row'[t].hash[1]] = Kind[t]
                    /\ pc'[t] \in {"submitting", "accepted"} => row'[t].status = "success"
  BY DEF KeylessHashes
<1>1. pc'[t] \in {"submitting", "accepted"} /\ Created(t) =>
        pc[t] \in {"submitting", "accepted"}
  BY CallSteps DEF CallsOwnRows
<1>2. CASE row'[t] = row[t]
  BY <1>1, <1>2 DEF KeylessHashes, Keyless, Created
<1>3. CASE Reserved(t)
  BY <1>3 DEF Reserved
<1>4. CASE Linked(t)
  <2>1. pc[t] = "accepted" /\ pc'[t] \in {"linked", "failing"} /\ row'[t].hash = got[t]
    BY <1>4 DEF Linked, CallsOwnRows, Keyless
  <2>2. QED
    BY <2>1 DEF HashesOnLedger
<1>5. CASE StatusWritten(t)
  <2>1. Created(t)
    BY <1>5 DEF StatusWritten, BlankRows, NoRow
  <2>2. row[t].status = "success" => pc[t] = "failing"
    BY <1>5 DEF StatusWritten, CallsOwnRows, Keyless
  <2>3. QED
    BY <1>1, <1>5, <2>1, <2>2 DEF StatusWritten, KeylessHashes, Keyless
<1>6. CASE Swept(t)
  BY <1>1, <1>6, SweptRow DEF KeylessHashes, Keyless, Created, Settles, Unsettled
<1>7. QED
  BY <1>2, <1>3, <1>4, <1>5, <1>6, RowSteps

LEMMA SuccessNext ==
  ASSUME IInv, [Next]_vars
  PROVE  SuccessOnLedger'
<1> USE DEF IInv
<1> SUFFICES ASSUME NEW t \in Request, Keyless(t)', row'[t].status = "success"
             PROVE  Settles(t, row[t].hash)'
  BY DEF SuccessOnLedger, Settles
<1>1. \A h \in Hash : Paid(h) => Paid(h)'
  BY LedgerOnlyGrows
<1>2. CASE row'[t] = row[t]
  BY <1>1, <1>2 DEF SuccessOnLedger, Settles, Keyless, Created, Paid
<1>3. CASE Reserved(t) \/ Linked(t) \/ StatusWritten(t)
  <2>1. CASE Reserved(t)
    BY <2>1 DEF Reserved
  <2>2. CASE Linked(t)
    BY <2>2 DEF Linked
  <2>3. CASE StatusWritten(t)
    BY <2>3 DEF StatusWritten
  <2>4. QED
    BY <1>3, <2>1, <2>2, <2>3
<1>4. CASE Swept(t) /\ row'[t] # row[t]
  <2>1. Keyless(t) /\ chain' = chain
    BY <1>4, SweptRow DEF Keyless, Created, Unsettled
  <2>2. Settles(t, row'[t].hash)
    BY <1>4, <2>1, SweptRow
  <2>3. QED
    BY <2>1, <2>2 DEF Settles, Paid
<1>5. QED
  BY <1>2, <1>3, <1>4, RowSteps

\* A row that a sweep knows stays as known, whatever others do to it.
LEMMA KnownRow ==
  ASSUME IInv, [Next]_vars, NEW t \in Request, Created(t),
         Keyless(t)', row[t].hash # None
  PROVE  /\ Keyless(t)
         /\ row'[t].hash = row[t].hash \/ Settles(t, row[t].hash)'
<1> USE DEF IInv
<1>1. CASE row'[t] = row[t]
  BY <1>1 DEF Keyless, Created
<1>2. CASE Reserved(t)
  BY <1>2 DEF Reserved, NoRow, Created
<1>3. CASE Linked(t)
  <2>1. Keyless(t) /\ pc[t] = "accepted" /\ row[t].status = "processing"
    BY <1>3 DEF Linked, Keyless, Created, CallsOwnRows
  <2>2. QED
    BY <2>1 DEF KeylessHashes
<1>4. CASE StatusWritten(t)
  BY <1>4 DEF StatusWritten, Keyless, Created
<1>5. CASE Swept(t) /\ row'[t] # row[t]
  <2>1. Keyless(t) /\ chain' = chain
    BY <1>5, SweptRow DEF Keyless, Created, Unsettled
  <2>2. row'[t].hash = row[t].hash \/ Settles(t, row'[t].hash)
    BY <1>5, <2>1, SweptRow
  <2>3. QED
    BY <2>1, <2>2 DEF Settles, Paid
<1>6. QED
  BY <1>1, <1>2, <1>3, <1>4, <1>5, RowSteps

\* What settled a row, and what was known of it, still is.
LEMMA SettlesStays ==
  ASSUME TypeOK, [Next]_vars, NEW t \in Request, NEW h, Settles(t, h)
  PROVE  Settles(t, h)'
  BY LedgerOnlyGrows DEF Settles, Paid

LEMMA SweepsKnowNext ==
  ASSUME IInv, [Next]_vars
  PROVE  SweepsKnow'
<1> USE DEF IInv
<1> SUFFICES ASSUME NEW w \in Sweep, sweep'[w].pc # "idle"
             PROVE  Knows(w)'
  BY DEF SweepsKnow
<1>1. CASE sweep'[w] = sweep[w]
  <2>1. Knows(w) /\ sweep[w].tx \in Request
    BY <1>1 DEF SweepsKnow, Knows
  <2>2. PICK t \in Request : t = sweep[w].tx
    BY <2>1
  <2>3. Created(t) /\ Created(t)' /\ row'[t].key = row[t].key
    BY <2>1, <2>2, RowsPersist DEF Knows
  <2>4. row[t].hash # None => row'[t].hash # None
    BY <2>3, RowsPersist
  <2>5. \A h \in Hash : chain[h] = "paid" => chain'[h] = "paid"
    BY LedgerOnlyGrows DEF Paid
  <2>6. sweep[w].hash # None => sweep[w].to = "success" /\ Settles(t, sweep[w].hash)'
    BY <1>1, <2>1, <2>2, <2>5 DEF Knows, Settles, Paid
  <2>7. ASSUME Keyless(t)', row[t].hash # None
        PROVE  row'[t].hash = row[t].hash \/ Settles(t, row[t].hash)'
    BY <2>3, <2>7, KnownRow
  <2>8. ASSUME sweep[w].pc = "consult", sweep[w].snap # None, Keyless(t)'
        PROVE  /\ row'[t].hash # None
               /\ row'[t].hash = sweep[w].snap \/ Settles(t, row[t].hash)'
    <3>1. row[t].hash # None /\ (row[t].hash = sweep[w].snap \/ Settles(t, row[t].hash))
      BY <2>1, <2>2, <2>3, <2>8 DEF Knows, Keyless
    <3>2. QED
      BY <2>4, <2>5, <2>7, <2>8, <3>1 DEF Settles, Paid
  <2>9. ASSUME sweep[w].pc \in {"read", "write"}, sweep[w].to = "success",
               sweep[w].hash = None, Keyless(t)'
        PROVE  Settles(t, row[t].hash)'
    <3>1. Settles(t, row[t].hash)
      BY <2>1, <2>2, <2>3, <2>9 DEF Knows, Keyless
    <3>2. row[t].hash # None
      BY <3>1, ConstantsOK DEF Settles, Paid, Hash
    <3>3. QED
      BY <2>5, <2>7, <2>9, <3>1, <3>2 DEF Settles, Paid
  <2>10. QED
    BY <1>1, <2>1, <2>2, <2>3, <2>6, <2>8, <2>9 DEF Knows
<1>2. CASE Select(w)
  BY <1>2, ConstantsOK DEF Select, Knows, Unsettled, Created, Keyless, TypeOK
<1>3. CASE ConsultHash(w)
  <2>1. Knows(w) /\ sweep[w].pc = "consult" /\ sweep[w].snap # None
    BY <1>3 DEF SweepsKnow, ConsultHash
  <2>2. UNCHANGED <<row, chain>>
    BY <1>3 DEF ConsultHash
  <2>3. PICK to \in {"success", "failed", "expired"} :
          /\ Decide(w, to, None)
          /\ to = "success" => Confirms(sweep[w].snap)
    BY <1>3 DEF ConsultHash, Drop, Idle, TypeOK
  <2>4. sweep'[w] = [pc |-> "read", tx |-> sweep[w].tx, snap |-> sweep[w].snap,
                     to |-> to, hash |-> None]
    BY <2>3 DEF Decide, TypeOK
  <2>5. Keyless(sweep[w].tx) /\ to = "success" => Settles(sweep[w].tx, row[sweep[w].tx].hash)
    BY <2>1, <2>3 DEF Knows, KeylessHashes, Confirms, Settles
  <2>6. QED
    BY <2>1, <2>2, <2>4, <2>5 DEF Knows, Keyless, Created, Settles, Paid
<1>4. CASE ConsultHistory(w)
  <2>1. Knows(w) /\ sweep[w].pc = "consult"
    BY <1>4 DEF SweepsKnow, ConsultHistory
  <2>2. UNCHANGED <<row, chain>>
    BY <1>4 DEF ConsultHistory
  <2>3. PICK to \in {"success", "failed"}, h \in Hash \cup {None} :
          /\ Decide(w, to, h)
          /\ to = "success" => h # None /\ Settles(sweep[w].tx, h)
          /\ to = "failed" => h = None
    <3>1. CASE GiveUp(w)
      BY <1>4, <3>1 DEF GiveUp, Drop, Idle, TypeOK
    <3>2. ASSUME NEW h \in visible, HistoryMatch(sweep[w].tx, h), Decide(w, "success", h)
          PROVE  \E x \in Hash \cup {None} :
                   Decide(w, "success", x) /\ x # None /\ Settles(sweep[w].tx, x)
      BY <3>2, ConstantsOK DEF HistoryMatch, Settles, Paid, Hash, TypeOK
    <3>3. QED
      BY <1>4, <3>1, <3>2 DEF ConsultHistory
  <2>4. sweep'[w] = [pc |-> "read", tx |-> sweep[w].tx, snap |-> sweep[w].snap,
                     to |-> to, hash |-> h]
    BY <2>3 DEF Decide, TypeOK
  <2>5. QED
    BY <2>1, <2>2, <2>3, <2>4 DEF Knows, Keyless, Created, Settles, Paid
<1>5. CASE TransitionRead(w)
  <2>1. Knows(w) /\ sweep[w].pc = "read"
    BY <1>5 DEF SweepsKnow, TransitionRead
  <2>2. UNCHANGED <<row, chain>>
    BY <1>5 DEF TransitionRead
  <2>3. sweep'[w] = [sweep[w] EXCEPT !.pc = "write"]
    BY <1>5 DEF TransitionRead, Drop, Idle, TypeOK
  <2>4. /\ sweep'[w].pc = "write" /\ sweep'[w].tx = sweep[w].tx
        /\ sweep'[w].to = sweep[w].to /\ sweep'[w].hash = sweep[w].hash
    BY <2>3 DEF TypeOK, Cycle
  <2>5. QED
    BY <2>1, <2>2, <2>4 DEF Knows, Keyless, Created, Settles, Paid
<1>6. CASE TransitionWrite(w)
  BY <1>6 DEF TransitionWrite, Drop, Idle, TypeOK
<1>7. ASSUME NEW v \in Sweep, Reconcile(v), v # w
      PROVE  sweep'[w] = sweep[w]
  BY <1>7 DEF TypeOK, Reconcile, Select, ConsultHash, ConsultHistory, GiveUp, Decide,
              Drop, TransitionRead, TransitionWrite
<1>8. CASE UNCHANGED sweep
  BY <1>1, <1>8
<1>9. QED
  BY <1>1, <1>2, <1>3, <1>4, <1>5, <1>6, <1>7, <1>8
     DEF Next, vars, ExecutePayment, Reconcile, Reserve, Reuse, Refuse, Accept, Throw,
         Link, PostSettled, MarkFailed, PostReversal, Include, Crash, Tick,
         OperatorResolve, Ingest

LEMMA InitIInv == Init => IInv
<1> SUFFICES ASSUME Init PROVE IInv
  OBVIOUS
<1>1. TypeOK
  BY TypeInit
<1>2. \A t \in Request : row[t] = NoRow /\ ~Created(t)
  BY DEF Init, Created, NoRow
<1>3. \A w \in Sweep : sweep[w].pc = "idle"
  BY DEF Init, Idle
<1>4. CallsOwnRows /\ BlankRows /\ HashesOnLedger
  BY <1>2 DEF Init, CallsOwnRows, BlankRows, HashesOnLedger, RecordedHashOnLedger, NoRow
<1>5. KeylessHashes /\ SuccessOnLedger
  BY <1>2 DEF KeylessHashes, SuccessOnLedger, Keyless
<1>6. SweepsKnow
  BY <1>3 DEF SweepsKnow
<1>7. QED
  BY <1>1, <1>4, <1>5, <1>6 DEF IInv

LEMMA NextIInv == IInv /\ [Next]_vars => IInv'
<1> SUFFICES ASSUME IInv, [Next]_vars PROVE IInv'
  OBVIOUS
<1>1. TypeOK'
  BY TypeNext DEF IInv
<1>2. QED
  BY <1>1, CallsOwnRowsNext, BlankRowsNext, HashesOnLedgerNext, KeylessHashesNext,
     SweepsKnowNext, SuccessNext DEF IInv

\* The inductive invariant holds in every state of every behaviour.
THEOREM Invariance == Spec => []IInv
  BY InitIInv, NextIInv, PTL DEF Spec

\* Every variable of the payment model keeps its type.
THEOREM TypeCorrect == Spec => []TypeOK
<1>1. IInv => TypeOK
  BY DEF IInv
<1>2. QED
  BY Invariance, <1>1, PTL

\* Every hash a payment row holds is the hash of an envelope on the ledger.
THEOREM HashOnLedger == Spec => []RecordedHashOnLedger
<1>1. IInv => RecordedHashOnLedger
  BY DEF IInv, HashesOnLedger
<1>2. QED
  BY Invariance, <1>1, PTL

\* Ledger-backed finality: a 'success' row of a caller without an idempotency
\* key always holds the hash of a paid envelope of its sender, destination and
\* amount, however calls, sweeps and operators interleave.
THEOREM Finality == Spec => []SuccessOnLedger
<1>1. IInv => SuccessOnLedger
  BY DEF IInv
<1>2. QED
  BY Invariance, <1>1, PTL

LEMMA JournalInvInit == Init => JournalInv
  BY DEF Init, JournalInv, JournalOf, Quiet, Keyless, Created, NoRow

\* A call that returned or threw does nothing more.
LEMMA EndedCalls ==
  ASSUME TypeOK, [Next]_vars, NEW t \in Request, pc[t] \in {"returned", "threw"}
  PROVE  pc'[t] = pc[t]
<1> USE DEF TypeOK
<1>1. ASSUME NEW r \in Request, ExecutePayment(r) PROVE pc'[t] = pc[t]
  <2>1. CASE Reserve(r) \/ Reuse(r) \/ Refuse(r)
    BY <2>1 DEF Reserve, Reuse, Refuse
  <2>2. CASE Accept(r) \/ Throw(r) \/ Link(r)
    BY <2>2 DEF Accept, Throw, Link
  <2>3. CASE PostSettled(r) \/ MarkFailed(r) \/ PostReversal(r)
    BY <2>3 DEF PostSettled, MarkFailed, PostReversal
  <2>4. QED
    BY <1>1, <2>1, <2>2, <2>3 DEF ExecutePayment
<1>2. ASSUME NEW r \in Request, Crash(r) PROVE pc'[t] = pc[t]
  BY <1>2 DEF Crash
<1>3. CASE UNCHANGED pc
  BY <1>3
<1>4. QED
  BY <1>1, <1>2, <1>3
     DEF Next, vars, Reconcile, Include, Tick, OperatorResolve, Ingest, Select,
         ConsultHash, ConsultHistory, TransitionRead, TransitionWrite

LEMMA JournalInvNext ==
  ASSUME IInv, JournalInv, [Next]_vars
  PROVE  JournalInv'
<1> USE DEF IInv, TypeOK
<1> SUFFICES ASSUME NEW t \in Request PROVE JournalOf(t)'
  BY DEF JournalInv
<1>1. JournalOf(t)
  BY DEF JournalInv
<1>2. CASE journal'[t] = journal[t]
  <2>1. ~Created(t)' => ~Created(t)
    BY RowsPersist
  <2>2. Keyless(t)' => Keyless(t) \/ ~Created(t)
    BY RowsPersist DEF Keyless
  <2>3. pc'[t] \notin {"returned", "threw"} => pc[t] \notin {"returned", "threw"}
    BY EndedCalls
  <2>4. Quiet(t) => Quiet(t)' /\ (journal[t].settled + journal[t].reversed <= 1)'
    BY <1>2 DEF Quiet
  <2>5. (journal[t].settled + journal[t].reversed)' = journal[t].settled + journal[t].reversed
    BY <1>2
  <2>6. QED
    BY <1>1, <2>1, <2>2, <2>3, <2>4, <2>5 DEF JournalOf
<1>3. ASSUME NEW r \in Request, PostSettled(r) \/ PostReversal(r)
      PROVE  JournalOf(t)'
  <2>1. row' = row /\ Created(on[r])
    BY <1>3 DEF PostSettled, PostReversal, CallsOwnRows
  <2>2. CASE on[r] # t
    BY <1>2, <1>3, <2>2 DEF PostSettled, PostReversal
  <2>3. CASE on[r] = t /\ r # t
    BY <2>1, <2>3 DEF JournalOf, Keyless, Created, CallsOwnRows
  <2>4. CASE on[r] = t /\ r = t
    <3>1. Keyless(t) => Quiet(t)
      BY <1>1, <1>3, <2>4 DEF JournalOf, PostSettled, PostReversal
    <3>2. \/ journal'[t] = journal[t]
          \/ /\ pc'[t] \in {"returned", "threw"}
             /\ \/ journal'[t] = [journal[t] EXCEPT !.settled = @ + 1]
                \/ journal'[t] = [journal[t] EXCEPT !.reversed = @ + 1]
      BY <1>3, <2>4 DEF PostSettled, PostReversal
    <3>3. CASE journal'[t] = journal[t]
      BY <1>2, <3>3
    <3>4. CASE journal'[t] = [journal[t] EXCEPT !.settled = @ + 1]
      BY <2>1, <2>4, <3>1, <3>2, <3>4 DEF JournalOf, Keyless, Created, Quiet
    <3>5. CASE journal'[t] = [journal[t] EXCEPT !.reversed = @ + 1]
      BY <2>1, <2>4, <3>1, <3>2, <3>5 DEF JournalOf, Keyless, Created, Quiet
    <3>6. QED
      BY <3>2, <3>3, <3>4, <3>5
  <2>5. QED
    BY <2>2, <2>3, <2>4
<1>4. CASE UNCHANGED journal
  BY <1>2, <1>4
<1>5. QED
  BY <1>3, <1>4
     DEF Next, vars, ExecutePayment, Reconcile, Reserve, Reuse, Refuse, Accept,
         Throw, Link, MarkFailed, Include, Crash, Tick, OperatorResolve, Ingest,
         Select, ConsultHash, ConsultHistory, TransitionRead, TransitionWrite

\* No payment is settled twice, reversed twice, or both, in the journal.
THEOREM JournalOnce == Spec => []JournalPostsOnce
<1>1. Init => IInv /\ JournalInv
  BY InitIInv, JournalInvInit
<1>2. IInv /\ JournalInv /\ [Next]_vars => (IInv /\ JournalInv)'
  BY NextIInv, JournalInvNext
<1>3. JournalInv => JournalPostsOnce
  BY DEF JournalInv, JournalOf, JournalPostsOnce
<1>4. QED
  BY <1>1, <1>2, <1>3, PTL DEF Spec

\* The compare-and-set of a sweep and of an operator (transitionPaymentState) leaves
\* a row that is 'success' or 'resolved' alone; what still moves it is
\* markTransactionFailed, written by the catch of executePayment without looking.
THEOREM FinalRowsStay == Spec => FinalRowsMoveOnlyByFailureWrite
<1> DEFINE Kept == \A t \in Request :
             row[t].status \in {"success", "resolved"} /\ row'[t] # row[t] =>
               \E r \in Request : on[r] = t /\ pc[r] = "failing" /\ pc'[r] = "reversing"
<1>1. IInv /\ [Next]_vars => [Kept]_vars
  <2> SUFFICES ASSUME IInv, [Next]_vars,
                      NEW t \in Request, row[t].status \in {"success", "resolved"}, row'[t] # row[t]
               PROVE  \E r \in Request : on[r] = t /\ pc[r] = "failing" /\ pc'[r] = "reversing"
    BY DEF Kept
  <2> USE DEF IInv, TypeOK
  <2>1. ASSUME NEW r \in Request, Reserve(r) PROVE FALSE
    BY <2>1 DEF Reserve, CallsOwnRows, Created
  <2>2. ASSUME NEW r \in Request, Link(r) PROVE FALSE
    BY <2>2 DEF Link, Put
  <2>3. ASSUME NEW r \in Request, MarkFailed(r)
        PROVE  on[r] = t /\ pc[r] = "failing" /\ pc'[r] = "reversing"
    BY <2>3 DEF MarkFailed, Put
  <2>4. ASSUME NEW w \in Sweep, TransitionWrite(w) PROVE FALSE
    <3>1. row[sweep[w].tx].status \in {"processing", "pending"} \/ UNCHANGED row
      BY <2>4 DEF TransitionWrite, CasMatches, Unsettled
    <3> QED
      BY <2>4, <3>1 DEF TransitionWrite, Put
  <2>5. ASSUME NEW u \in Request, OperatorResolve(u) PROVE FALSE
    BY <2>5 DEF OperatorResolve, Put
  <2>6. CASE UNCHANGED row
    BY <2>6
  <2> QED
    BY <2>1, <2>2, <2>3, <2>4, <2>5, <2>6 DEF Next, ExecutePayment, Reuse, Refuse, Accept,
      Throw, PostSettled, PostReversal, Include, Crash, Tick, Ingest, Reconcile, Select,
      ConsultHash, ConsultHistory, TransitionRead, vars
<1>2. Spec => [][Kept]_vars
  BY <1>1, Invariance, PTL DEF Spec
<1> QED
  BY <1>2 DEF FinalRowsMoveOnlyByFailureWrite, Kept
-----------------------------------------------------------------------------
(* Refunds: the journal has a refund only beside a row that says so.       *)

RowsTyped ==
  /\ refund \in [Refund -> [status : RefundStatus, hash : {"none", "own", "other"}]]
  /\ posted \in [Refund -> Nat]
  /\ ledger \in [Refund -> [paid : 0..Envelopes, unsuccessful : 0..Envelopes]]
  /\ place \in [Refund -> {"idle", "check", "create", "submit", "settle", "failing", "over"}]

\* A call that settles holds the hash of an envelope on the ledger.
SettlesWhatIsThere == \A r \in Refund : place[r] = "settle" => Included(r)

\* Nothing is posted for a call before its last step.
PostedAtTheEnd == \A r \in Refund : place[r] # "over" => posted[r] = 0

RefundInv == RowsTyped /\ SettlesWhatIsThere /\ PostedAtTheEnd /\ JournalFollowsTheRow

\* Puts of the actions keep the type of the rows.
LEMMA PutTyped ==
  ASSUME RefundInv, NEW r \in Refund, NEW s \in RefundStatus, NEW h \in {"none", "own", "other"},
         PutRefund(r, s, h)
  PROVE  /\ refund' \in [Refund -> [status : RefundStatus, hash : {"none", "own", "other"}]]
         /\ refund'[r] = [status |-> s, hash |-> h]
         /\ \A q \in Refund \ {r} : refund'[q] = refund[q]
BY DEF RefundInv, RowsTyped, PutRefund

\* Init establishes the invariant.
LEMMA RefundBegins == RefundInit => RefundInv
BY RefundConstants DEF RefundInit, RefundInv, RowsTyped, RefundStatus, SettlesWhatIsThere, PostedAtTheEnd, JournalFollowsTheRow

\* Steps of a call that touch neither its row nor the journal or the ledger, and
\* do not come to "settle" or leave "over".
LEMMA QuietRefundStep ==
  ASSUME RefundInv, NEW r \in Refund, NEW from, NEW to, Walks(r, from, to),
         from # "over", to \in {"check", "create", "failing", "over"},
         UNCHANGED <<refund, posted, ledger>>
  PROVE  RefundInv'
BY DEF RefundInv, RowsTyped, SettlesWhatIsThere, PostedAtTheEnd, JournalFollowsTheRow, Included, Walks

\* A row whose journal entry is posted is a success, and no other writer of
\* rows starts from a success.
LEMMA OtherWrites ==
  ASSUME RefundInv, NEW r \in Refund, refund[r].status # "success",
         NEW s \in RefundStatus, NEW h \in {"none", "own", "other"}, PutRefund(r, s, h),
         UNCHANGED <<posted, ledger, place>>
  PROVE  RefundInv'
<1>1. posted[r] = 0
  BY DEF RefundInv, JournalFollowsTheRow, RowsTyped
<1>r. /\ refund' \in [Refund -> [status : RefundStatus, hash : {"none", "own", "other"}]]
      /\ \A q \in Refund \ {r} : refund'[q] = refund[q]
  BY PutTyped
<1>2. RowsTyped'
  BY <1>r DEF RefundInv, RowsTyped
<1>3. JournalFollowsTheRow'
  BY <1>1, <1>r DEF RefundInv, JournalFollowsTheRow, Included
<1> QED
  BY <1>2, <1>3 DEF RefundInv, SettlesWhatIsThere, PostedAtTheEnd, Included

\* The ledger has one envelope more of a refund, and of no refund more than a
\* submission may build.
LEMMA InclusionAdds ==
  ASSUME RefundInv, NEW r \in Refund, IncludeRefund(r)
  PROVE  /\ ledger' \in [Refund -> [paid : 0..Envelopes, unsuccessful : 0..Envelopes]]
         /\ Included(r)'
         /\ \A q \in Refund \ {r} : ledger'[q] = ledger[q]
<1>1. PICK p \in 0..Envelopes, u \in 0..Envelopes : ledger[r] = [paid |-> p, unsuccessful |-> u]
  BY DEF RefundInv, RowsTyped
<1>2. Envelopes \in Nat /\ p + u < Envelopes
  BY <1>1, RefundConstants DEF IncludeRefund
<1>3. \/ ledger' = [ledger EXCEPT ![r] = [paid |-> p + 1, unsuccessful |-> u]]
      \/ ledger' = [ledger EXCEPT ![r] = [paid |-> p, unsuccessful |-> u + 1]]
  BY <1>1 DEF IncludeRefund, RefundInv, RowsTyped
<1>4. p + 1 \in 0..Envelopes /\ u + 1 \in 0..Envelopes
  BY <1>2
<1>5. /\ [paid |-> p + 1, unsuccessful |-> u] \in [paid : 0..Envelopes, unsuccessful : 0..Envelopes]
      /\ [paid |-> p, unsuccessful |-> u + 1] \in [paid : 0..Envelopes, unsuccessful : 0..Envelopes]
  BY <1>4
<1> QED
  BY <1>3, <1>5 DEF RefundInv, RowsTyped, Included

\* Every step keeps the invariant.
LEMMA RefundStep == RefundInv /\ [RefundNext]_refunding => RefundInv'
<1> SUFFICES ASSUME RefundInv, [RefundNext]_refunding PROVE RefundInv'
  OBVIOUS
<1> USE DEF RefundStatus
<1>1. ASSUME NEW r \in Refund, NEW amount \in 1..Amount, ReadPayment(r, amount) PROVE RefundInv'
  BY <1>1, QuietRefundStep DEF ReadPayment
<1>2. ASSUME NEW r \in Refund, CheckRefundable(r) PROVE RefundInv'
  BY <1>2, QuietRefundStep DEF CheckRefundable
<1>3. ASSUME NEW r \in Refund, CreateRow(r) PROVE RefundInv'
  <2>1. CASE Walks(r, "create", "over") /\ UNCHANGED refund
    BY <1>3, <2>1, QuietRefundStep DEF CreateRow
  <2>2. CASE Walks(r, "create", "submit") /\ PutRefund(r, "processing", "none")
    <3>1. posted[r] = 0 /\ UNCHANGED <<posted, ledger>>
      BY <1>3, <2>2 DEF RefundInv, PostedAtTheEnd, Walks, CreateRow
    <3>r. /\ refund' \in [Refund -> [status : RefundStatus, hash : {"none", "own", "other"}]]
          /\ refund'[r] = [status |-> "processing", hash |-> "none"]
          /\ \A q \in Refund \ {r} : refund'[q] = refund[q]
      BY <2>2, PutTyped
    <3>2. RowsTyped'
      BY <2>2, <3>1, <3>r DEF RefundInv, RowsTyped, Walks
    <3>3. SettlesWhatIsThere' /\ PostedAtTheEnd'
      BY <2>2, <3>1 DEF RefundInv, RowsTyped, SettlesWhatIsThere, PostedAtTheEnd, Included, Walks
    <3>4. JournalFollowsTheRow'
      BY <3>1, <3>r DEF RefundInv, JournalFollowsTheRow, Included
    <3> QED
      BY <3>2, <3>3, <3>4 DEF RefundInv
  <2> QED
    BY <1>3, <2>1, <2>2 DEF CreateRow
<1>4. ASSUME NEW r \in Refund, IncludeRefund(r) PROVE RefundInv'
  <2>1. /\ ledger' \in [Refund -> [paid : 0..Envelopes, unsuccessful : 0..Envelopes]]
        /\ Included(r)'
        /\ \A q \in Refund \ {r} : ledger'[q] = ledger[q]
    BY <1>4, InclusionAdds
  <2>2. UNCHANGED <<refund, posted, place>>
    BY <1>4 DEF IncludeRefund, call
  <2>3. \A q \in Refund : Included(q) => Included(q)'
    BY <2>1 DEF Included
  <2> QED
    BY <2>1, <2>2, <2>3 DEF RefundInv, RowsTyped, SettlesWhatIsThere, PostedAtTheEnd,
      JournalFollowsTheRow
<1>5. ASSUME NEW r \in Refund, Submit(r) PROVE RefundInv'
  <2>1. CASE Included(r) /\ Walks(r, "submit", "settle")
    BY <1>5, <2>1 DEF Submit, RefundInv, RowsTyped, SettlesWhatIsThere, PostedAtTheEnd,
      JournalFollowsTheRow, Included, Walks
  <2>2. CASE Walks(r, "submit", "failing")
    BY <1>5, <2>2, QuietRefundStep DEF Submit
  <2> QED
    BY <1>5, <2>1, <2>2 DEF Submit
<1>6. ASSUME NEW r \in Refund, Settle(r) PROVE RefundInv'
  <2>1. CASE Walks(r, "settle", "failing") /\ UNCHANGED <<refund, listed, posted>>
    BY <1>6, <2>1, QuietRefundStep DEF Settle
  <2>2. CASE Walks(r, "settle", "over") /\ SettledTogether(r)
    <3>1. posted[r] = 0 /\ Included(r) /\ UNCHANGED ledger
      BY <1>6, <2>2 DEF Settle, RefundInv, SettlesWhatIsThere, PostedAtTheEnd, Walks
    <3>2. PutRefund(r, "success", "own") /\ posted' = [posted EXCEPT ![r] = 1]
      BY <2>2, <3>1 DEF SettledTogether, RefundInv, RowsTyped
    <3>r. /\ refund' \in [Refund -> [status : RefundStatus, hash : {"none", "own", "other"}]]
          /\ refund'[r] = [status |-> "success", hash |-> "own"]
          /\ \A q \in Refund \ {r} : refund'[q] = refund[q]
      BY <3>2, PutTyped
    <3>3. RowsTyped'
      BY <2>2, <3>1, <3>2, <3>r DEF RefundInv, RowsTyped, Walks
    <3>4. SettlesWhatIsThere' /\ PostedAtTheEnd'
      BY <2>2, <3>1, <3>2 DEF RefundInv, RowsTyped, SettlesWhatIsThere, PostedAtTheEnd, Included, Walks
    <3>5. JournalFollowsTheRow'
      BY <3>1, <3>2, <3>r DEF RefundInv, RowsTyped, JournalFollowsTheRow, Included
    <3> QED
      BY <3>3, <3>4, <3>5 DEF RefundInv
  <2> QED
    BY <1>6, <2>1, <2>2 DEF Settle
<1>7. ASSUME NEW r \in Refund, MarkRefundFailed(r) PROVE RefundInv'
  <2>1. CASE UNCHANGED refund
    BY <1>7, <2>1, QuietRefundStep DEF MarkRefundFailed
  <2>2. CASE refund[r].status = "processing" /\ PutRefund(r, "failed", refund[r].hash)
    <3>1. posted[r] = 0 /\ Walks(r, "failing", "over") /\ UNCHANGED <<posted, ledger>>
      BY <1>7, <2>2 DEF MarkRefundFailed, RefundInv, PostedAtTheEnd, Walks
    <3>2. refund[r].hash \in {"none", "own", "other"}
      BY DEF RefundInv, RowsTyped
    <3>r. /\ refund' \in [Refund -> [status : RefundStatus, hash : {"none", "own", "other"}]]
          /\ refund'[r] = [status |-> "failed", hash |-> refund[r].hash]
          /\ \A q \in Refund \ {r} : refund'[q] = refund[q]
      BY <2>2, <3>2, PutTyped
    <3>3. RowsTyped'
      BY <2>2, <3>1, <3>r DEF RefundInv, RowsTyped, Walks
    <3>4. SettlesWhatIsThere' /\ PostedAtTheEnd'
      BY <3>1 DEF RefundInv, RowsTyped, SettlesWhatIsThere, PostedAtTheEnd, Included, Walks
    <3>5. JournalFollowsTheRow'
      BY <3>1, <3>r DEF RefundInv, JournalFollowsTheRow, Included
    <3> QED
      BY <3>3, <3>4, <3>5 DEF RefundInv
  <2> QED
    BY <1>7, <2>1, <2>2 DEF MarkRefundFailed
<1>8. ASSUME NEW r \in Refund, CallStops(r) PROVE RefundInv'
  BY <1>8, QuietRefundStep DEF CallStops
<1>9. ASSUME NEW r \in Refund, SweepConfirms(r) PROVE RefundInv'
  BY <1>9, OtherWrites DEF SweepConfirms, call
<1>10. ASSUME NEW r \in Refund, SweepGivesUp(r) PROVE RefundInv'
  BY <1>10, OtherWrites DEF SweepGivesUp, call
<1>11. ASSUME NEW r \in Refund, OperatorRetries(r) PROVE RefundInv'
  <2>1. refund[r].hash \in {"none", "own", "other"}
    BY <1>11 DEF RefundInv, RowsTyped
  <2> QED
    BY <1>11, <2>1, OtherWrites DEF OperatorRetries, call
<1>12. CASE UNCHANGED refunding
  BY <1>12 DEF refunding, call, RefundInv, RowsTyped, SettlesWhatIsThere, PostedAtTheEnd,
    JournalFollowsTheRow, Included
<1> QED
  BY <1>1, <1>2, <1>3, <1>4, <1>5, <1>6, <1>7, <1>8, <1>9, <1>10, <1>11, <1>12 DEF RefundNext, Step

\* The invariant holds in every reachable state: what RefundPosted rests on.
THEOREM RefundInvariance == RefundSpec => []RefundInv
BY RefundBegins, RefundStep, PTL DEF RefundSpec

\* However sweeps, operators, faults and calls interleave, the journal has a
\* refund at most once, and then its envelope is on the ledger and its row is a
\* success with that envelope's hash.
THEOREM RefundPosted == RefundSpec => []JournalFollowsTheRow
BY RefundInvariance, PTL DEF RefundInv
-----------------------------------------------------------------------------
(* Refunds: the amounts.  Any refunds that were allowed, none of which overlooked *)
(* another, fit into the payment: the last of them to look for earlier refunds   *)
(* saw the others as successes.                                                   *)

\* The refunds that the check let through, as their calls and rows show.
Allowed == {r \in Refund : \/ place[r] \in {"create", "submit", "settle", "failing"}
                           \/ refund[r].status # "none"}

AmountsTyped ==
  /\ want \in [Refund -> 0..Amount] /\ unseen \in [Refund -> SUBSET Refund]
  /\ snap \in [Refund -> SUBSET Refund] /\ listed \in SUBSET Refund

\* A row is created after the check, and an envelope submitted and paid after that.
RowsWereAllowed ==
  /\ \A r \in Refund : refund[r].status # "none" => r \in Looked
  /\ \A r \in Refund : place[r] = "submit" => refund[r].status # "none"
  /\ \A r \in PaidBack : refund[r].status # "none"

SeenFits ==
  \A P \in SUBSET Allowed : (\A r \in P : unseen[r] \cap P = {}) => Total(P) <= Amount

AmountInv == AmountsTyped /\ RowsWereAllowed /\ SeenFits

\* The units of refunds, for any amounts of theirs.
Units(S, amounts) == {u \in S \X (1..Amount) : u[2] <= amounts[u[1]]}

LEMMA UnitsAreFinite ==
  ASSUME NEW S \in SUBSET Refund, NEW amounts
  PROVE  IsFiniteSet(Units(S, amounts)) /\ Cardinality(Units(S, amounts)) \in Nat
<1>1. Requests \in Nat /\ Amount \in Nat
  BY RefundConstants
<1>2. IsFiniteSet(S) /\ IsFiniteSet(1..Amount)
  <2>1. IsFiniteSet(Refund)
    BY <1>1, FS_Interval DEF Refund
  <2>2. IsFiniteSet(1..Amount)
    BY <1>1, FS_Interval
  <2> QED
    BY <2>1, <2>2, FS_Subset
<1>3. IsFiniteSet(S \X (1..Amount))
  BY <1>2, FS_Product
<1>4. Units(S, amounts) \in SUBSET (S \X (1..Amount))
  BY DEF Units
<1> QED
  BY <1>3, <1>4, FS_Subset, FS_CardinalityType

LEMMA TotalIsUnits ==
  ASSUME NEW S \in SUBSET Refund
  PROVE  Total(S) = Cardinality(Units(S, want)) /\ Total(S)' = Cardinality(Units(S, want'))
         /\ Total(S) \in Nat
<1>1. Total(S) = Cardinality(Units(S, want))
  BY DEF Total, Units
<1>2. Total(S)' = Cardinality(Units(S, want'))
  BY DEF Total, Units
<1> QED
  BY <1>1, <1>2, UnitsAreFinite

\* More refunds are not less money.
LEMMA TotalGrows ==
  ASSUME NEW S \in SUBSET Refund, NEW T \in SUBSET S
  PROVE  Total(T) <= Total(S)
<1>1. Units(T, want) \in SUBSET Units(S, want)
  BY DEF Units
<1> QED
  BY <1>1, UnitsAreFinite, TotalIsUnits, FS_Subset

\* Triples of finite sets are finitely many.
LEMMA TriplesAreFinite ==
  ASSUME NEW R, NEW S, NEW T, IsFiniteSet(R), IsFiniteSet(S), IsFiniteSet(T)
  PROVE  IsFiniteSet(R \X S \X T)
<1> DEFINE pairs == (R \X S) \X T
           f == [p \in pairs |-> <<p[1][1], p[1][2], p[2]>>]
<1>1. IsFiniteSet(pairs)
  BY FS_Product
<1>2. \A t \in R \X S \X T : \E p \in pairs : f[p] = t
  <2>1. ASSUME NEW t \in R \X S \X T PROVE \E p \in pairs : f[p] = t
    <3>1. <<<<t[1], t[2]>>, t[3]>> \in pairs /\ f[<<<<t[1], t[2]>>, t[3]>>] = t
      OBVIOUS
    <3> QED
      BY <3>1
  <2> QED
    BY <2>1
<1>3. f \in Surjection(pairs, R \X S \X T)
  BY <1>2 DEF Surjection
<1> HIDE DEF f, pairs
<1> QED
  BY <1>1, <1>3, FS_Surjection

LEMMA UnitsOfOne ==
  ASSUME NEW r, NEW n \in Nat
  PROVE  IsFiniteSet({r} \X (1..n)) /\ Cardinality({r} \X (1..n)) = n
<1>1. IsFiniteSet(1..n) /\ Cardinality(1..n) = n
  BY FS_Interval
<1>2. IsFiniteSet({r}) /\ Cardinality({r}) = 1
  BY FS_Singleton
<1> QED
  BY <1>1, <1>2, FS_Product

\* A refund more adds its amount.
LEMMA TotalWith ==
  ASSUME NEW S \in SUBSET Refund, NEW r \in Refund, r \notin S, want[r] \in 0..Amount
  PROVE  Total(S \cup {r}) = Total(S) + want[r]
<1> DEFINE own == {r} \X (1..want[r])
<1>1. Amount \in Nat /\ want[r] \in Nat
  BY RefundConstants
<1>4. IsFiniteSet(own) /\ Cardinality(own) = want[r]
  BY <1>1, UnitsOfOne
<1>5. Units(S \cup {r}, want) = Units(S, want) \cup own /\ Units(S, want) \cap own = {}
  BY <1>1 DEF Units
<1> HIDE DEF own
<1>6. Cardinality(Units(S, want) \cup own)
        = Cardinality(Units(S, want)) + Cardinality(own) - Cardinality(Units(S, want) \cap own)
  BY <1>4, UnitsAreFinite, FS_Union
<1>7. Cardinality({}) = 0
  BY FS_EmptySet
<1>8. Cardinality(Units(S, want)) \in Nat
  BY UnitsAreFinite
<1>9. Cardinality(Units(S \cup {r}, want)) = Cardinality(Units(S, want)) + want[r]
  <2>1. Cardinality(own) = want[r] /\ Cardinality(Units(S, want) \cap own) = 0
    BY <1>4, <1>5, <1>7
  <2>2. Cardinality(Units(S, want)) + want[r] - 0 = Cardinality(Units(S, want)) + want[r]
    BY <1>1, <1>8
  <2> QED
    BY <1>5, <1>6, <2>1, <2>2
<1>10. S \cup {r} \in SUBSET Refund
  OBVIOUS
<1> QED
  BY <1>9, <1>10, TotalIsUnits

\* What the check compares with is not less than what the rows say.
LEMMA RefundedCounts ==
  ASSUME AmountInv, NEW r \in Refund
  PROVE  AlreadyRefunded(r) \in Nat /\ Total(Settled) <= AlreadyRefunded(r)
<1>1. Total(snap[r]) \in Nat /\ Total(Settled) \in Nat
  <2>1. snap[r] \in SUBSET Refund /\ Settled \in SUBSET Refund
    BY DEF AmountInv, AmountsTyped, Settled
  <2> QED
    BY <2>1, TotalIsUnits
<1> DEFINE both == {Total(snap[r]), Total(Settled)}
<1>2. \E x \in both : \A y \in both : x >= y
  BY <1>1
<1>3. Max(both) \in both /\ \A y \in both : Max(both) >= y
  BY <1>2 DEF Max
<1> QED
  BY <1>1, <1>3 DEF AlreadyRefunded

\* A step that lets no other refund through.
LEMMA AllowedShrinks ==
  ASSUME AmountInv, Allowed' \subseteq Allowed,
         \A r \in Allowed : want'[r] = want[r] /\ unseen'[r] = unseen[r]
  PROVE  SeenFits'
<1> SUFFICES ASSUME NEW P \in SUBSET Allowed', \A r \in P : unseen'[r] \cap P = {}
             PROVE  Total(P)' <= Amount
  BY DEF SeenFits
<1>1. P \in SUBSET Allowed /\ P \in SUBSET Refund
  BY DEF Allowed
<1>2. Units(P, want') = Units(P, want)
  BY <1>1 DEF Units
<1>3. Total(P) <= Amount
  BY <1>1 DEF AmountInv, SeenFits
<1> QED
  BY <1>1, <1>2, <1>3, TotalIsUnits

LEMMA AmountsBegin == ASSUME RefundInit PROVE AmountInv
<1>1. Requests \in Nat /\ Amount \in Nat
  BY RefundConstants
<1>2. AmountsTyped
  BY <1>1 DEF RefundInit, AmountsTyped
<1>3. Allowed = {} /\ RowsWereAllowed
  BY DEF RefundInit, Allowed, RowsWereAllowed, PaidBack, Looked
<1>4. Total({}) = 0
  <2>1. Units({}, want) = {}
    BY DEF Units
  <2> QED
    BY <2>1, TotalIsUnits, FS_EmptySet
<1>5. SeenFits
  BY <1>1, <1>3, <1>4 DEF SeenFits
<1> QED
  BY <1>2, <1>3, <1>5 DEF AmountInv

\* The check lets a refund through only if it fits beside those it sees; a set with it
\* that overlooks nothing holds no others.
LEMMA CheckKeepsAmounts ==
  ASSUME RefundInv, AmountInv, NEW r \in Refund, CheckRefundable(r)
  PROVE  AmountInv'
<1>t. /\ place \in [Refund -> {"idle", "check", "create", "submit", "settle", "failing", "over"}]
      /\ want \in [Refund -> 0..Amount] /\ unseen \in [Refund -> SUBSET Refund]
      /\ Amount \in Nat /\ place[r] = "check" /\ UNCHANGED <<refund, listed, ledger, want, snap>>
      /\ unseen' = [unseen EXCEPT ![r] = Looked \ Settled]
  BY RefundConstants DEF RefundInv, RowsTyped, AmountInv, AmountsTyped, CheckRefundable, Walks
<1>1. AmountsTyped'
  BY <1>t DEF AmountInv, AmountsTyped, Looked
<1>2. RowsWereAllowed'
  BY <1>t DEF AmountInv, RowsWereAllowed, Looked, PaidBack, CheckRefundable, Walks
<1>3. r \notin Allowed /\ Allowed \subseteq Looked /\ Allowed' \subseteq Allowed \cup {r}
  BY <1>t DEF AmountInv, RowsWereAllowed, Allowed, Looked, CheckRefundable, Walks
<1>4. CASE want[r] + AlreadyRefunded(r) > Amount
  <2>1. Allowed' \subseteq Allowed
    BY <1>t, <1>4 DEF AmountInv, RowsWereAllowed, Allowed, Looked, CheckRefundable, Walks
  <2>2. \A q \in Allowed : want'[q] = want[q] /\ unseen'[q] = unseen[q]
    BY <1>t, <1>3 DEF Allowed
  <2> QED
    BY <1>1, <1>2, <2>1, <2>2, AllowedShrinks DEF AmountInv
<1>5. CASE ~(want[r] + AlreadyRefunded(r) > Amount)
  <2> SUFFICES ASSUME NEW P \in SUBSET Allowed', \A q \in P : unseen'[q] \cap P = {}
               PROVE  Total(P)' <= Amount
    BY <1>1, <1>2 DEF AmountInv, SeenFits
  <2>1. P \in SUBSET Refund /\ Total(P)' = Total(P)
    BY <1>t, TotalIsUnits DEF Allowed
  <2>2. CASE r \notin P
    <3>1. P \in SUBSET Allowed
      BY <1>3, <2>2
    <3>2. \A q \in P : unseen'[q] = unseen[q]
      BY <1>t, <2>1, <2>2
    <3> QED
      BY <2>1, <3>1, <3>2 DEF AmountInv, SeenFits
  <2>3. CASE r \in P
    <3> DEFINE others == P \ {r}
    <3>1. others \subseteq Looked /\ unseen'[r] = Looked \ Settled /\ unseen'[r] \cap P = {}
      BY <1>3, <1>t, <2>3
    <3>2. others \in SUBSET Settled /\ Settled \in SUBSET Refund
      BY <3>1 DEF Settled
    <3>3. Total(others) <= Total(Settled) /\ Total(Settled) \in Nat /\ Total(others) \in Nat
      BY <2>1, <3>2, TotalGrows, TotalIsUnits
    <3>4. P = others \cup {r} /\ r \notin others /\ others \in SUBSET Refund
      BY <2>1, <2>3
    <3>5. Total(P) = Total(others) + want[r] /\ want[r] \in Nat
      BY <1>t, <3>4, TotalWith
    <3>6. AlreadyRefunded(r) \in Nat /\ Total(Settled) <= AlreadyRefunded(r)
      BY RefundedCounts
    <3> QED
      BY <1>5, <1>t, <2>1, <3>3, <3>5, <3>6
  <2> QED
    BY <2>2, <2>3
<1> QED
  BY <1>4, <1>5

\* A row written for a call that was allowed, or over one that was there.
LEMMA RowWritesKeepAmounts ==
  ASSUME RefundInv, AmountInv, NEW r \in Refund,
         NEW s \in RefundStatus \ {"none"}, NEW h \in {"none", "own", "other"}, PutRefund(r, s, h),
         place[r] = "create" \/ refund[r].status # "none",
         listed' \in SUBSET Refund, UNCHANGED <<ledger, want, snap, unseen>>,
         \/ UNCHANGED place
         \/ \E to \in {"submit", "over"} : place[r] \notin {"idle", "check"}
                                           /\ place' = [place EXCEPT ![r] = to]
  PROVE  AmountInv'
<1>t. /\ place \in [Refund -> {"idle", "check", "create", "submit", "settle", "failing", "over"}]
      /\ refund'[r].status = s /\ \A q \in Refund \ {r} : refund'[q] = refund[q]
  <2>1. refund'[r] = [status |-> s, hash |-> h] /\ \A q \in Refund \ {r} : refund'[q] = refund[q]
    BY PutTyped
  <2> QED
    BY <2>1 DEF RefundInv, RowsTyped
<1>1. AmountsTyped'
  BY DEF AmountInv, AmountsTyped
<1>2. r \in Looked /\ r \in Allowed
  BY DEF Looked, Allowed, AmountInv, RowsWereAllowed
<1>3. Looked' = Looked
  BY <1>t DEF Looked
<1>4. RowsWereAllowed'
  <2>1. \A q \in Refund : refund'[q].status # "none" => q \in Looked
    BY <1>t, <1>2 DEF AmountInv, RowsWereAllowed
  <2>2. \A q \in Refund : ledger[q].paid > 0 => refund'[q].status # "none"
    BY <1>t DEF AmountInv, RowsWereAllowed, PaidBack
  <2>3. \A q \in Refund : place'[q] = "submit" => refund'[q].status # "none"
    BY <1>t DEF AmountInv, RowsWereAllowed
  <2> QED
    BY <1>3, <2>1, <2>2, <2>3 DEF RowsWereAllowed, PaidBack
<1>5. Allowed' \subseteq Allowed
  BY <1>t, <1>2 DEF Allowed
<1> QED
  BY <1>1, <1>4, <1>5, AllowedShrinks DEF AmountInv

\* A call that moves without a row to write.
LEMMA MovesKeepAmounts ==
  ASSUME RefundInv, AmountInv, NEW r \in Refund, NEW to \in {"settle", "failing", "over"},
         \/ place[r] \in {"create", "submit", "settle", "failing"}
         \/ to = "over" /\ place[r] = "check",
         place' = [place EXCEPT ![r] = to], to = "over" \/ place[r] # "create",
         UNCHANGED <<refund, listed, ledger, want, snap, unseen>>
  PROVE  AmountInv'
<1>t. place \in [Refund -> {"idle", "check", "create", "submit", "settle", "failing", "over"}]
  BY DEF RefundInv, RowsTyped
<1>1. AmountsTyped'
  BY DEF AmountInv, AmountsTyped
<1>2. RowsWereAllowed'
  BY <1>t DEF AmountInv, RowsWereAllowed, Looked, PaidBack
<1>3. Allowed' \subseteq Allowed
  BY <1>t DEF Allowed
<1> QED
  BY <1>1, <1>2, <1>3, AllowedShrinks DEF AmountInv

LEMMA AmountStep == ASSUME RefundInv, AmountInv, [RefundNext]_refunding PROVE AmountInv'
<1>t. /\ place \in [Refund -> {"idle", "check", "create", "submit", "settle", "failing", "over"}]
      /\ want \in [Refund -> 0..Amount] /\ snap \in [Refund -> SUBSET Refund]
      /\ listed \in SUBSET Refund /\ \A r \in Refund : refund[r].hash \in {"none", "own", "other"}
  BY DEF RefundInv, RowsTyped, AmountInv, AmountsTyped
<1> USE DEF RefundStatus
<1>1. ASSUME NEW r \in Refund, NEW amount \in 1..Amount, ReadPayment(r, amount) PROVE AmountInv'
  <2>1. /\ place[r] = "idle" /\ place' = [place EXCEPT ![r] = "check"]
        /\ want' = [want EXCEPT ![r] = amount] /\ UNCHANGED <<refund, ledger, listed, unseen>>
        /\ snap' = [snap EXCEPT ![r] = listed]
    BY <1>1 DEF ReadPayment, Walks
  <2>2. AmountsTyped'
    BY <1>t, <2>1 DEF AmountInv, AmountsTyped
  <2>3. RowsWereAllowed' /\ r \notin Allowed /\ Allowed' \subseteq Allowed
    BY <1>t, <2>1 DEF AmountInv, RowsWereAllowed, Looked, PaidBack, Allowed
  <2>4. \A q \in Allowed : want'[q] = want[q] /\ unseen'[q] = unseen[q]
    BY <1>t, <2>1, <2>3 DEF Allowed
  <2> QED
    BY <2>2, <2>3, <2>4, AllowedShrinks DEF AmountInv
<1>2. ASSUME NEW r \in Refund, CheckRefundable(r) PROVE AmountInv'
  BY <1>2, CheckKeepsAmounts
<1>3. ASSUME NEW r \in Refund, CreateRow(r) PROVE AmountInv'
  BY <1>t, <1>3, RowWritesKeepAmounts, MovesKeepAmounts DEF CreateRow, Walks
<1>4. ASSUME NEW r \in Refund, IncludeRefund(r) PROVE AmountInv'
  <2>1. /\ place[r] = "submit" /\ \A q \in Refund \ {r} : ledger'[q] = ledger[q]
        /\ UNCHANGED <<place, want, snap, refund, listed, unseen>>
    BY <1>4, InclusionAdds DEF IncludeRefund, call
  <2>2. refund[r].status # "none" /\ PaidBack' \subseteq PaidBack \cup {r}
    BY <2>1 DEF AmountInv, RowsWereAllowed, PaidBack
  <2>3. AmountsTyped' /\ RowsWereAllowed' /\ Allowed' = Allowed
    BY <2>1, <2>2 DEF AmountInv, AmountsTyped, RowsWereAllowed, Looked, Allowed
  <2> QED
    BY <2>1, <2>3, AllowedShrinks DEF AmountInv
<1>5. ASSUME NEW r \in Refund, Submit(r) PROVE AmountInv'
  BY <1>5, MovesKeepAmounts DEF Submit, Walks
<1>6. ASSUME NEW r \in Refund, Settle(r) PROVE AmountInv'
  <2>1. CASE Walks(r, "settle", "failing") /\ UNCHANGED <<refund, listed, posted>>
    BY <1>6, <2>1, MovesKeepAmounts DEF Settle, Walks
  <2>2. CASE Walks(r, "settle", "over") /\ SettledTogether(r)
    BY <1>6, <1>t, <2>2, RowWritesKeepAmounts DEF Settle, SettledTogether, Walks
  <2> QED
    BY <1>6, <2>1, <2>2 DEF Settle
<1>7. ASSUME NEW r \in Refund, MarkRefundFailed(r) PROVE AmountInv'
  <2>1. CASE UNCHANGED refund
    BY <1>7, <2>1, MovesKeepAmounts DEF MarkRefundFailed, Walks
  <2>2. CASE refund[r].status = "processing" /\ PutRefund(r, "failed", refund[r].hash)
    BY <1>7, <1>t, <2>2, RowWritesKeepAmounts DEF MarkRefundFailed, Walks
  <2> QED
    BY <1>7, <2>1, <2>2 DEF MarkRefundFailed
<1>8. ASSUME NEW r \in Refund, CallStops(r) PROVE AmountInv'
  BY <1>8, <1>t, MovesKeepAmounts DEF CallStops, Walks
<1>9. ASSUME NEW r \in Refund, SweepConfirms(r) \/ SweepGivesUp(r) \/ OperatorRetries(r)
      PROVE  AmountInv'
  BY <1>9, <1>t, RowWritesKeepAmounts DEF SweepConfirms, SweepGivesUp, OperatorRetries, call
<1>10. CASE UNCHANGED refunding
  <2>1. AmountsTyped' /\ RowsWereAllowed' /\ Allowed' = Allowed /\ UNCHANGED <<want, unseen>>
    BY <1>10 DEF refunding, call, AmountInv, AmountsTyped, RowsWereAllowed, Looked, PaidBack, Allowed
  <2> QED
    BY <2>1, AllowedShrinks DEF AmountInv
<1> QED
  BY <1>1, <1>2, <1>3, <1>4, <1>5, <1>6, <1>7, <1>8, <1>9, <1>10 DEF RefundNext, Step

RefundBounds ==
  scene \in Scenes /\ faults \in 0..scene.faults /\ retries \in 0..scene.retries

LEMMA BoundsOfRefunds ==
  /\ RefundInit => RefundBounds
  /\ RefundBounds /\ [RefundNext]_refunding => RefundBounds'
<1>1. ASSUME scene \in Scenes PROVE scene.faults \in Nat /\ scene.retries \in Nat
  BY <1>1, RefundConstants
<1>2. ASSUME RefundInit PROVE RefundBounds
  BY <1>1, <1>2 DEF RefundInit, RefundBounds
<1>3. ASSUME RefundBounds, [RefundNext]_refunding PROVE RefundBounds'
  <2>1. /\ UNCHANGED scene
        /\ Fault \/ UNCHANGED faults
        /\ (retries < scene.retries /\ retries' = retries + 1) \/ UNCHANGED retries
    BY <1>3 DEF RefundNext, Step, refunding, ReadPayment, CheckRefundable, CreateRow, IncludeRefund,
      Submit, Settle, MarkRefundFailed, CallStops, SweepConfirms, SweepGivesUp, OperatorRetries
  <2> QED
    BY <1>1, <1>3, <2>1 DEF RefundBounds, Fault
<1> QED
  BY <1>2, <1>3

\* Both invariants and the bounds hold in every reachable state.
THEOREM AmountsInvariance == RefundSpec => [](RefundInv /\ AmountInv /\ RefundBounds)
<1>1. RefundInit => AmountInv
  BY AmountsBegin
<1>2. RefundInv /\ AmountInv /\ [RefundNext]_refunding => AmountInv'
  BY AmountStep
<1> QED
  BY <1>1, <1>2, RefundInvariance, BoundsOfRefunds, PTL DEF RefundSpec

\* Every variable of Refunds keeps its type: rows, journal, ledger, what calls read and
\* what they looked at, and the bounds of the scene hold.
THEOREM RefundTypeCorrect == RefundSpec => []RefundTypeOK
<1>1. RefundInv /\ AmountInv /\ RefundBounds => RefundTypeOK
  BY DEF RefundInv, RowsTyped, AmountInv, AmountsTyped, RefundBounds, RefundTypeOK
<1> QED
  BY <1>1, AmountsInvariance, PTL

\* Counted once for each refund, what was given back is the refunds' total: the
\* rest was paid again.
LEMMA GivenBackCounts ==
  ASSUME RefundInv, AmountInv
  PROVE  /\ Cardinality(GivenBack) \in Nat /\ Cardinality(PaidAgain) \in Nat
         /\ Cardinality(GivenBack) <= Total(PaidBack) + Cardinality(PaidAgain)
<1> DEFINE first == {g \in GivenBack : g[2] = 1}
           units == Units(PaidBack, want)
<1>1. PaidBack \in SUBSET Refund /\ Requests \in Nat /\ Envelopes \in Nat /\ Amount \in Nat
  BY RefundConstants DEF PaidBack
<1>2. IsFiniteSet(GivenBack)
  <2>1. IsFiniteSet(Refund) /\ IsFiniteSet(1..Envelopes) /\ IsFiniteSet(1..Amount)
    <3>1. IsFiniteSet(Refund)
      BY <1>1, FS_Interval DEF Refund
    <3>2. IsFiniteSet(1..Envelopes)
      BY <1>1, FS_Interval
    <3>3. IsFiniteSet(1..Amount)
      BY <1>1, FS_Interval
    <3> QED
      BY <3>1, <3>2, <3>3
  <2>2. IsFiniteSet(Refund \X (1..Envelopes) \X (1..Amount))
    BY <2>1, TriplesAreFinite
  <2>3. GivenBack \in SUBSET (Refund \X (1..Envelopes) \X (1..Amount))
    BY <1>1 DEF GivenBack
  <2> QED
    BY <2>2, <2>3, FS_Subset
<1>3. first \in SUBSET GivenBack /\ PaidAgain \in SUBSET GivenBack
  BY DEF PaidAgain
<1>4. IsFiniteSet(first) /\ IsFiniteSet(PaidAgain)
  BY <1>2, <1>3, FS_Subset
<1>5. GivenBack = first \cup PaidAgain /\ first \cap PaidAgain = {}
  BY <1>1 DEF GivenBack, PaidAgain
<1>6. Cardinality(first) <= Cardinality(units)
  <2> DEFINE f == [g \in first |-> <<g[1], g[3]>>]
  <2>1. \A g \in first : /\ g = <<g[1], 1, g[3]>>
                         /\ g[1] \in PaidBack /\ g[3] \in 1..Amount /\ g[3] <= want[g[1]]
    BY DEF GivenBack
  <2>2. \A g \in first : f[g] \in units
    BY <2>1 DEF Units
  <2>3. \A g, h \in first : f[g] = f[h] => g = h
    BY <2>1
  <2>4. f \in Injection(first, units)
    BY <2>2, <2>3 DEF Injection, IsInjective
  <2>5. IsFiniteSet(units)
    BY <1>1, UnitsAreFinite
  <2> HIDE DEF f, first, units
  <2> QED
    BY <2>4, <2>5, FS_Injection
<1> HIDE DEF first, units
<1>7. Cardinality(first) \in Nat /\ Cardinality(PaidAgain) \in Nat /\ Cardinality(GivenBack) \in Nat
  BY <1>2, <1>4, FS_CardinalityType
<1>8. Cardinality(GivenBack) = Cardinality(first) + Cardinality(PaidAgain)
  <2>1. Cardinality(first \cup PaidAgain)
          = Cardinality(first) + Cardinality(PaidAgain) - Cardinality(first \cap PaidAgain)
    BY <1>4, FS_Union
  <2>2. Cardinality(first \cap PaidAgain) = 0
    BY <1>5, FS_EmptySet
  <2> QED
    BY <1>5, <1>7, <2>1, <2>2
<1>9. Total(PaidBack) = Cardinality(units) /\ Total(PaidBack) \in Nat
  BY <1>1, TotalIsUnits DEF units
<1> QED
  BY <1>6, <1>7, <1>8, <1>9

\* The customer gets back more than he paid only when the submission of one call paid
\* more than once, or a call of executeRefund overlooked another's money, which was under
\* way or no success yet when it summed up the earlier refunds.  Calls that follow one
\* another exceed the payment by no more than what was paid again, for any number of calls
\* and envelopes and any amounts.
THEOREM OverRefundsExplained == RefundSpec => []OverRefundExplained
<1>1. ASSUME RefundInv, AmountInv PROVE OverRefundExplained
  <2> SUFFICES ASSUME \A r \in PaidBack : unseen[r] \cap PaidBack = {}
               PROVE  ~(Cardinality(GivenBack) > Amount + Cardinality(PaidAgain))
    BY DEF OverRefundExplained
  <2>1. PaidBack \in SUBSET Allowed /\ PaidBack \in SUBSET Refund
    BY <1>1 DEF AmountInv, RowsWereAllowed, Allowed, PaidBack
  <2>2. Total(PaidBack) \in Nat /\ Amount \in Nat /\ Total(PaidBack) <= Amount
    BY <1>1, <2>1, TotalIsUnits, RefundConstants DEF AmountInv, SeenFits
  <2> QED
    BY <1>1, <2>2, GivenBackCounts
<1>2. RefundInv /\ AmountInv => OverRefundExplained
  BY <1>1
<1> QED
  BY <1>2, AmountsInvariance, PTL
=============================================================================
