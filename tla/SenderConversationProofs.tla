---------------------- MODULE SenderConversationProofs ----------------------
(***************************************************************************)
(* Proofs that hold for any number of messages, any conversation and any   *)
(* number of faults and lost locks.  What is said of messages that do not  *)
(* overlap rests on one fact: a message at work owns the lock, so what it  *)
(* read of the pending send is still so when it writes.                    *)
(***************************************************************************)
EXTENDS SenderConversation, TLAPS

\* A message at work owns the lock.
OwnsLock == expiries = 0 => \A m \in Message : Holding(m) => lock = m

Touching == {"cancel", "expire", "confirm", "verify", "claim"}

\* A message that goes on to work on a send has one in hand, at its step.
HasSend ==
  \A m \in Message :
    /\ pc[m] \in Touching \cup {"pay"} => snap[m] # NoPending
    /\ pc[m] = "confirm" => snap[m].step = "risk"
    /\ pc[m] \in {"verify", "claim", "pay"} => snap[m].step = "pin"

\* A job that is not dead has an attempt left.
AttemptsLeft == \A m \in Message : pc[m] # "dead" => tries[m] < MaxAttempts

\* What the message at work read is what the row still holds.
ReadIsFresh ==
  expiries = 0 => \A m \in Message :
    /\ pc[m] = "update" => found[m] = pending
    /\ pc[m] \in {"request", "pay"} => pending = NoPending
    /\ pc[m] \in Touching => snap[m] = pending

\* A risky send that waits for its PIN, in the row or in a message's hand, was
\* confirmed.
Confirmed(p) ==
  p # NoPending /\ p.step = "pin" /\ said[p.send].text = "risky" => agreed[p.send] > 0
PinsAreConfirmed ==
  /\ Confirmed(pending)
  /\ \A m \in Message : Confirmed(found[m]) /\ Confirmed(snap[m])
  /\ \A s \in Message : said[s].text = "risky" /\ paid[s] > 0 => agreed[s] > 0

\* Each "yes" is good for one PIN: it waits, is being used, or is used up.
AtPin(s) == IF pending.send = s /\ pending.step = "pin" THEN 1 ELSE 0
YesIsUsedOnce ==
  expiries = 0 => \A s \in Message :
    said[s].text = "risky" => paid[s] + InHand(s) + AtPin(s) <= agreed[s]

IInv ==
  /\ TypeOK
  /\ AttemptsLeft
  /\ OwnsLock
  /\ HasSend
  /\ ReadIsFresh
  /\ PinsAreConfirmed
  /\ EachRequestEndsOnce
  /\ YesIsUsedOnce
-----------------------------------------------------------------------------
(* Types *)

\* What a message says and when.
LEMMA SaidType == ASSUME TypeOK, NEW m \in Message
                  PROVE  said[m].text \in Text /\ said[m].stamp \in Nat
  BY Scripted DEF TypeOK, Text, Stamp

\* A tally stays one when it counts.
LEMMA CountType == ASSUME NEW tally \in Tally, NEW s \in Message
                   PROVE  Count(tally, s) \in Tally
  BY DEF Tally, Count

\* The send in hand of a message that goes on to work on it.
LEMMA SendInHand ==
  ASSUME TypeOK, HasSend, NEW m \in Message, pc[m] \in Touching \cup {"pay"}
  PROVE  snap[m] \in [send : Message, step : {"risk", "pin"}, write : Nat \ {0}]
  BY DEF TypeOK, HasSend, Pending

LEMMA TypeInit == Init => TypeOK /\ AttemptsLeft
  BY Bounds DEF Init, TypeOK, AttemptsLeft, Pending, Tally

\* Every step keeps the types and the attempts.
LEMMA TypeNext ==
  TypeOK /\ AttemptsLeft /\ HasSend /\ [Next]_vars => TypeOK' /\ AttemptsLeft'
<1> SUFFICES ASSUME TypeOK, AttemptsLeft, HasSend, [Next]_vars
             PROVE  TypeOK' /\ AttemptsLeft'
  OBVIOUS
<1> USE Bounds DEF TypeOK, AttemptsLeft, Pending, Tally, Goto, Walks, Forget, Count,
     gate, bounds, book, job
<1>1. ASSUME NEW m \in Message, ReadCursor(m) PROVE TypeOK' /\ AttemptsLeft'
  BY <1>1 DEF ReadCursor
<1>2. ASSUME NEW m \in Message, TryAcquire(m) PROVE TypeOK' /\ AttemptsLeft'
  BY <1>2 DEF TryAcquire
<1>3. ASSUME NEW m \in Message, Requeue(m) PROVE TypeOK' /\ AttemptsLeft'
  BY <1>3 DEF Requeue
<1>4. ASSUME NEW m \in Message, AdvanceCursor(m) PROVE TypeOK' /\ AttemptsLeft'
  BY <1>4, SaidType DEF AdvanceCursor, Advanced, Newest
<1>5. ASSUME NEW m \in Message, Release(m) PROVE TypeOK' /\ AttemptsLeft'
  BY <1>5 DEF Release, ReleasedBy
<1>6. ASSUME NEW m \in Message, ReleaseAndRetry(m) PROVE TypeOK' /\ AttemptsLeft'
  BY <1>6 DEF ReleaseAndRetry, ReleasedBy, Exhausted
<1>7. ASSUME NEW m \in Message, FindUser(m) PROVE TypeOK' /\ AttemptsLeft'
  BY <1>7 DEF FindUser
<1>8. ASSUME NEW m \in Message, UpdateUser(m) PROVE TypeOK' /\ AttemptsLeft'
  BY <1>8 DEF UpdateUser, Branch
<1>9. ASSUME NEW m \in Message, RequestSend(m) PROVE TypeOK' /\ AttemptsLeft'
  <2>1. pending' = [send |-> m, step |-> FirstStep(said[m].text), write |-> writes + 1]
    BY <1>9 DEF RequestSend
  <2>2. FirstStep(said[m].text) \in {"risk", "pin"}
    BY DEF FirstStep
  <2>3. writes + 1 \in Nat \ {0}
    OBVIOUS
  <2>4. pending' \in [send : Message, step : {"risk", "pin"}, write : Nat \ {0}]
    BY ONLY <2>1, <2>2, <2>3, m \in Message
  <2>5. asked' \in Tally
    BY <1>9, CountType DEF RequestSend
  <2>6. QED
    BY <1>9, <2>4, <2>5 DEF RequestSend
<1>10. ASSUME NEW m \in Message, ClearPending(m) PROVE TypeOK' /\ AttemptsLeft'
  <2>1. snap[m].send \in Message
    BY <1>10, SendInHand DEF ClearPending, Touching
  <2>2. closed' \in Tally
    BY <1>10, <2>1, CountType DEF ClearPending
  <2>3. QED
    BY <1>10, <2>2 DEF ClearPending
<1>11. ASSUME NEW m \in Message, ConfirmRisk(m) PROVE TypeOK' /\ AttemptsLeft'
  <2>1. snap[m] \in [send : Message, step : {"risk", "pin"}, write : Nat \ {0}]
    BY <1>11, SendInHand DEF ConfirmRisk, Touching
  <2>2. pending' = [send |-> snap[m].send, step |-> "pin", write |-> writes + 1]
    BY <1>11, <2>1 DEF ConfirmRisk
  <2>3. agreed' \in Tally
    BY <1>11, <2>1, CountType DEF ConfirmRisk
  <2>4. QED
    BY <1>11, <2>1, <2>2, <2>3 DEF ConfirmRisk
<1>12. ASSUME NEW m \in Message, VerifyPin(m) PROVE TypeOK' /\ AttemptsLeft'
  BY <1>12 DEF VerifyPin
<1>13. ASSUME NEW m \in Message, ClaimPendingSend(m) PROVE TypeOK' /\ AttemptsLeft'
  BY <1>13 DEF ClaimPendingSend, AfterClaim
<1>14. ASSUME NEW m \in Message, ExecutePayment(m) PROVE TypeOK' /\ AttemptsLeft'
  <2>1. snap[m].send \in Message
    BY <1>14, SendInHand DEF ExecutePayment
  <2>2. closed' \in Tally /\ paid' \in Tally
    BY <1>14, <2>1, CountType DEF ExecutePayment
  <2>3. QED
    BY <1>14, <2>2 DEF ExecutePayment
<1>15. ASSUME NEW m \in Message, Crash(m) PROVE TypeOK' /\ AttemptsLeft'
  <2>1. CASE pc[m] = "pay"
    <3>1. closed' \in Tally
      BY <1>15, <2>1, SendInHand, CountType DEF Crash
    <3>2. QED
      BY <1>15, <3>1 DEF Crash, Holding
  <2>2. CASE pc[m] # "pay"
    BY <1>15, <2>2 DEF Crash, Holding
  <2>3. QED
    BY <2>1, <2>2
<1>16. ASSUME NEW m \in Message, DatabaseFails(m) PROVE TypeOK' /\ AttemptsLeft'
  BY <1>16 DEF DatabaseFails
<1>17. CASE PendingLapses
  BY <1>17 DEF PendingLapses
<1>18. CASE OrphanExpires
  BY <1>18 DEF OrphanExpires
<1>19. CASE LockExpires
  BY <1>19 DEF LockExpires
<1>20. CASE UNCHANGED vars
  BY <1>20 DEF vars
<1>21. QED
  BY <1>1, <1>2, <1>3, <1>4, <1>5, <1>6, <1>7, <1>8, <1>9, <1>10, <1>11, <1>12, <1>13,
       <1>14, <1>15, <1>16, <1>17, <1>18, <1>19, <1>20
       DEF Next, JobStep
-----------------------------------------------------------------------------
(* The lock and what is read under it *)

\* Only a message at work takes the lock, and it keeps it until it is done.
LEMMA OwnsLockNext == TypeOK /\ OwnsLock /\ [Next]_vars => OwnsLock'
<1> SUFFICES ASSUME TypeOK, OwnsLock, [Next]_vars PROVE OwnsLock'
  OBVIOUS
<1> USE DEF TypeOK, OwnsLock, Holding, Goto, Walks, Forget, gate, bounds, book, job
<1>1. ASSUME NEW m \in Message, ReadCursor(m) PROVE OwnsLock'
  BY <1>1 DEF ReadCursor
<1>2. ASSUME NEW m \in Message, TryAcquire(m) PROVE OwnsLock'
  BY <1>2, Names DEF TryAcquire, Free
<1>3. ASSUME NEW m \in Message, Requeue(m) PROVE OwnsLock'
  BY <1>3 DEF Requeue
<1>4. ASSUME NEW m \in Message, AdvanceCursor(m) PROVE OwnsLock'
  BY <1>4 DEF AdvanceCursor
<1>5. ASSUME NEW m \in Message, Release(m) PROVE OwnsLock'
  BY <1>5 DEF Release, ReleasedBy
<1>6. ASSUME NEW m \in Message, ReleaseAndRetry(m) PROVE OwnsLock'
  BY <1>6 DEF ReleaseAndRetry, ReleasedBy
<1>7. ASSUME NEW m \in Message, FindUser(m) PROVE OwnsLock'
  BY <1>7 DEF FindUser
<1>8. ASSUME NEW m \in Message, UpdateUser(m) PROVE OwnsLock'
  BY <1>8 DEF UpdateUser, Branch
<1>9. ASSUME NEW m \in Message, RequestSend(m) PROVE OwnsLock'
  BY <1>9 DEF RequestSend
<1>10. ASSUME NEW m \in Message, ClearPending(m) PROVE OwnsLock'
  BY <1>10 DEF ClearPending
<1>11. ASSUME NEW m \in Message, ConfirmRisk(m) PROVE OwnsLock'
  BY <1>11 DEF ConfirmRisk
<1>12. ASSUME NEW m \in Message, VerifyPin(m) PROVE OwnsLock'
  BY <1>12 DEF VerifyPin
<1>13. ASSUME NEW m \in Message, ClaimPendingSend(m) PROVE OwnsLock'
  BY <1>13 DEF ClaimPendingSend
<1>14. ASSUME NEW m \in Message, ExecutePayment(m) PROVE OwnsLock'
  BY <1>14 DEF ExecutePayment
<1>15. ASSUME NEW m \in Message, Crash(m) PROVE OwnsLock'
  BY <1>15 DEF Crash
<1>16. ASSUME NEW m \in Message, DatabaseFails(m) PROVE OwnsLock'
  BY <1>16 DEF DatabaseFails
<1>17. CASE PendingLapses
  BY <1>17 DEF PendingLapses
<1>18. CASE OrphanExpires
  BY <1>18, Names DEF OrphanExpires
<1>19. CASE LockExpires
  BY <1>19 DEF LockExpires
<1>20. CASE UNCHANGED vars
  BY <1>20 DEF vars
<1>21. QED
  BY <1>1, <1>2, <1>3, <1>4, <1>5, <1>6, <1>7, <1>8, <1>9, <1>10, <1>11, <1>12, <1>13,
       <1>14, <1>15, <1>16, <1>17, <1>18, <1>19, <1>20
       DEF Next, JobStep

\* A message reaches the steps on a send only with that send in hand.
LEMMA HasSendNext == TypeOK /\ HasSend /\ [Next]_vars => HasSend'
<1> SUFFICES ASSUME TypeOK, HasSend, [Next]_vars PROVE HasSend'
  OBVIOUS
<1> USE DEF TypeOK, HasSend, Touching, Goto, Walks, Forget, gate, bounds, book, job
<1>1. ASSUME NEW m \in Message, ReadCursor(m) PROVE HasSend'
  BY <1>1 DEF ReadCursor
<1>2. ASSUME NEW m \in Message, TryAcquire(m) PROVE HasSend'
  BY <1>2 DEF TryAcquire
<1>3. ASSUME NEW m \in Message, Requeue(m) PROVE HasSend'
  BY <1>3 DEF Requeue
<1>4. ASSUME NEW m \in Message, AdvanceCursor(m) PROVE HasSend'
  BY <1>4 DEF AdvanceCursor
<1>5. ASSUME NEW m \in Message, Release(m) PROVE HasSend'
  BY <1>5 DEF Release
<1>6. ASSUME NEW m \in Message, ReleaseAndRetry(m) PROVE HasSend'
  BY <1>6 DEF ReleaseAndRetry
<1>7. ASSUME NEW m \in Message, FindUser(m) PROVE HasSend'
  BY <1>7 DEF FindUser
<1>8. ASSUME NEW m \in Message, UpdateUser(m) PROVE HasSend'
  BY <1>8 DEF UpdateUser, Branch, Waits, Pending
<1>9. ASSUME NEW m \in Message, RequestSend(m) PROVE HasSend'
  BY <1>9 DEF RequestSend
<1>10. ASSUME NEW m \in Message, ClearPending(m) PROVE HasSend'
  BY <1>10 DEF ClearPending
<1>11. ASSUME NEW m \in Message, ConfirmRisk(m) PROVE HasSend'
  BY <1>11 DEF ConfirmRisk
<1>12. ASSUME NEW m \in Message, VerifyPin(m) PROVE HasSend'
  BY <1>12 DEF VerifyPin
<1>13. ASSUME NEW m \in Message, ClaimPendingSend(m) PROVE HasSend'
  BY <1>13 DEF ClaimPendingSend
<1>14. ASSUME NEW m \in Message, ExecutePayment(m) PROVE HasSend'
  BY <1>14 DEF ExecutePayment
<1>15. ASSUME NEW m \in Message, Crash(m) PROVE HasSend'
  BY <1>15 DEF Crash
<1>16. ASSUME NEW m \in Message, DatabaseFails(m) PROVE HasSend'
  BY <1>16 DEF DatabaseFails
<1>17. CASE PendingLapses
  BY <1>17 DEF PendingLapses
<1>18. CASE OrphanExpires
  BY <1>18 DEF OrphanExpires
<1>19. CASE LockExpires
  BY <1>19 DEF LockExpires
<1>20. CASE UNCHANGED vars
  BY <1>20 DEF vars
<1>21. QED
  BY <1>1, <1>2, <1>3, <1>4, <1>5, <1>6, <1>7, <1>8, <1>9, <1>10, <1>11, <1>12, <1>13,
       <1>14, <1>15, <1>16, <1>17, <1>18, <1>19, <1>20
       DEF Next, JobStep

\* The pending send changes only by the message that owns the lock.
LEMMA ReadIsFreshNext ==
  TypeOK /\ OwnsLock /\ HasSend /\ ReadIsFresh /\ [Next]_vars => ReadIsFresh'
<1> SUFFICES ASSUME TypeOK, OwnsLock, HasSend, ReadIsFresh, [Next]_vars
     PROVE ReadIsFresh'
  OBVIOUS
<1> USE DEF TypeOK, OwnsLock, ReadIsFresh, Holding, Touching, Goto, Walks, Forget,
     gate, bounds, book, job
<1>1. ASSUME NEW m \in Message, ReadCursor(m) PROVE ReadIsFresh'
  BY <1>1 DEF ReadCursor
<1>2. ASSUME NEW m \in Message, TryAcquire(m) PROVE ReadIsFresh'
  BY <1>2, Names DEF TryAcquire, Free
<1>3. ASSUME NEW m \in Message, Requeue(m) PROVE ReadIsFresh'
  BY <1>3 DEF Requeue
<1>4. ASSUME NEW m \in Message, AdvanceCursor(m) PROVE ReadIsFresh'
  BY <1>4 DEF AdvanceCursor
<1>5. ASSUME NEW m \in Message, Release(m) PROVE ReadIsFresh'
  BY <1>5 DEF Release, ReleasedBy
<1>6. ASSUME NEW m \in Message, ReleaseAndRetry(m) PROVE ReadIsFresh'
  BY <1>6 DEF ReleaseAndRetry, ReleasedBy
<1>7. ASSUME NEW m \in Message, FindUser(m) PROVE ReadIsFresh'
  BY <1>7 DEF FindUser
<1>8. ASSUME NEW m \in Message, UpdateUser(m) PROVE ReadIsFresh'
  BY <1>8 DEF UpdateUser, Branch, Waits
<1>9. ASSUME NEW m \in Message, RequestSend(m) PROVE ReadIsFresh'
  BY <1>9 DEF RequestSend
<1>10. ASSUME NEW m \in Message, ClearPending(m) PROVE ReadIsFresh'
  BY <1>10 DEF ClearPending
<1>11. ASSUME NEW m \in Message, ConfirmRisk(m) PROVE ReadIsFresh'
  BY <1>11 DEF ConfirmRisk
<1>12. ASSUME NEW m \in Message, VerifyPin(m) PROVE ReadIsFresh'
  BY <1>12 DEF VerifyPin
<1>13. ASSUME NEW m \in Message, ClaimPendingSend(m) PROVE ReadIsFresh'
  BY <1>13 DEF ClaimPendingSend, Wins, AfterClaim
<1>14. ASSUME NEW m \in Message, ExecutePayment(m) PROVE ReadIsFresh'
  BY <1>14 DEF ExecutePayment
<1>15. ASSUME NEW m \in Message, Crash(m) PROVE ReadIsFresh'
  BY <1>15 DEF Crash
<1>16. ASSUME NEW m \in Message, DatabaseFails(m) PROVE ReadIsFresh'
  BY <1>16 DEF DatabaseFails
<1>17. CASE PendingLapses
  BY <1>17 DEF PendingLapses
<1>18. CASE OrphanExpires
  BY <1>18 DEF OrphanExpires
<1>19. CASE LockExpires
  BY <1>19 DEF LockExpires
<1>20. CASE UNCHANGED vars
  BY <1>20 DEF vars
<1>21. QED
  BY <1>1, <1>2, <1>3, <1>4, <1>5, <1>6, <1>7, <1>8, <1>9, <1>10, <1>11, <1>12, <1>13,
       <1>14, <1>15, <1>16, <1>17, <1>18, <1>19, <1>20
       DEF Next, JobStep
-----------------------------------------------------------------------------
(* Confirmations and the books *)

\* A risky send comes to its PIN by a "yes" only.
LEMMA PinsAreConfirmedNext ==
  TypeOK /\ HasSend /\ PinsAreConfirmed /\ [Next]_vars => PinsAreConfirmed'
<1> SUFFICES ASSUME TypeOK, HasSend, PinsAreConfirmed, [Next]_vars
     PROVE PinsAreConfirmed'
  OBVIOUS
<1> USE DEF TypeOK, HasSend, PinsAreConfirmed, Confirmed, Goto, Walks, Forget, gate,
     bounds, book, job
<1>1. ASSUME NEW m \in Message, ReadCursor(m) PROVE PinsAreConfirmed'
  BY <1>1 DEF ReadCursor
<1>2. ASSUME NEW m \in Message, TryAcquire(m) PROVE PinsAreConfirmed'
  BY <1>2 DEF TryAcquire
<1>3. ASSUME NEW m \in Message, Requeue(m) PROVE PinsAreConfirmed'
  BY <1>3 DEF Requeue
<1>4. ASSUME NEW m \in Message, AdvanceCursor(m) PROVE PinsAreConfirmed'
  BY <1>4 DEF AdvanceCursor
<1>5. ASSUME NEW m \in Message, Release(m) PROVE PinsAreConfirmed'
  BY <1>5 DEF Release
<1>6. ASSUME NEW m \in Message, ReleaseAndRetry(m) PROVE PinsAreConfirmed'
  BY <1>6 DEF ReleaseAndRetry
<1>7. ASSUME NEW m \in Message, FindUser(m) PROVE PinsAreConfirmed'
  BY <1>7 DEF FindUser
<1>8. ASSUME NEW m \in Message, UpdateUser(m) PROVE PinsAreConfirmed'
  BY <1>8 DEF UpdateUser
<1>9. ASSUME NEW m \in Message, RequestSend(m) PROVE PinsAreConfirmed'
  BY <1>9 DEF RequestSend, FirstStep
<1>10. ASSUME NEW m \in Message, ClearPending(m) PROVE PinsAreConfirmed'
  BY <1>10 DEF ClearPending
<1>11. ASSUME NEW m \in Message, ConfirmRisk(m) PROVE PinsAreConfirmed'
  <2>1. snap[m] \in [send : Message, step : {"risk", "pin"}, write : Nat \ {0}]
    BY <1>11, SendInHand DEF ConfirmRisk, Touching
  <2>2. pending' = [send |-> snap[m].send, step |-> "pin", write |-> writes + 1]
    BY <1>11, <2>1 DEF ConfirmRisk
  <2>3. /\ \A s \in Message : agreed[s] > 0 => agreed'[s] > 0
        /\ agreed'[snap[m].send] > 0
    BY <1>11, <2>1 DEF ConfirmRisk, Count, Tally
  <2>4. Confirmed(pending)'
    BY <1>11, <2>2, <2>3 DEF ConfirmRisk
  <2>5. \A p \in Pending : Confirmed(p) => Confirmed(p)'
    <3>1. \A p \in Pending : p # NoPending => p.send \in Message
      BY DEF Pending
    <3>2. said' = said
      BY <1>11 DEF ConfirmRisk
    <3>3. QED
      BY <2>3, <3>1, <3>2
  <2>6. \A n \in Message : Confirmed(found[n])' /\ Confirmed(snap[n])'
    <3>1. found' = found /\ snap' = snap
      BY <1>11 DEF ConfirmRisk
    <3> HIDE DEF Confirmed
    <3>2. \A n \in Message : found[n] \in Pending /\ Confirmed(found[n])
         /\ snap[n] \in Pending /\ Confirmed(snap[n])
      OBVIOUS
    <3>3. QED
      BY <2>5, <3>1, <3>2 DEF Confirmed
  <2>7. \A s \in Message : said'[s].text = "risky" /\ paid'[s] > 0 => agreed'[s] > 0
    <3>1. said' = said /\ paid' = paid
      BY <1>11 DEF ConfirmRisk
    <3>2. QED
      BY <2>3, <3>1
  <2>8. QED
    BY <2>4, <2>6, <2>7
<1>12. ASSUME NEW m \in Message, VerifyPin(m) PROVE PinsAreConfirmed'
  BY <1>12 DEF VerifyPin
<1>13. ASSUME NEW m \in Message, ClaimPendingSend(m) PROVE PinsAreConfirmed'
  BY <1>13 DEF ClaimPendingSend, AfterClaim
<1>14. ASSUME NEW m \in Message, ExecutePayment(m) PROVE PinsAreConfirmed'
  <2>1. snap[m].send \in Message /\ Confirmed(snap[m]) /\ snap[m] # NoPending
       /\ snap[m].step = "pin"
    BY <1>14, SendInHand DEF ExecutePayment
  <2>2. said[snap[m].send].text = "risky" => agreed[snap[m].send] > 0
    BY <2>1
  <2>3. \A s \in Message : s # snap[m].send => paid'[s] = paid[s]
    BY <1>14, <2>1 DEF ExecutePayment, Count, Tally
  <2>4. \A s \in Message : said[s].text = "risky" /\ paid'[s] > 0 => agreed[s] > 0
    BY <2>2, <2>3
  <2>5. QED
    BY <1>14, <2>4 DEF ExecutePayment
<1>15. ASSUME NEW m \in Message, Crash(m) PROVE PinsAreConfirmed'
  BY <1>15 DEF Crash, Count
<1>16. ASSUME NEW m \in Message, DatabaseFails(m) PROVE PinsAreConfirmed'
  BY <1>16 DEF DatabaseFails
<1>17. CASE PendingLapses
  BY <1>17 DEF PendingLapses
<1>18. CASE OrphanExpires
  BY <1>18 DEF OrphanExpires
<1>19. CASE LockExpires
  BY <1>19 DEF LockExpires
<1>20. CASE UNCHANGED vars
  BY <1>20 DEF vars
<1>21. QED
  BY <1>1, <1>2, <1>3, <1>4, <1>5, <1>6, <1>7, <1>8, <1>9, <1>10, <1>11, <1>12, <1>13,
       <1>14, <1>15, <1>16, <1>17, <1>18, <1>19, <1>20
       DEF Next, JobStep

\* The books stay balanced: a step moves a request from one column to the next.
LEMMA EachRequestNext ==
  TypeOK /\ OwnsLock /\ HasSend /\ ReadIsFresh /\ EachRequestEndsOnce
       /\ [Next]_vars => EachRequestEndsOnce'
<1> SUFFICES ASSUME TypeOK, OwnsLock, HasSend, ReadIsFresh, EachRequestEndsOnce,
     [Next]_vars
     PROVE EachRequestEndsOnce'
  OBVIOUS
<1> USE DEF TypeOK, OwnsLock, HasSend, ReadIsFresh, EachRequestEndsOnce, Open, InHand,
     Paying, Holding, Touching, Tally, Goto, Walks, Forget, gate, bounds, book, job
<1>1. ASSUME NEW m \in Message, ReadCursor(m) PROVE EachRequestEndsOnce'
  BY <1>1 DEF ReadCursor
<1>2. ASSUME NEW m \in Message, TryAcquire(m) PROVE EachRequestEndsOnce'
  BY <1>2 DEF TryAcquire
<1>3. ASSUME NEW m \in Message, Requeue(m) PROVE EachRequestEndsOnce'
  BY <1>3 DEF Requeue
<1>4. ASSUME NEW m \in Message, AdvanceCursor(m) PROVE EachRequestEndsOnce'
  BY <1>4 DEF AdvanceCursor
<1>5. ASSUME NEW m \in Message, Release(m) PROVE EachRequestEndsOnce'
  BY <1>5 DEF Release
<1>6. ASSUME NEW m \in Message, ReleaseAndRetry(m) PROVE EachRequestEndsOnce'
  BY <1>6 DEF ReleaseAndRetry
<1>7. ASSUME NEW m \in Message, FindUser(m) PROVE EachRequestEndsOnce'
  BY <1>7 DEF FindUser
<1>8. ASSUME NEW m \in Message, UpdateUser(m) PROVE EachRequestEndsOnce'
  BY <1>8 DEF UpdateUser, Branch
<1>9. ASSUME NEW m \in Message, RequestSend(m) PROVE EachRequestEndsOnce'
  <2> SUFFICES ASSUME expiries = 0 PROVE EachRequestEndsOnce'
    BY <1>9 DEF RequestSend
  <2>1. pending = NoPending /\ pending'.send = m
    BY <1>9 DEF RequestSend
  <2>2. \A s \in Message : Open(s) = 0 /\ Open(s)' = IF s = m THEN 1 ELSE 0
    BY <2>1, Names DEF NoPending
  <2>3. \A s \in Message : InHand(s)' = InHand(s)
    BY <1>9 DEF RequestSend
  <2>4. \A s \in Message : asked'[s] = IF s = m THEN asked[s] + 1 ELSE asked[s]
    BY <1>9 DEF RequestSend, Count
  <2>5. \A s \in Message :
          /\ asked[s] \in Nat /\ paid[s] \in Nat /\ closed[s] \in Nat
          /\ asked[s] = paid[s] + closed[s] + InHand(s) + Open(s)
    OBVIOUS
  <2>6. \A s \in Message : InHand(s) \in {0, 1}
    OBVIOUS
  <2>7. UNCHANGED <<paid, closed>>
    BY <1>9 DEF RequestSend
  <2> HIDE DEF Open, InHand
  <2>8. QED
    BY ONLY <2>2, <2>3, <2>4, <2>5, <2>6, <2>7 DEF EachRequestEndsOnce
<1>10. ASSUME NEW m \in Message, ClearPending(m) PROVE EachRequestEndsOnce'
  <2> SUFFICES ASSUME expiries = 0 PROVE EachRequestEndsOnce'
    BY <1>10 DEF ClearPending
  <2>1. pending = snap[m] /\ snap[m].send \in Message
    BY <1>10, SendInHand DEF ClearPending
  <2>2. \A s \in Message : Open(s)' = 0 /\ Open(s) = IF s = snap[m].send THEN 1 ELSE 0
    BY <1>10, <2>1, Names DEF ClearPending, NoPending
  <2>3. \A s \in Message : InHand(s)' = InHand(s)
    BY <1>10 DEF ClearPending
  <2>4. \A s \in Message : closed'[s] = IF s = snap[m].send THEN closed[s] + 1 ELSE closed[s]
    BY <1>10, <2>1 DEF ClearPending, Count
  <2>5. \A s \in Message :
          /\ asked[s] \in Nat /\ paid[s] \in Nat /\ closed[s] \in Nat
          /\ asked[s] = paid[s] + closed[s] + InHand(s) + Open(s)
    OBVIOUS
  <2>6. \A s \in Message : InHand(s) \in {0, 1}
    OBVIOUS
  <2>7. UNCHANGED <<paid, asked>>
    BY <1>10 DEF ClearPending
  <2> HIDE DEF Open, InHand
  <2>8. QED
    BY ONLY <2>2, <2>3, <2>4, <2>5, <2>6, <2>7 DEF EachRequestEndsOnce
<1>11. ASSUME NEW m \in Message, ConfirmRisk(m) PROVE EachRequestEndsOnce'
  BY <1>11 DEF ConfirmRisk, Count
<1>12. ASSUME NEW m \in Message, VerifyPin(m) PROVE EachRequestEndsOnce'
  BY <1>12 DEF VerifyPin
<1>13. ASSUME NEW m \in Message, ClaimPendingSend(m) PROVE EachRequestEndsOnce'
  <2> SUFFICES ASSUME expiries = 0 PROVE EachRequestEndsOnce'
    BY <1>13 DEF ClaimPendingSend
  <2>1. pending = snap[m] /\ snap[m].send \in Message /\ snap[m] # NoPending
       /\ snap[m].step = "pin"
    BY <1>13, SendInHand DEF ClaimPendingSend
  <2>2. pc' = [pc EXCEPT ![m] = "pay"] /\ pending' = NoPending
    BY <1>13, <2>1 DEF ClaimPendingSend, Wins, AfterClaim
  <2>3. \A n \in Message : n # m => pc[n] # "pay"
    BY <1>13 DEF ClaimPendingSend
  <2>4. \A s \in Message : Open(s)' = 0 /\ Open(s) = IF s = snap[m].send THEN 1 ELSE 0
    BY <2>1, <2>2, Names DEF NoPending
  <2>5. \A s \in Message : InHand(s) = 0
    BY <1>13, <2>3 DEF ClaimPendingSend
  <2>6. \A s \in Message : InHand(s)' = IF s = snap[m].send THEN 1 ELSE 0
    BY <1>13, <2>2, <2>3 DEF ClaimPendingSend
  <2> HIDE DEF Open, InHand
  <2>7. QED
    BY <1>13, <2>4, <2>5, <2>6 DEF ClaimPendingSend
<1>14. ASSUME NEW m \in Message, ExecutePayment(m) PROVE EachRequestEndsOnce'
  BY <1>14 DEF ExecutePayment, Count
<1>15. ASSUME NEW m \in Message, Crash(m) PROVE EachRequestEndsOnce'
  BY <1>15 DEF Crash, Count
<1>16. ASSUME NEW m \in Message, DatabaseFails(m) PROVE EachRequestEndsOnce'
  BY <1>16 DEF DatabaseFails
<1>17. CASE PendingLapses
  BY <1>17 DEF PendingLapses
<1>18. CASE OrphanExpires
  BY <1>18 DEF OrphanExpires
<1>19. CASE LockExpires
  BY <1>19 DEF LockExpires
<1>20. CASE UNCHANGED vars
  BY <1>20 DEF vars
<1>21. QED
  BY <1>1, <1>2, <1>3, <1>4, <1>5, <1>6, <1>7, <1>8, <1>9, <1>10, <1>11, <1>12, <1>13,
       <1>14, <1>15, <1>16, <1>17, <1>18, <1>19, <1>20
       DEF Next, JobStep

\* A "yes" is made, carried along or used up.
LEMMA YesIsUsedNext ==
  TypeOK /\ OwnsLock /\ HasSend /\ ReadIsFresh /\ YesIsUsedOnce
       /\ [Next]_vars => YesIsUsedOnce'
<1> SUFFICES ASSUME TypeOK, OwnsLock, HasSend, ReadIsFresh, YesIsUsedOnce, [Next]_vars
     PROVE YesIsUsedOnce'
  OBVIOUS
<1> USE DEF TypeOK, OwnsLock, HasSend, ReadIsFresh, YesIsUsedOnce, AtPin, InHand,
     Paying, Holding, Touching, Tally, Goto, Walks, Forget, gate, bounds, book, job
<1>1. ASSUME NEW m \in Message, ReadCursor(m) PROVE YesIsUsedOnce'
  BY <1>1 DEF ReadCursor
<1>2. ASSUME NEW m \in Message, TryAcquire(m) PROVE YesIsUsedOnce'
  BY <1>2 DEF TryAcquire
<1>3. ASSUME NEW m \in Message, Requeue(m) PROVE YesIsUsedOnce'
  BY <1>3 DEF Requeue
<1>4. ASSUME NEW m \in Message, AdvanceCursor(m) PROVE YesIsUsedOnce'
  BY <1>4 DEF AdvanceCursor
<1>5. ASSUME NEW m \in Message, Release(m) PROVE YesIsUsedOnce'
  BY <1>5 DEF Release
<1>6. ASSUME NEW m \in Message, ReleaseAndRetry(m) PROVE YesIsUsedOnce'
  BY <1>6 DEF ReleaseAndRetry
<1>7. ASSUME NEW m \in Message, FindUser(m) PROVE YesIsUsedOnce'
  BY <1>7 DEF FindUser
<1>8. ASSUME NEW m \in Message, UpdateUser(m) PROVE YesIsUsedOnce'
  BY <1>8 DEF UpdateUser, Branch
<1>9. ASSUME NEW m \in Message, RequestSend(m) PROVE YesIsUsedOnce'
  BY <1>9 DEF RequestSend, Count, FirstStep
<1>10. ASSUME NEW m \in Message, ClearPending(m) PROVE YesIsUsedOnce'
  <2> SUFFICES ASSUME expiries = 0 PROVE YesIsUsedOnce'
    BY <1>10 DEF ClearPending
  <2>1. \A s \in Message : AtPin(s)' = 0 /\ AtPin(s) \in {0, 1}
    BY <1>10, Names DEF ClearPending, NoPending
  <2>2. \A s \in Message : InHand(s)' = InHand(s) /\ InHand(s) \in {0, 1}
    BY <1>10 DEF ClearPending
  <2> HIDE DEF AtPin, InHand
  <2>3. QED
    BY <1>10, <2>1, <2>2 DEF ClearPending
<1>11. ASSUME NEW m \in Message, ConfirmRisk(m) PROVE YesIsUsedOnce'
  BY <1>11 DEF ConfirmRisk, Count
<1>12. ASSUME NEW m \in Message, VerifyPin(m) PROVE YesIsUsedOnce'
  BY <1>12 DEF VerifyPin
<1>13. ASSUME NEW m \in Message, ClaimPendingSend(m) PROVE YesIsUsedOnce'
  <2> SUFFICES ASSUME expiries = 0 PROVE YesIsUsedOnce'
    BY <1>13 DEF ClaimPendingSend
  <2>1. pending = snap[m] /\ snap[m].send \in Message /\ snap[m] # NoPending
       /\ snap[m].step = "pin"
    BY <1>13, SendInHand DEF ClaimPendingSend
  <2>2. pc' = [pc EXCEPT ![m] = "pay"] /\ pending' = NoPending
    BY <1>13, <2>1 DEF ClaimPendingSend, Wins, AfterClaim
  <2>3. \A n \in Message : n # m => pc[n] # "pay"
    BY <1>13 DEF ClaimPendingSend
  <2>4. \A s \in Message : AtPin(s)' = 0 /\ AtPin(s) = IF s = snap[m].send THEN 1 ELSE 0
    BY <2>1, <2>2, Names DEF NoPending
  <2>5. \A s \in Message : InHand(s) = 0
    BY <1>13, <2>3 DEF ClaimPendingSend
  <2>6. \A s \in Message : InHand(s)' = IF s = snap[m].send THEN 1 ELSE 0
    BY <1>13, <2>2, <2>3 DEF ClaimPendingSend
  <2> HIDE DEF AtPin, InHand
  <2>7. QED
    BY <1>13, <2>4, <2>5, <2>6 DEF ClaimPendingSend
<1>14. ASSUME NEW m \in Message, ExecutePayment(m) PROVE YesIsUsedOnce'
  BY <1>14 DEF ExecutePayment, Count
<1>15. ASSUME NEW m \in Message, Crash(m) PROVE YesIsUsedOnce'
  BY <1>15 DEF Crash, Count
<1>16. ASSUME NEW m \in Message, DatabaseFails(m) PROVE YesIsUsedOnce'
  BY <1>16 DEF DatabaseFails
<1>17. CASE PendingLapses
  BY <1>17 DEF PendingLapses
<1>18. CASE OrphanExpires
  BY <1>18 DEF OrphanExpires
<1>19. CASE LockExpires
  BY <1>19 DEF LockExpires
<1>20. CASE UNCHANGED vars
  BY <1>20 DEF vars
<1>21. QED
  BY <1>1, <1>2, <1>3, <1>4, <1>5, <1>6, <1>7, <1>8, <1>9, <1>10, <1>11, <1>12, <1>13,
       <1>14, <1>15, <1>16, <1>17, <1>18, <1>19, <1>20
       DEF Next, JobStep
-----------------------------------------------------------------------------
(* Theorems *)

LEMMA InvInit == Init => IInv
<1> SUFFICES ASSUME Init PROVE IInv
  OBVIOUS
<1>1. TypeOK /\ AttemptsLeft
  BY TypeInit
<1>2. OwnsLock /\ HasSend /\ ReadIsFresh
  BY DEF Init, OwnsLock, HasSend, ReadIsFresh, Holding, Touching
<1>3. PinsAreConfirmed
  BY DEF Init, PinsAreConfirmed, Confirmed
<1>4. \A s \in Message : InHand(s) = 0 /\ Open(s) = 0 /\ AtPin(s) = 0
  BY Names DEF Init, InHand, Paying, Open, AtPin, NoPending
<1>5. EachRequestEndsOnce /\ YesIsUsedOnce
  BY <1>4 DEF Init, EachRequestEndsOnce, YesIsUsedOnce
<1>6. QED
  BY <1>1, <1>2, <1>3, <1>5 DEF IInv

LEMMA InvNext == IInv /\ [Next]_vars => IInv'
  BY TypeNext, OwnsLockNext, HasSendNext, ReadIsFreshNext, PinsAreConfirmedNext,
     EachRequestNext, YesIsUsedNext DEF IInv

\* The inductive invariant holds in every reachable state.
THEOREM Invariance == Spec => []IInv
<1>1. Init => IInv
  BY InvInit
<1>2. IInv /\ [Next]_vars => IInv'
  BY InvNext
<1>3. QED
  BY <1>1, <1>2, PTL DEF Spec

\* Every variable keeps its type, and no job is tried too often.
THEOREM TypeCorrect == Spec => []TypeOK
<1>1. IInv => TypeOK
  BY DEF IInv
<1>2. QED
  BY <1>1, Invariance, PTL

\* Messages of a sender overlap only after a live owner lost its lock.
THEOREM Exclusion == Spec => []OneAtATime
<1>1. IInv => OneAtATime
  BY DEF IInv, OwnsLock, OneAtATime
<1>2. QED
  BY <1>1, Invariance, PTL

\* Until then, every request for a send ends once.
THEOREM RequestsEndOnce == Spec => []EachRequestEndsOnce
<1>1. IInv => EachRequestEndsOnce
  BY DEF IInv
<1>2. QED
  BY <1>1, Invariance, PTL

\* No send to a new destination is paid unconfirmed, overlap or not; without
\* overlap no "yes" pays twice.
THEOREM NoUnconfirmedRisk == Spec => []RiskySendsAreConfirmed
<1>1. IInv => RiskySendsAreConfirmed
  <2> SUFFICES ASSUME IInv, NEW s \in Message, said[s].text = "risky"
               PROVE  /\ paid[s] > 0 => agreed[s] > 0
                      /\ expiries = 0 => paid[s] <= agreed[s]
    BY DEF RiskySendsAreConfirmed
  <2>1. paid[s] > 0 => agreed[s] > 0
    BY DEF IInv, PinsAreConfirmed
  <2>2. ASSUME expiries = 0 PROVE paid[s] <= agreed[s]
    <3>1. paid[s] + InHand(s) + AtPin(s) <= agreed[s]
      BY <2>2 DEF IInv, YesIsUsedOnce
    <3>2. InHand(s) \in {0, 1} /\ AtPin(s) \in {0, 1}
      BY DEF InHand, AtPin
    <3>3. paid[s] \in Nat /\ agreed[s] \in Nat
      BY DEF IInv, TypeOK, Tally
    <3>4. QED
      BY <3>1, <3>2, <3>3
  <2>3. QED
    BY <2>1, <2>2
<1>2. QED
  BY <1>1, Invariance, PTL

\* The cursor's timestamp never decreases.
THEOREM CursorMonotone == Spec => CursorNeverGoesBack
<1>1. TypeOK /\ [Next]_vars => [cursor'.stamp >= cursor.stamp]_cursor
  <2> SUFFICES ASSUME TypeOK, [Next]_vars, cursor' # cursor
               PROVE  cursor'.stamp >= cursor.stamp
    OBVIOUS
  <2>1. PICK m \in Message : AdvanceCursor(m)
    BY DEF Next, JobStep, ReadCursor, TryAcquire, Requeue, Release, ReleaseAndRetry,
           FindUser, UpdateUser, RequestSend, ClearPending, ConfirmRisk, VerifyPin,
           ClaimPendingSend, ExecutePayment, Crash, DatabaseFails, PendingLapses,
           OrphanExpires, LockExpires, gate, vars
  <2>2. cursor' = Newest(m) /\ ~Stale(m)
    BY <2>1 DEF AdvanceCursor, Advanced
  <2>3. ~(said[m].stamp < cursor.stamp) /\ cursor'.stamp = said[m].stamp
    BY <2>2 DEF Stale, Newest
  <2>4. said[m].stamp \in Nat /\ cursor.stamp \in Nat
    BY SaidType DEF TypeOK
  <2>5. QED
    BY <2>3, <2>4
<1>2. QED
  BY <1>1, TypeCorrect, PTL DEF Spec, CursorNeverGoesBack
=============================================================================
