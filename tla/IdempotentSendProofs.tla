------------------------ MODULE IdempotentSendProofs ------------------------
(***************************************************************************)
(* Proofs that hold for any number of calls and fingerprints.  Everything  *)
(* follows from one fact about the key: whoever runs the payment for it    *)
(* runs it under the one reserved transaction id, and the row of that id   *)
(* can be created only once.                                               *)
(***************************************************************************)
EXTENDS IdempotentSend, FiniteSetTheorems, TLAPS

Reserved == record.reserved # None /\ row[record.reserved] # "absent"

\* The record says who reserved it from the moment it exists, a call that is
\* past its insert finds it, and only its transaction id has a row.
KeyTaken ==
  /\ record.state # "none" => record.reserved \in Call
  /\ \A c \in Call : pc[c] # "idle" => record.state # "none"
  /\ \A t \in Call : row[t] # "absent" => record.state # "none" /\ t = record.reserved

\* Calls that run the payment run it under the reserved id.
RunsReservedId ==
  \A c \in Call : pc[c] \in {"running", "paying", "recording", "failing"} =>
    id[c] = record.reserved

\* The call that created the row is the only one that submits.
Pays(c) == pc[c] = "paying" \/ c \in submitted
OnePayer ==
  \A c, d \in Call : Pays(c) => Reserved /\ (Pays(d) => c = d)

\* Nothing is stored, or told, as a success before the row exists, and every
\* response that is stored, read or told is about that row.
SuccessIsReserved ==
  /\ record.state = "completed" => Reserved /\ record.response = record.reserved
  /\ \A c \in Call :
       /\ seen[c].state = "completed" => Reserved /\ seen[c].response = record.reserved
       /\ pc[c] \in {"recording", "completing"} => Reserved
       /\ told[c] \in {"response", "replay"} => Reserved /\ receipt[c] = record.reserved

\* A call that goes on after the comparison of fingerprints made the key's own
\* request.
SameRequests ==
  \A c \in Call :
    \/ pc[c] \in {"completing", "claiming", "running", "paying", "recording", "failing"}
    \/ told[c] \in {"response", "replay", "empty"}
    \/ c \in submitted
    => record.state # "none" /\ asks[c] = record.print

IInv ==
  /\ TypeOK
  /\ KeyTaken
  /\ RunsReservedId
  /\ OnePayer
  /\ SuccessIsReserved
  /\ SameRequests

-----------------------------------------------------------------------------
(* Types *)

LEMMA TypeInit == Init => TypeOK
  BY DEF Init, TypeOK, Record, NoRecord, Unseen, Waiting

LEMMA TypeNext == TypeOK /\ [Next]_vars => TypeOK'
<1> USE DEF TypeOK, Record, Goto, Tell, Forget, Unseen, Waiting, answer
<1> SUFFICES ASSUME TypeOK, [Next]_vars PROVE TypeOK'
  OBVIOUS
<1>1. ASSUME NEW c \in Call, Create(c) PROVE TypeOK'
  BY <1>1 DEF Create
<1>2. ASSUME NEW c \in Call, Collide(c) PROVE TypeOK'
  BY <1>2 DEF Collide
<1>3. ASSUME NEW c \in Call, ReadRecord(c) PROVE TypeOK'
  BY <1>3 DEF ReadRecord
<1>4. ASSUME NEW c \in Call, Replay(c) PROVE TypeOK'
  BY <1>4 DEF Replay
<1>5. ASSUME NEW c \in Call, Refuse(c) PROVE TypeOK'
  BY <1>5 DEF Refuse
<1>6. ASSUME NEW c \in Call, ReplaySettled(c) PROVE TypeOK'
  BY <1>6 DEF ReplaySettled
<1>7. ASSUME NEW c \in Call, StoreReplay(c) PROVE TypeOK'
  BY <1>7 DEF StoreReplay
<1>8. ASSUME NEW c \in Call, Abandoned(c) PROVE TypeOK'
  BY <1>8 DEF Abandoned
<1>9. ASSUME NEW c \in Call, StillProcessing(c) PROVE TypeOK'
  <2>1. CASE TimedOut(c)
    <3>1. Forget(c)
      BY <1>9, <2>1 DEF StillProcessing
    <3>2. /\ seen' \in [Call -> [state : {"none", "processing", "completed", "failed"}, term : Nat,
                              response : Call \cup {None}]]
          /\ patience' \in [Call -> [round : {1, 2}, late : BOOLEAN]]
      BY <3>1
    <3>3. /\ told' \in [Call -> {"nothing", "response", "replay", "empty", "refused"}]
          /\ receipt' \in [Call -> Call \cup {None}]
      BY <1>9, <2>1 DEF StillProcessing
    <3>4. QED
      BY <1>9, <2>1, <3>1, <3>2, <3>3 DEF StillProcessing
  <2>2. CASE ~TimedOut(c)
    BY <1>9, <2>2 DEF StillProcessing
  <2>3. QED
    BY <2>1, <2>2
<1>10. ASSUME NEW c \in Call, Claim(c) PROVE TypeOK'
  <2>1. CASE record.state = "processing" /\ record.over
    <3>1. record' = [record EXCEPT !.term = record.term + 1, !.over = FALSE]
      BY <1>10, <2>1 DEF Claim
    <3>2. record' \in Record
      <4>1. record' = [state |-> record.state, print |-> record.print,
                       reserved |-> record.reserved, term |-> record.term + 1, over |-> FALSE,
                       response |-> record.response]
        BY <3>1
      <4>2. QED
        BY <4>1
    <3>3. id' \in [Call -> Call \cup {None}]
      BY <1>10, <2>1 DEF Claim, ReservedId
    <3>4. UNCHANGED patience /\ pc' = [pc EXCEPT ![c] = "running"]
      BY <1>10, <2>1 DEF Claim
    <3>5. QED
      BY <1>10, <3>2, <3>3, <3>4 DEF Claim
  <2>2. CASE ~(record.state = "processing" /\ record.over)
    <3>1. /\ patience' = [patience EXCEPT ![c] = [round |-> 2, late |-> FALSE]]
          /\ pc' = [pc EXCEPT ![c] = "reading"]
          /\ UNCHANGED <<record, id>>
      BY <1>10, <2>2 DEF Claim
    <3>2. patience' \in [Call -> [round : {1, 2}, late : BOOLEAN]]
      BY <3>1
    <3>3. QED
      BY <1>10, <3>1, <3>2 DEF Claim
  <2>3. QED
    BY <2>1, <2>2
<1>11. ASSUME NEW c \in Call, Reserve(c) PROVE TypeOK'
  BY <1>11 DEF Reserve
<1>12. ASSUME NEW c \in Call, Pay(c) PROVE TypeOK'
  BY <1>12 DEF Pay
<1>13. ASSUME NEW c \in Call, RecordResponse(c) PROVE TypeOK'
  <2>1. CASE /\ record' = [record EXCEPT !.state = "completed", !.response = id[c]]
             /\ Tell(c, "response", id[c])
    <3>1. record' = [state |-> "completed", print |-> record.print, reserved |-> record.reserved,
                     term |-> record.term, over |-> record.over, response |-> id[c]]
      BY <2>1
    <3>2. record' \in Record
      BY <3>1
    <3> QED
      BY <1>13, <2>1, <3>2 DEF RecordResponse
  <2>2. CASE Goto(c, "failing") /\ UNCHANGED <<record, answer>>
    BY <1>13, <2>2 DEF RecordResponse
  <2> QED
    BY <1>13, <2>1, <2>2 DEF RecordResponse
<1>14. ASSUME NEW c \in Call, RecordFailure(c) PROVE TypeOK'
  BY <1>14 DEF RecordFailure, FailedState
<1>15. ASSUME NEW c \in Call, Deadline(c) PROVE TypeOK'
  BY <1>15 DEF Deadline
<1>16. ASSUME NEW c \in Call, Crash(c) PROVE TypeOK'
  BY <1>16 DEF Crash
<1>17. ASSUME NEW c \in Call, Settle(c) PROVE TypeOK'
  BY <1>17 DEF Settle, Moves
<1>18. CASE LeaseEnds
  BY <1>18 DEF LeaseEnds
<1>19. CASE UNCHANGED vars
  BY <1>19 DEF vars, answer
<1>20. QED
  BY <1>1, <1>2, <1>3, <1>4, <1>5, <1>6, <1>7, <1>8, <1>9, <1>10, <1>11,
     <1>12, <1>13, <1>14, <1>15, <1>16, <1>17, <1>18, <1>19 DEF Next,
     Execute

-----------------------------------------------------------------------------
(* The inductive invariant *)

LEMMA IInvInit == Init => IInv
<1> SUFFICES ASSUME Init PROVE IInv
  OBVIOUS
<1>1. TypeOK
  BY TypeInit
<1>2. QED
  BY <1>1 DEF Init, IInv, KeyTaken, RunsReservedId, OnePayer, Pays, SuccessIsReserved,
     SameRequests, Reserved, NoRecord, Unseen

\* A key, its request and its reserved row stay as they are.
LEMMA KeyStays ==
  ASSUME IInv, [Next]_vars
  PROVE  /\ record.state # "none" =>
              /\ record'.state # "none"
              /\ record'.print = record.print
              /\ record'.reserved = record.reserved
         /\ Reserved => Reserved'
         /\ asks' = asks
<1> USE DEF IInv, TypeOK, Record, Goto, Tell, answer, KeyTaken, Reserved
<1> DEFINE Stays ==
         /\ record.state # "none" =>
              /\ record'.state # "none"
              /\ record'.print = record.print
              /\ record'.reserved = record.reserved
         /\ Reserved => Reserved'
         /\ asks' = asks
<1>1. ASSUME NEW c \in Call, Create(c) PROVE Stays
  BY <1>1 DEF Create
<1>2. ASSUME NEW c \in Call, Collide(c) PROVE Stays
  BY <1>2 DEF Collide
<1>3. ASSUME NEW c \in Call, ReadRecord(c) PROVE Stays
  BY <1>3 DEF ReadRecord
<1>4. ASSUME NEW c \in Call, Replay(c) PROVE Stays
  BY <1>4 DEF Replay
<1>5. ASSUME NEW c \in Call, Refuse(c) PROVE Stays
  BY <1>5 DEF Refuse
<1>6. ASSUME NEW c \in Call, ReplaySettled(c) PROVE Stays
  BY <1>6 DEF ReplaySettled
<1>7. ASSUME NEW c \in Call, StoreReplay(c) PROVE Stays
  BY <1>7 DEF StoreReplay
<1>8. ASSUME NEW c \in Call, Abandoned(c) PROVE Stays
  BY <1>8 DEF Abandoned
<1>9. ASSUME NEW c \in Call, StillProcessing(c) PROVE Stays
  BY <1>9 DEF StillProcessing
<1>10. ASSUME NEW c \in Call, Claim(c) PROVE Stays
  BY <1>10 DEF Claim, ReservedId
<1>11. ASSUME NEW c \in Call, Reserve(c) PROVE Stays
  BY <1>11 DEF Reserve
<1>12. ASSUME NEW c \in Call, Pay(c) PROVE Stays
  BY <1>12 DEF Pay
<1>13. ASSUME NEW c \in Call, RecordResponse(c) PROVE Stays
  BY <1>13 DEF RecordResponse
<1>14. ASSUME NEW c \in Call, RecordFailure(c) PROVE Stays
  BY <1>14 DEF RecordFailure, FailedState
<1>15. ASSUME NEW c \in Call, Deadline(c) PROVE Stays
  BY <1>15 DEF Deadline
<1>16. ASSUME NEW c \in Call, Crash(c) PROVE Stays
  BY <1>16 DEF Crash
<1>17. ASSUME NEW c \in Call, Settle(c) PROVE Stays
  BY <1>17 DEF Settle, Moves
<1>18. CASE LeaseEnds
  BY <1>18 DEF LeaseEnds
<1>19. CASE UNCHANGED vars
  BY <1>19 DEF vars, answer
<1>20. QED
  BY <1>1, <1>2, <1>3, <1>4, <1>5, <1>6, <1>7, <1>8, <1>9, <1>10, <1>11,
     <1>12, <1>13, <1>14, <1>15, <1>16, <1>17, <1>18, <1>19 DEF Next,
     Execute

\* The key keeps its owner, and no other id gets a row.
LEMMA KeyTakenNext ==
  ASSUME IInv, [Next]_vars
  PROVE  KeyTaken'
<1> USE DEF IInv, TypeOK, Record, Goto, Tell, answer, Forget, KeyTaken, RunsReservedId
<1>1. ASSUME NEW c \in Call, Create(c) PROVE KeyTaken'
  BY <1>1, KeyStays DEF Create
<1>2. ASSUME NEW c \in Call, Collide(c) PROVE KeyTaken'
  BY <1>2, KeyStays DEF Collide
<1>3. ASSUME NEW c \in Call, ReadRecord(c) PROVE KeyTaken'
  BY <1>3, KeyStays DEF ReadRecord
<1>4. ASSUME NEW c \in Call, Replay(c) PROVE KeyTaken'
  BY <1>4, KeyStays DEF Replay, Replayable, SameRequest
<1>5. ASSUME NEW c \in Call, Refuse(c) PROVE KeyTaken'
  BY <1>5, KeyStays DEF Refuse, Unanswered, SameRequest
<1>6. ASSUME NEW c \in Call, ReplaySettled(c) PROVE KeyTaken'
  BY <1>6, KeyStays DEF ReplaySettled, Unanswered, SameRequest, Payment
<1>7. ASSUME NEW c \in Call, StoreReplay(c) PROVE KeyTaken'
  BY <1>7, KeyStays DEF StoreReplay
<1>8. ASSUME NEW c \in Call, Abandoned(c) PROVE KeyTaken'
  BY <1>8, KeyStays DEF Abandoned, Unanswered, SameRequest, Payment
<1>9. ASSUME NEW c \in Call, StillProcessing(c) PROVE KeyTaken'
  BY <1>9, KeyStays DEF StillProcessing, Unanswered, SameRequest
<1>10. ASSUME NEW c \in Call, Claim(c) PROVE KeyTaken'
  BY <1>10, KeyStays DEF Claim, ReservedId
<1>11. ASSUME NEW c \in Call, Reserve(c) PROVE KeyTaken'
  BY <1>11, KeyStays DEF Reserve
<1>12. ASSUME NEW c \in Call, Pay(c) PROVE KeyTaken'
  BY <1>12, KeyStays DEF Pay
<1>13. ASSUME NEW c \in Call, RecordResponse(c) PROVE KeyTaken'
  BY <1>13, KeyStays DEF RecordResponse
<1>14. ASSUME NEW c \in Call, RecordFailure(c) PROVE KeyTaken'
  BY <1>14, KeyStays DEF RecordFailure, FailedState
<1>15. ASSUME NEW c \in Call, Deadline(c) PROVE KeyTaken'
  BY <1>15, KeyStays DEF Deadline
<1>16. ASSUME NEW c \in Call, Crash(c) PROVE KeyTaken'
  BY <1>16, KeyStays DEF Crash
<1>17. ASSUME NEW c \in Call, Settle(c) PROVE KeyTaken'
  BY <1>17, KeyStays DEF Settle, Moves
<1>18. CASE LeaseEnds
  BY <1>18, KeyStays DEF LeaseEnds
<1>19. CASE UNCHANGED vars
  BY <1>19, KeyStays DEF vars, answer
<1>20. QED
  BY <1>1, <1>2, <1>3, <1>4, <1>5, <1>6, <1>7, <1>8, <1>9, <1>10, <1>11,
     <1>12, <1>13, <1>14, <1>15, <1>16, <1>17, <1>18, <1>19 DEF Next,
     Execute

\* A takeover runs under the reserved id, like the owner.
LEMMA RunsReservedIdNext ==
  ASSUME IInv, [Next]_vars
  PROVE  RunsReservedId'
<1> USE DEF IInv, TypeOK, Record, Goto, Tell, answer, Forget, KeyTaken, RunsReservedId
<1>1. ASSUME NEW c \in Call, Create(c) PROVE RunsReservedId'
  BY <1>1, KeyStays DEF Create
<1>2. ASSUME NEW c \in Call, Collide(c) PROVE RunsReservedId'
  BY <1>2, KeyStays DEF Collide
<1>3. ASSUME NEW c \in Call, ReadRecord(c) PROVE RunsReservedId'
  BY <1>3, KeyStays DEF ReadRecord
<1>4. ASSUME NEW c \in Call, Replay(c) PROVE RunsReservedId'
  BY <1>4, KeyStays DEF Replay, Replayable, SameRequest
<1>5. ASSUME NEW c \in Call, Refuse(c) PROVE RunsReservedId'
  BY <1>5, KeyStays DEF Refuse, Unanswered, SameRequest
<1>6. ASSUME NEW c \in Call, ReplaySettled(c) PROVE RunsReservedId'
  BY <1>6, KeyStays DEF ReplaySettled, Unanswered, SameRequest, Payment
<1>7. ASSUME NEW c \in Call, StoreReplay(c) PROVE RunsReservedId'
  BY <1>7, KeyStays DEF StoreReplay
<1>8. ASSUME NEW c \in Call, Abandoned(c) PROVE RunsReservedId'
  BY <1>8, KeyStays DEF Abandoned, Unanswered, SameRequest, Payment
<1>9. ASSUME NEW c \in Call, StillProcessing(c) PROVE RunsReservedId'
  BY <1>9, KeyStays DEF StillProcessing, Unanswered, SameRequest
<1>10. ASSUME NEW c \in Call, Claim(c) PROVE RunsReservedId'
  BY <1>10, KeyStays DEF Claim, ReservedId
<1>11. ASSUME NEW c \in Call, Reserve(c) PROVE RunsReservedId'
  BY <1>11, KeyStays DEF Reserve
<1>12. ASSUME NEW c \in Call, Pay(c) PROVE RunsReservedId'
  BY <1>12, KeyStays DEF Pay
<1>13. ASSUME NEW c \in Call, RecordResponse(c) PROVE RunsReservedId'
  BY <1>13, KeyStays DEF RecordResponse
<1>14. ASSUME NEW c \in Call, RecordFailure(c) PROVE RunsReservedId'
  BY <1>14, KeyStays DEF RecordFailure, FailedState
<1>15. ASSUME NEW c \in Call, Deadline(c) PROVE RunsReservedId'
  BY <1>15, KeyStays DEF Deadline
<1>16. ASSUME NEW c \in Call, Crash(c) PROVE RunsReservedId'
  BY <1>16, KeyStays DEF Crash
<1>17. ASSUME NEW c \in Call, Settle(c) PROVE RunsReservedId'
  BY <1>17, KeyStays DEF Settle, Moves
<1>18. CASE LeaseEnds
  BY <1>18, KeyStays DEF LeaseEnds
<1>19. CASE UNCHANGED vars
  BY <1>19, KeyStays DEF vars, answer
<1>20. QED
  BY <1>1, <1>2, <1>3, <1>4, <1>5, <1>6, <1>7, <1>8, <1>9, <1>10, <1>11,
     <1>12, <1>13, <1>14, <1>15, <1>16, <1>17, <1>18, <1>19 DEF Next,
     Execute

\* The row can be created by one call only.
LEMMA OnePayerNext ==
  ASSUME IInv, [Next]_vars
  PROVE  OnePayer'
<1> USE DEF IInv, TypeOK, Record, Goto, Tell, answer, Forget, KeyTaken, OnePayer, Pays, Reserved, RunsReservedId
<1>1. ASSUME NEW c \in Call, Create(c) PROVE OnePayer'
  BY <1>1, KeyStays DEF Create
<1>2. ASSUME NEW c \in Call, Collide(c) PROVE OnePayer'
  BY <1>2, KeyStays DEF Collide
<1>3. ASSUME NEW c \in Call, ReadRecord(c) PROVE OnePayer'
  BY <1>3, KeyStays DEF ReadRecord
<1>4. ASSUME NEW c \in Call, Replay(c) PROVE OnePayer'
  BY <1>4, KeyStays DEF Replay, Replayable, SameRequest
<1>5. ASSUME NEW c \in Call, Refuse(c) PROVE OnePayer'
  BY <1>5, KeyStays DEF Refuse, Unanswered, SameRequest
<1>6. ASSUME NEW c \in Call, ReplaySettled(c) PROVE OnePayer'
  BY <1>6, KeyStays DEF ReplaySettled, Unanswered, SameRequest, Payment
<1>7. ASSUME NEW c \in Call, StoreReplay(c) PROVE OnePayer'
  BY <1>7, KeyStays DEF StoreReplay
<1>8. ASSUME NEW c \in Call, Abandoned(c) PROVE OnePayer'
  BY <1>8, KeyStays DEF Abandoned, Unanswered, SameRequest, Payment
<1>9. ASSUME NEW c \in Call, StillProcessing(c) PROVE OnePayer'
  BY <1>9, KeyStays DEF StillProcessing, Unanswered, SameRequest
<1>10. ASSUME NEW c \in Call, Claim(c) PROVE OnePayer'
  BY <1>10, KeyStays DEF Claim, ReservedId
<1>11. ASSUME NEW c \in Call, Reserve(c) PROVE OnePayer'
  <2>1. CASE row' = row
    BY <1>11, <2>1, KeyStays DEF Reserve
  <2>2. CASE row[id[c]] = "absent" /\ row' = [row EXCEPT ![id[c]] = "open"]
    <3>1. record.reserved \in Call /\ id[c] = record.reserved
      BY <1>11 DEF Reserve
    <3>2. \A d \in Call : ~Pays(d)
      BY <2>2, <3>1
    <3>3. Reserved'
      BY <1>11, <2>2, <3>1, NoneIsNoCall DEF Reserve
    <3>4. \A d \in Call : Pays(d)' => d = c
      BY <1>11, <3>2 DEF Reserve
    <3>5. QED
      BY <3>3, <3>4
  <2>3. QED
    BY <1>11, <2>1, <2>2 DEF Reserve
<1>12. ASSUME NEW c \in Call, Pay(c) PROVE OnePayer'
  BY <1>12, KeyStays DEF Pay
<1>13. ASSUME NEW c \in Call, RecordResponse(c) PROVE OnePayer'
  BY <1>13, KeyStays DEF RecordResponse
<1>14. ASSUME NEW c \in Call, RecordFailure(c) PROVE OnePayer'
  BY <1>14, KeyStays DEF RecordFailure, FailedState
<1>15. ASSUME NEW c \in Call, Deadline(c) PROVE OnePayer'
  BY <1>15, KeyStays DEF Deadline
<1>16. ASSUME NEW c \in Call, Crash(c) PROVE OnePayer'
  BY <1>16, KeyStays DEF Crash
<1>17. ASSUME NEW c \in Call, Settle(c) PROVE OnePayer'
  BY <1>17, KeyStays DEF Settle, Moves
<1>18. CASE LeaseEnds
  BY <1>18, KeyStays DEF LeaseEnds
<1>19. CASE UNCHANGED vars
  BY <1>19, KeyStays DEF vars, answer
<1>20. QED
  BY <1>1, <1>2, <1>3, <1>4, <1>5, <1>6, <1>7, <1>8, <1>9, <1>10, <1>11,
     <1>12, <1>13, <1>14, <1>15, <1>16, <1>17, <1>18, <1>19 DEF Next,
     Execute

\* A stored or told success follows the reservation.
LEMMA SuccessIsReservedNext ==
  ASSUME IInv, [Next]_vars
  PROVE  SuccessIsReserved'
<1> USE DEF IInv, TypeOK, Record, Goto, Tell, answer, Forget, KeyTaken, SuccessIsReserved, Reserved, OnePayer, Pays, Unseen,
  RunsReservedId
<1>1. ASSUME NEW c \in Call, Create(c) PROVE SuccessIsReserved'
  BY <1>1, KeyStays, NoneIsNoCall DEF Create
<1>2. ASSUME NEW c \in Call, Collide(c) PROVE SuccessIsReserved'
  BY <1>2, KeyStays, NoneIsNoCall DEF Collide
<1>3. ASSUME NEW c \in Call, ReadRecord(c) PROVE SuccessIsReserved'
  BY <1>3, KeyStays, NoneIsNoCall DEF ReadRecord
<1>4. ASSUME NEW c \in Call, Replay(c) PROVE SuccessIsReserved'
  BY <1>4, KeyStays, NoneIsNoCall DEF Replay, Replayable, SameRequest
<1>5. ASSUME NEW c \in Call, Refuse(c) PROVE SuccessIsReserved'
  BY <1>5, KeyStays, NoneIsNoCall DEF Refuse, Unanswered, SameRequest
<1>6. ASSUME NEW c \in Call, ReplaySettled(c) PROVE SuccessIsReserved'
  <2>1. Reserved
    BY <1>6, NoneIsNoCall DEF ReplaySettled, Unanswered, Payment
  <2>2. QED
    BY <1>6, <2>1, KeyStays DEF ReplaySettled
<1>7. ASSUME NEW c \in Call, StoreReplay(c) PROVE SuccessIsReserved'
  BY <1>7, KeyStays, NoneIsNoCall DEF StoreReplay
<1>8. ASSUME NEW c \in Call, Abandoned(c) PROVE SuccessIsReserved'
  BY <1>8, KeyStays, NoneIsNoCall DEF Abandoned, Unanswered, SameRequest, Payment
<1>9. ASSUME NEW c \in Call, StillProcessing(c) PROVE SuccessIsReserved'
  BY <1>9, KeyStays, NoneIsNoCall DEF StillProcessing, Unanswered, SameRequest
<1>10. ASSUME NEW c \in Call, Claim(c) PROVE SuccessIsReserved'
  <2>1. record'.state = record.state /\ record'.response = record.response
    BY <1>10 DEF Claim
  <2>2. QED
    BY <1>10, <2>1, KeyStays, NoneIsNoCall DEF Claim
<1>11. ASSUME NEW c \in Call, Reserve(c) PROVE SuccessIsReserved'
  BY <1>11, KeyStays, NoneIsNoCall DEF Reserve
<1>12. ASSUME NEW c \in Call, Pay(c) PROVE SuccessIsReserved'
  BY <1>12, KeyStays, NoneIsNoCall DEF Pay
<1>13. ASSUME NEW c \in Call, RecordResponse(c) PROVE SuccessIsReserved'
  <2>1. id[c] = record.reserved /\ Reserved
    BY <1>13 DEF RecordResponse
  <2>2. record'.reserved = record.reserved /\ Reserved'
    BY <1>13, <2>1 DEF RecordResponse
  <2>3. CASE /\ record' = [record EXCEPT !.state = "completed", !.response = id[c]]
             /\ Tell(c, "response", id[c])
    <3>1. record'.response = record.reserved /\ record'.state = "completed"
      BY <2>1, <2>3
    <3>2. \A d \in Call : told'[d] = "response" => receipt'[d] = record'.reserved
      BY <2>1, <2>2, <2>3
    <3>3. QED
      BY <1>13, <2>2, <3>1, <3>2 DEF RecordResponse
  <2>4. CASE UNCHANGED <<record, answer>>
    BY <1>13, <2>4 DEF RecordResponse
  <2>5. QED
    BY <1>13, <2>3, <2>4 DEF RecordResponse
<1>14. ASSUME NEW c \in Call, RecordFailure(c) PROVE SuccessIsReserved'
  <2>1. /\ told' = [told EXCEPT ![c] = "refused"]
        /\ receipt' = [receipt EXCEPT ![c] = None]
        /\ pc' = [pc EXCEPT ![c] = "done"]
        /\ row' = row /\ seen' = seen
    BY <1>14 DEF RecordFailure
  <2>2. CASE record' = [record EXCEPT !.state = FailedState, !.response = None]
    <3>1. record'.reserved = record.reserved /\ record'.state = "failed"
      BY <2>2 DEF FailedState
    <3>2. QED
      BY <2>1, <3>1, KeyStays, NoneIsNoCall
  <2>3. CASE UNCHANGED record
    BY <2>1, <2>3, KeyStays, NoneIsNoCall
  <2>4. QED
    BY <1>14, <2>2, <2>3 DEF RecordFailure
<1>15. ASSUME NEW c \in Call, Deadline(c) PROVE SuccessIsReserved'
  BY <1>15, KeyStays, NoneIsNoCall DEF Deadline
<1>16. ASSUME NEW c \in Call, Crash(c) PROVE SuccessIsReserved'
  BY <1>16, KeyStays, NoneIsNoCall DEF Crash
<1>17. ASSUME NEW c \in Call, Settle(c) PROVE SuccessIsReserved'
  BY <1>17, KeyStays, NoneIsNoCall DEF Settle, Moves
<1>18. CASE LeaseEnds
  BY <1>18, KeyStays, NoneIsNoCall DEF LeaseEnds
<1>19. CASE UNCHANGED vars
  BY <1>19, KeyStays, NoneIsNoCall DEF vars, answer
<1>20. QED
  BY <1>1, <1>2, <1>3, <1>4, <1>5, <1>6, <1>7, <1>8, <1>9, <1>10, <1>11,
     <1>12, <1>13, <1>14, <1>15, <1>16, <1>17, <1>18, <1>19 DEF Next,
     Execute

\* Only calls with the key's fingerprint go on.
LEMMA SameRequestsNext ==
  ASSUME IInv, [Next]_vars
  PROVE  SameRequests'
<1> USE DEF IInv, TypeOK, Record, Goto, Tell, answer, Forget, KeyTaken, SameRequests
<1>1. ASSUME NEW c \in Call, Create(c) PROVE SameRequests'
  BY <1>1, KeyStays DEF Create
<1>2. ASSUME NEW c \in Call, Collide(c) PROVE SameRequests'
  BY <1>2, KeyStays DEF Collide
<1>3. ASSUME NEW c \in Call, ReadRecord(c) PROVE SameRequests'
  BY <1>3, KeyStays DEF ReadRecord
<1>4. ASSUME NEW c \in Call, Replay(c) PROVE SameRequests'
  BY <1>4, KeyStays DEF Replay, Replayable, SameRequest
<1>5. ASSUME NEW c \in Call, Refuse(c) PROVE SameRequests'
  BY <1>5, KeyStays DEF Refuse, Unanswered, SameRequest
<1>6. ASSUME NEW c \in Call, ReplaySettled(c) PROVE SameRequests'
  BY <1>6, KeyStays DEF ReplaySettled, Unanswered, SameRequest, Payment
<1>7. ASSUME NEW c \in Call, StoreReplay(c) PROVE SameRequests'
  BY <1>7, KeyStays DEF StoreReplay
<1>8. ASSUME NEW c \in Call, Abandoned(c) PROVE SameRequests'
  BY <1>8, KeyStays DEF Abandoned, Unanswered, SameRequest, Payment
<1>9. ASSUME NEW c \in Call, StillProcessing(c) PROVE SameRequests'
  BY <1>9, KeyStays DEF StillProcessing, Unanswered, SameRequest
<1>10. ASSUME NEW c \in Call, Claim(c) PROVE SameRequests'
  BY <1>10, KeyStays DEF Claim, ReservedId
<1>11. ASSUME NEW c \in Call, Reserve(c) PROVE SameRequests'
  BY <1>11, KeyStays DEF Reserve
<1>12. ASSUME NEW c \in Call, Pay(c) PROVE SameRequests'
  BY <1>12, KeyStays DEF Pay
<1>13. ASSUME NEW c \in Call, RecordResponse(c) PROVE SameRequests'
  BY <1>13, KeyStays DEF RecordResponse
<1>14. ASSUME NEW c \in Call, RecordFailure(c) PROVE SameRequests'
  BY <1>14, KeyStays DEF RecordFailure, FailedState
<1>15. ASSUME NEW c \in Call, Deadline(c) PROVE SameRequests'
  BY <1>15, KeyStays DEF Deadline
<1>16. ASSUME NEW c \in Call, Crash(c) PROVE SameRequests'
  BY <1>16, KeyStays DEF Crash
<1>17. ASSUME NEW c \in Call, Settle(c) PROVE SameRequests'
  BY <1>17, KeyStays DEF Settle, Moves
<1>18. CASE LeaseEnds
  BY <1>18, KeyStays DEF LeaseEnds
<1>19. CASE UNCHANGED vars
  BY <1>19, KeyStays DEF vars, answer
<1>20. QED
  BY <1>1, <1>2, <1>3, <1>4, <1>5, <1>6, <1>7, <1>8, <1>9, <1>10, <1>11,
     <1>12, <1>13, <1>14, <1>15, <1>16, <1>17, <1>18, <1>19 DEF Next,
     Execute

LEMMA IInvNext == IInv /\ [Next]_vars => IInv'
<1> SUFFICES ASSUME IInv, [Next]_vars PROVE IInv'
  OBVIOUS
<1>1. TypeOK'
  BY TypeNext DEF IInv
<1>2. QED
  BY <1>1, KeyTakenNext, RunsReservedIdNext, OnePayerNext, SuccessIsReservedNext,
     SameRequestsNext DEF IInv

\* The invariant above holds in every state.
THEOREM Invariance == Spec => []IInv
  BY IInvInit, IInvNext, PTL DEF Spec

-----------------------------------------------------------------------------
(* The properties *)

\* The variables keep their types.
THEOREM TypeCorrect == Spec => []TypeOK
<1>1. IInv => TypeOK
  BY DEF IInv
<1>2. QED
  BY <1>1, Invariance, PTL

\* One key, one submission: however many calls carry it, leases end, owners
\* stop and rows are moved.
THEOREM OneSubmission == Spec => []OneSubmissionPerKey
<1>1. ASSUME IInv PROVE OneSubmissionPerKey
  <2>1. CASE submitted = {}
    BY <2>1, FS_EmptySet DEF OneSubmissionPerKey
  <2>2. CASE submitted # {}
    <3>1. PICK c \in Call : c \in submitted
      BY <1>1, <2>2 DEF IInv, TypeOK
    <3>2. submitted = {c}
      BY <1>1, <3>1 DEF IInv, TypeOK, OnePayer, Pays
    <3>3. QED
      BY <3>2, FS_Singleton DEF OneSubmissionPerKey
  <2>3. QED
    BY <2>1, <2>2
<1>2. QED
  BY <1>1, Invariance, PTL

\* A request other than the key's own neither pays nor gets a response.
THEOREM OtherRequests == Spec => []OtherRequestsAreRefused
<1>1. IInv => OtherRequestsAreRefused
  BY DEF IInv, TypeOK, SameRequests, OtherRequestsAreRefused
<1>2. QED
  BY <1>1, Invariance, PTL

\* Who is told of a payment is told of the reserved one: the transaction id in
\* its response, fresh, stored or replayed, is the key's.
THEOREM ToldOfReserved == Spec => []ToldOfReservedPayment
<1>1. IInv => ToldOfReservedPayment
  BY DEF IInv, SuccessIsReserved, Reserved, ToldOfReservedPayment
<1>2. QED
  BY <1>1, Invariance, PTL
=============================================================================
