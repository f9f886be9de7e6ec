--------------------------- MODULE IdempotentSend ---------------------------
(***************************************************************************)
(* POST send with an Idempotency-Key (payment/idempotency.service.js and   *)
(* controllers/wallet.controller.js sendFunds): the calls of one user that *)
(* carry one key, their PaymentIdempotency record with its lease, and the  *)
(* payment rows they reserve.                                              *)
(***************************************************************************)
EXTENDS Naturals, FiniteSets

CONSTANTS
  Call,  \* the calls; the transaction id a call generates is named after it
  Fingerprint, \* fingerprints of the requests
  None   \* no call or transaction id, no fingerprint

ASSUME NoneIsNoCall == None \notin Call /\ None \notin Fingerprint

VARIABLES
  asks,     \* the fingerprint of each call's request
  record,   \* the key's row: [state, print, reserved, term, over, response], where
            \* response is the transaction id in a stored response
  row,      \* the payment row of each transaction id, as replayOrWait sees it
  pc,       \* where each call is
  seen,     \* what a waiting call read of the record: [state, term, response]
  id,       \* the transaction id a call runs the payment with
  patience, \* first and second replayOrWait of a call, and whether it is over
  told,     \* what a call answered
  receipt,  \* the transaction id in the response that it answered with
  submitted \* the calls whose executePayment reached the submission

answer == <<told, receipt>>
vars == <<asks, record, row, pc, seen, id, patience, answer, submitted>>

NoRecord == [state |-> "none", print |-> None, reserved |-> None, term |-> 0, over |-> FALSE,
             response |-> None]

Unseen == [state |-> "none", term |-> 0, response |-> None]
Waiting == [round |-> 1, late |-> FALSE]

Init ==
  /\ asks \in [Call -> Fingerprint]
  /\ record = NoRecord
  /\ row = [t \in Call |-> "absent"]
  /\ pc = [c \in Call |-> "idle"]
  /\ seen = [c \in Call |-> Unseen]
  /\ id = [c \in Call |-> None]
  /\ patience = [c \in Call |-> Waiting]
  /\ told = [c \in Call |-> "nothing"]
  /\ receipt = [c \in Call |-> None]
  /\ submitted = {}

Goto(c, next) == pc' = [pc EXCEPT ![c] = next]
\* The call ends, with a response about transaction t or with none.
Tell(c, what, t) ==
  /\ told' = [told EXCEPT ![c] = what]
  /\ receipt' = [receipt EXCEPT ![c] = t]
  /\ Goto(c, "done")
\* A call that waits no more has no use for what it read.
Forget(c) ==
  /\ seen' = [seen EXCEPT ![c] = Unseen]
  /\ patience' = [patience EXCEPT ![c] = Waiting]
-----------------------------------------------------------------------------
(* The key *)

\* paymentIdempotency.create: the unique key admits one record.
Create(c) ==
  /\ pc[c] = "idle"
  /\ record.state = "none"
  /\ record' = [state |-> "processing", print |-> asks[c], reserved |-> c,
                term |-> 0, over |-> FALSE, response |-> None]
  /\ id' = [id EXCEPT ![c] = c]
  /\ Goto(c, "running")
  /\ UNCHANGED <<asks, row, seen, patience, answer, submitted>>

\* P2002: another call owns the key.
Collide(c) ==
  /\ pc[c] = "idle"
  /\ record.state # "none"
  /\ Goto(c, "reading")
  /\ UNCHANGED <<asks, record, row, seen, id, patience, answer, submitted>>

\* read: the record first, then, in the action after it, its transaction.
ReadRecord(c) ==
  /\ pc[c] = "reading"
  /\ seen' = [seen EXCEPT ![c] =
       [state |-> record.state, term |-> record.term, response |-> record.response]]
  /\ Goto(c, "deciding")
  /\ UNCHANGED <<asks, record, row, id, patience, answer, submitted>>

\* The lease a call read is over: a later term began, or this one ended.
LeaseOver(c) == record.term # seen[c].term \/ record.over

\* Mutation: the wait has no deadline.
TimedOutNever(c) == FALSE

TimedOut(c) == patience[c].late

\* Mutation: the fingerprint is not compared.
SameRequestAny(c) == TRUE

SameRequest(c) == record.print = asks[c]

\* One round of replayOrWait ends in one of the next five actions.
Payment == row[record.reserved]
Unanswered(c) ==
  pc[c] = "deciding" /\ SameRequest(c) /\ seen[c].state = "processing"

Replayable(c) == seen[c].state = "completed"

Replay(c) ==
  /\ pc[c] = "deciding"
  /\ SameRequest(c)
  /\ Replayable(c)
  /\ Tell(c, "replay", seen[c].response)
  /\ Forget(c)
  /\ UNCHANGED <<asks, record, row, id, submitted>>

\* IdempotencyError 409: another request, a failed attempt, a failed payment.
Refuse(c) ==
  /\ pc[c] = "deciding"
  /\ \/ ~SameRequest(c)
     \/ seen[c].state = "failed"
     \/ Unanswered(c) /\ Payment = "failed"
  /\ Tell(c, "refused", None)
  /\ Forget(c)
  /\ UNCHANGED <<asks, record, row, id, submitted>>

ReplaySettled(c) ==
  /\ Unanswered(c)
  /\ Payment = "success"
  /\ Goto(c, "completing")
  /\ Forget(c)
  /\ UNCHANGED <<asks, record, row, id, answer, submitted>>

\* return null: the call claims the lease, or, the second time, answers with
\* the null as the replayed response.
Abandoned(c) ==
  /\ Unanswered(c)
  /\ Payment = "absent" /\ LeaseOver(c)
  /\ IF patience[c].round = 1
     THEN Goto(c, "claiming") /\ UNCHANGED answer
     ELSE Tell(c, "empty", None)
  /\ Forget(c)
  /\ UNCHANGED <<asks, record, row, id, submitted>>

\* Wait for POLL_MS, or refuse when the deadline has passed.
StillProcessing(c) ==
  /\ Unanswered(c)
  /\ Payment = "open" \/ (Payment = "absent" /\ ~LeaseOver(c))
  /\ IF TimedOut(c)
     THEN Tell(c, "refused", None) /\ Forget(c)
     ELSE Goto(c, "reading") /\ UNCHANGED <<answer, seen, patience>>
  /\ UNCHANGED <<asks, record, row, id, submitted>>

\* The replay of a payment that reconciliation settled stores its response.
StoreReplay(c) ==
  /\ pc[c] = "completing"
  /\ record' = [record EXCEPT !.state = "completed", !.response = record.reserved]
  /\ Tell(c, "replay", record.reserved)
  /\ UNCHANGED <<asks, row, seen, id, patience, submitted>>

\* Mutation: a takeover pays under its own transaction id.
ReservedIdFresh(c) == c

\* The transaction id that every run for the key uses.
ReservedId(c) == record.reserved

\* The second read and the compare-and-set of the lease.  It does not look for
\* a transaction again.
Claim(c) ==
  /\ pc[c] = "claiming"
  /\ IF record.state = "processing" /\ record.over
     THEN /\ record' = [record EXCEPT !.term = @ + 1, !.over = FALSE]
          /\ id' = [id EXCEPT ![c] = ReservedId(c)]
          /\ Goto(c, "running")
          /\ UNCHANGED patience
     ELSE /\ patience' = [patience EXCEPT ![c] = [round |-> 2, late |-> FALSE]]
          /\ Goto(c, "reading")
          /\ UNCHANGED <<record, id>>
  /\ UNCHANGED <<asks, row, seen, answer, submitted>>

-----------------------------------------------------------------------------
(* run: executePayment under the reserved id *)

\* runCore commits the row, unless the id is taken (P2002) or a check refuses.
Reserve(c) ==
  /\ pc[c] = "running"
  /\ \/ /\ row[id[c]] = "absent"
        /\ row' = [row EXCEPT ![id[c]] = "open"]
        /\ Goto(c, "paying")
     \/ Goto(c, "failing") /\ UNCHANGED row
  /\ UNCHANGED <<asks, record, seen, id, patience, answer, submitted>>

\* The submission and its bookkeeping; an error may leave the row 'failed'.
Pay(c) ==
  /\ pc[c] = "paying"
  /\ submitted' = submitted \cup {c}
  /\ \/ row[id[c]] = "open" /\ Goto(c, "recording") /\ UNCHANGED row
     \/ Goto(c, "failing") /\ (UNCHANGED row \/ row' = [row EXCEPT ![id[c]] = "failed"])
  /\ UNCHANGED <<asks, record, seen, id, patience, answer>>

\* The response is stored, or the database fails and the catch is next.
RecordResponse(c) ==
  /\ pc[c] = "recording"
  /\ \/ /\ record' = [record EXCEPT !.state = "completed", !.response = id[c]]
        /\ Tell(c, "response", id[c])
     \/ Goto(c, "failing") /\ UNCHANGED <<record, answer>>
  /\ UNCHANGED <<asks, row, seen, id, patience, submitted>>

FailedState == "failed"

\* The catch stores the failure, over whatever response another call stored
\* meanwhile; its own error is swallowed.
RecordFailure(c) ==
  /\ pc[c] = "failing"
  /\ record' = [record EXCEPT !.state = FailedState, !.response = None] \/ UNCHANGED record
  /\ Tell(c, "refused", None)
  /\ UNCHANGED <<asks, row, seen, id, patience, submitted>>

-----------------------------------------------------------------------------
(* Time, the rest of the system, and stops *)

LeaseEnds ==
  /\ record.state # "none"
  /\ ~record.over
  /\ record' = [record EXCEPT !.over = TRUE]
  /\ UNCHANGED <<asks, row, pc, seen, id, patience, answer, submitted>>

\* The WAIT_MS of a waiting call are over.
Deadline(c) ==
  /\ pc[c] \in {"reading", "deciding"}
  /\ ~patience[c].late
  /\ patience' = [patience EXCEPT ![c].late = TRUE]
  /\ UNCHANGED <<asks, record, row, pc, seen, id, answer, submitted>>

\* Sweeps and operators move a reserved row.
Moves == {<<"open", "success">>, <<"open", "failed">>, <<"failed", "open">>}
Settle(t) ==
  /\ \E move \in Moves : row[t] = move[1] /\ row' = [row EXCEPT ![t] = move[2]]
  /\ UNCHANGED <<asks, record, pc, seen, id, patience, answer, submitted>>

Crash(c) ==
  /\ pc[c] \notin {"idle", "done", "crashed"}
  /\ Goto(c, "crashed")
  /\ Forget(c)
  /\ UNCHANGED <<asks, record, row, id, answer, submitted>>

-----------------------------------------------------------------------------
Execute(c) ==
  \/ Create(c) \/ Collide(c) \/ ReadRecord(c) \/ Replay(c) \/ Refuse(c)
  \/ ReplaySettled(c) \/ StoreReplay(c) \/ Abandoned(c) \/ StillProcessing(c)
  \/ Claim(c) \/ Reserve(c) \/ Pay(c) \/ RecordResponse(c) \/ RecordFailure(c)

Next ==
  \/ \E c \in Call : Execute(c) \/ Deadline(c) \/ Crash(c) \/ Settle(c)
  \/ LeaseEnds

Spec == Init /\ [][Next]_vars

\* A call runs until it answers and clocks go on.
Fairness == \A c \in Call : WF_vars(Execute(c)) /\ WF_vars(Deadline(c))
FairSpec == Spec /\ Fairness
-----------------------------------------------------------------------------
(* Properties *)

Record == [state : {"none", "processing", "completed", "failed"},
           print : Fingerprint \cup {None}, reserved : Call \cup {None},
           term : Nat, over : BOOLEAN, response : Call \cup {None}]

\* Every variable has its type.
TypeOK ==
  /\ asks \in [Call -> Fingerprint]
  /\ record \in Record
  /\ row \in [Call -> {"absent", "open", "success", "failed"}]
  /\ pc \in [Call -> {"idle", "reading", "deciding", "completing", "claiming", "running",
                      "paying", "recording", "failing", "done", "crashed"}]
  /\ seen \in [Call -> [state : {"none", "processing", "completed", "failed"}, term : Nat,
                      response : Call \cup {None}]]
  /\ id \in [Call -> Call \cup {None}]
  /\ patience \in [Call -> [round : {1, 2}, late : BOOLEAN]]
  /\ told \in [Call -> {"nothing", "response", "replay", "empty", "refused"}]
  /\ receipt \in [Call -> Call \cup {None}]
  /\ submitted \subseteq Call

\* Whatever leases end, owners stop or rows are retried, the calls that carry
\* one key submit at most one payment to Stellar between them.
OneSubmissionPerKey == Cardinality(submitted) <= 1

\* A call that reuses the key for another request neither pays nor is answered
\* with the first request's response.
OtherRequestsAreRefused ==
  \A c \in Call : record.state # "none" /\ asks[c] # record.print =>
    c \notin submitted /\ told[c] \in {"nothing", "refused"}

\* A call that is answered with a response, its own, a stored one or that of a
\* payment reconciliation settled, hears of the payment that the key reserved and
\* of no other, whoever took the lease over meanwhile; that payment's row exists.
ToldOfReservedPayment ==
  \A c \in Call : told[c] \in {"response", "replay"} =>
    /\ record.reserved # None /\ row[record.reserved] # "absent"
    /\ receipt[c] = record.reserved

\* A call that found the key taken is answered, unless its process stops, even
\* when the owner stopped and nobody settles the payment.
WaitersAreAnswered ==
  \A c \in Call : pc[c] = "reading" ~> pc[c] \in {"done", "crashed"}
=============================================================================
