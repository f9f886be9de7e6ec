------------------------------ MODULE Deposits ------------------------------
(***************************************************************************)
(* The deposit poller (jobs/deposits.jobs.js) at one wallet.  A sweep      *)
(* reads the wallet's cursor, drains Horizon's pages behind it, writes the *)
(* cursor and a DepositOutboxRecord for every inbound payment, and tells   *)
(* the owner; then it retries the records that are still pending.  Nothing *)
(* keeps two sweeps apart, of one process or of several.  The owner is     *)
(* told by sendTextMessage, whose row for a "deposit_received" is found by *)
(* the wallet (services/notificationOutbox.service.js).                    *)
(***************************************************************************)
EXTENDS Naturals, Sequences, FiniteSetsExt

CONSTANTS
  Poller,      \* sweeps that may run at once
  PageSize,    \* records in a page of Horizon
  MaxAttempts, \* attempts before a record is dead-lettered
  Scene,       \* payments of a wallet and, as bounds, what may go wrong
  None         \* no cursor, no payment

\* payments: what Horizon will list; history: how many it lists at the start;
\* faults: crashes and failed calls; failures: messages Meta does not accept;
\* replays: by an operator.
Kind == {"deposit", "unverified", "other"}
ASSUME Scenes ==
  /\ Scene \subseteq [payments : Seq(Kind), history : Nat, faults : Nat, failures : Nat, replays : Nat]
  /\ \A s \in Scene : s.history <= Len(s.payments)
ASSUME Bounds == PageSize \in Nat \ {0} /\ MaxAttempts \in Nat \ {0}
ASSUME Names == None \notin Nat

VARIABLES
  scene,
  listed,   \* how many payments Horizon lists by now
  cursor,   \* wallet.paymentCursor
  record,   \* DepositOutboxRecord rows by payment: status and attempts
  alerted,  \* the wallet's Notification row was claimed for a send
  pc,       \* where each sweep is
  behind,   \* the cursor it works from
  last,     \* the last payment of its page
  at,       \* the payment in hand
  due,      \* pending records it loaded, and the attempts they had
  faults, failures, replays, \* how often each happened so far
  base,     \* the newest payment a first poll took for history
  told      \* how often the owner was told of each payment

sweep == <<pc, behind, last, at, due>>
bounds == <<faults, failures, replays>>
vars == <<scene, listed, cursor, record, alerted, sweep, bounds, base, told>>

Payment == DOMAIN scene.payments
Inbound(k) == scene.payments[k] # "other"
NoRecord == [status |-> "none", tries |-> 0]

Init ==
  /\ scene \in Scene
  /\ listed = scene.history
  /\ cursor = None
  /\ record = [k \in Payment |-> NoRecord]
  /\ alerted = FALSE
  /\ pc = [p \in Poller |-> "idle"]
  /\ behind = [p \in Poller |-> None]
  /\ last = [p \in Poller |-> None]
  /\ at = [p \in Poller |-> None]
  /\ due = [p \in Poller |-> {}]
  /\ faults = 0 /\ failures = 0 /\ replays = 0
  /\ base = 0
  /\ told = [k \in Payment |-> 0]

Fault == faults < scene.faults /\ faults' = faults + 1
Goto(p, next) == pc' = [pc EXCEPT ![p] = next]
Walks(p, from, to) == pc[p] = from /\ Goto(p, to)
Keep(f, p, value) == f' = [f EXCEPT ![p] = value]
-----------------------------------------------------------------------------
(* The poll of the wallet *)

\* A payment is made and Horizon lists it.
ListPayment ==
  /\ listed < Len(scene.payments)
  /\ listed' = listed + 1
  /\ UNCHANGED <<scene, cursor, record, alerted, sweep, bounds, base, told>>

\* The sweep loads the wallets, and with them the cursor.
StartSweep(p) ==
  /\ Walks(p, "idle", IF cursor = None THEN "latest" ELSE "fetch")
  /\ Keep(behind, p, cursor)
  /\ UNCHANGED <<scene, listed, cursor, record, alerted, last, at, due, bounds, base, told>>

PageEnd(from) == Min({from + PageSize, listed})

\* A first poll asks for the newest payment, or if that fails for a page of the
\* oldest ones; without an answer, or without payments, there is no cursor.
FetchLatest(p) ==
  /\ pc[p] = "latest"
  /\ \/ UNCHANGED faults /\ Keep(last, p, listed)
     \/ Fault /\ \E end \in {PageEnd(0), 0} : Keep(last, p, end)
  /\ Goto(p, IF last'[p] = 0 THEN "load" ELSE "init")
  /\ UNCHANGED <<scene, listed, cursor, record, alerted, behind, at, due, failures, replays, base, told>>

InitCursor(p) ==
  /\ Walks(p, "init", "load")
  /\ cursor' = last[p]
  /\ base' = Max({base, last[p]})
  /\ UNCHANGED <<scene, listed, record, alerted, behind, last, at, due, bounds, told>>

\* The inbound payments of a page after the one in hand, in order.
Rest(p, k) == {j \in (k + 1)..last'[p] : Inbound(j)}
NextOf(p, k) ==
  IF Rest(p, k) = {} THEN Goto(p, "advance") /\ Keep(at, p, None)
                     ELSE Goto(p, "write") /\ Keep(at, p, Min(Rest(p, k)))

\* A page from the cursor the sweep works from.
FetchPage(p) ==
  /\ pc[p] = "fetch"
  /\ Keep(last, p, PageEnd(behind[p]))
  /\ IF last'[p] = behind[p] THEN Goto(p, "load") /\ UNCHANGED at ELSE NextOf(p, behind[p])
  /\ UNCHANGED <<scene, listed, cursor, record, alerted, behind, due, bounds, base, told>>

\* Mutation: the cursor is written before the record, not with it.
CursorAhead(p) == cursor' = last[p] /\ UNCHANGED record
CursorWithRecord(p) ==
  /\ cursor' = at[p]
  /\ record' = IF record[at[p]] = NoRecord
               THEN [record EXCEPT ![at[p]].status = "pending"] ELSE record

\* One transaction writes the cursor and, unless there is one, the record.
WriteRecord(p) ==
  /\ Walks(p, "write", "check")
  /\ CursorWithRecord(p)
  /\ UNCHANGED <<scene, listed, alerted, behind, last, at, due, bounds, base, told>>

\* On to the next payment of the page: the variables at and pc.
Onwards(p) == UNCHANGED last /\ NextOf(p, at[p])

\* What was delivered already is not told again; a lookup that fails is no answer.
CheckDelivered(p) ==
  /\ pc[p] = "check"
  /\ IF record[at[p]].status = "delivered" THEN Onwards(p) ELSE Goto(p, "notify") /\ UNCHANGED <<last, at>>
  /\ UNCHANGED <<scene, listed, cursor, record, alerted, behind, due, bounds, base, told>>

CheckFails(p) ==
  /\ Walks(p, "check", "notify") /\ Fault
  /\ UNCHANGED <<scene, listed, cursor, record, alerted, behind, last, at, due, failures, replays, base, told>>

\* Mutation: the row of the notification is not looked for.
OpenAlways == TRUE
Open == ~alerted

Tell(k) == told' = [told EXCEPT ![k] = @ + 1]

\* sendTextMessage.  With a row to claim Meta is called once; without, nothing is
\* sent and nothing said of it.  A message Meta refuses or does not answer for is
\* returned as such; it throws when Meta stays busy or the row cannot be written.
Notify(p, k, durable, done, threw) ==
  \/ durable /\ ~Open /\ Goto(p, done) /\ UNCHANGED <<alerted, told, failures, faults>>
  \/ /\ durable => Open
     /\ alerted' = (alerted \/ durable)
     /\ \/ Tell(k) /\ Goto(p, done) /\ UNCHANGED <<failures, faults>>
        \/ /\ failures < scene.failures /\ failures' = failures + 1
           /\ Tell(k) \/ UNCHANGED told
           /\ Goto(p, done) \/ Goto(p, threw)
           /\ UNCHANGED faults
  \/ durable /\ Fault /\ Goto(p, threw) /\ UNCHANGED <<alerted, told, failures>>

\* An asset of an unknown issuer is told of under a type that needs no row.
NotifyOwner(p) ==
  /\ pc[p] = "notify"
  /\ Notify(p, at[p], scene.payments[at[p]] = "deposit", "deliver", "defer")
  /\ UNCHANGED <<scene, listed, cursor, record, behind, last, at, due, replays, base>>

MarkDelivered(p) ==
  /\ pc[p] = "deliver"
  /\ record' = [record EXCEPT ![at[p]].status = "delivered"]
  /\ Onwards(p)
  /\ UNCHANGED <<scene, listed, cursor, alerted, behind, due, bounds, base, told>>

DeferDelivery(p) ==
  /\ pc[p] = "defer"
  /\ record' = IF record[at[p]].status = "pending" THEN [record EXCEPT ![at[p]].tries = @ + 1] ELSE record
  /\ Onwards(p)
  /\ UNCHANGED <<scene, listed, cursor, alerted, behind, due, bounds, base, told>>

\* The cursor moves to the end of the page; a full page is followed by the next.
AdvanceCursor(p) ==
  /\ Walks(p, "advance", IF last[p] - behind[p] < PageSize THEN "load" ELSE "fetch")
  /\ cursor' = last[p]
  /\ Keep(behind, p, last[p])
  /\ UNCHANGED <<scene, listed, record, alerted, last, at, due, bounds, base, told>>
-----------------------------------------------------------------------------
(* processDepositOutbox *)

\* Mutation: records that failed before are not loaded.
RetriableUntried(r) == r.status = "pending" /\ r.tries = 0
\* Mutation: one attempt too many.
RetriableOffByOne(r) == r.status = "pending" /\ r.tries <= MaxAttempts
Retriable(r) == r.status = "pending" /\ r.tries < MaxAttempts

\* The records still pending, with the attempts they have now.
LoadPending(p) ==
  /\ Walks(p, "load", "retry")
  /\ Keep(due, p, {[k |-> k, tries |-> record[k].tries] : k \in {j \in Payment : Retriable(record[j])}})
  /\ UNCHANGED <<scene, listed, cursor, record, alerted, behind, last, at, bounds, base, told>>

\* Each is told of as a deposit, whatever its asset.
RetryNotify(p, d) ==
  /\ pc[p] = "retry" /\ d \in due[p]
  /\ Keep(at, p, d.k)
  /\ Notify(p, d.k, TRUE, "settle", "fail")
  /\ UNCHANGED <<scene, listed, cursor, record, behind, last, due, replays, base>>

Exhausted(attempts) == attempts >= MaxAttempts

\* The result is written over whatever the record says by now.
WriteResult(p, d) ==
  /\ pc[p] \in {"settle", "fail"} /\ d \in due[p] /\ d.k = at[p]
  /\ record' = [record EXCEPT ![d.k] =
       [status |-> CASE pc[p] = "settle"                            -> "delivered"
                     [] pc[p] = "fail" /\ Exhausted(d.tries + 1)    -> "dead_letter"
                     [] pc[p] = "fail" /\ ~Exhausted(d.tries + 1)   -> "pending",
        tries |-> d.tries + 1]]
  /\ Keep(due, p, due[p] \ {d}) /\ Keep(at, p, None) /\ Goto(p, "retry")
  /\ UNCHANGED <<scene, listed, cursor, alerted, behind, last, bounds, base, told>>

FinishSweep(p) ==
  /\ due[p] = {} /\ Walks(p, "retry", "idle")
  /\ UNCHANGED <<scene, listed, cursor, record, alerted, behind, last, at, due, bounds, base, told>>

\* The write of a delivery fails: it is taken for a failed delivery.
ResultUnwritten(p) ==
  /\ Fault
  /\ Walks(p, "deliver", "defer") \/ Walks(p, "settle", "fail")
  /\ UNCHANGED <<scene, listed, cursor, record, alerted, behind, last, at, due, failures, replays, base, told>>

\* A call to Horizon or the database fails: the poll ends, the retries begin.
PollFails(p) ==
  /\ pc[p] \in {"fetch", "init", "write", "defer", "advance"} /\ Fault
  /\ Goto(p, "load") /\ Keep(at, p, None)
  /\ UNCHANGED <<scene, listed, cursor, record, alerted, behind, last, due, failures, replays, base, told>>

\* The process stops, or the retries fail: the sweep is over.
SweepStops(p) ==
  /\ pc[p] # "idle" /\ Fault
  /\ Goto(p, "idle") /\ Keep(at, p, None) /\ Keep(due, p, {})
  /\ UNCHANGED <<scene, listed, cursor, record, alerted, behind, last, failures, replays, base, told>>

\* It stops when the row was claimed and Meta may have been called.
StopsWhileTelling(p) ==
  \E k \in IF pc[p] = "notify" /\ scene.payments[at[p]] = "deposit" THEN {at[p]}
           ELSE IF pc[p] = "retry" THEN {d.k : d \in due[p]} ELSE {} :
    /\ Open /\ Fault
    /\ alerted' = TRUE
    /\ Tell(k) \/ UNCHANGED told
    /\ Goto(p, "idle") /\ Keep(at, p, None) /\ Keep(due, p, {})
    /\ UNCHANGED <<scene, listed, cursor, record, behind, last, failures, replays, base>>

\* An operator sets a record back to pending, in whatever status it is.
ReplayRecord(k) ==
  /\ replays < scene.replays /\ replays' = replays + 1
  /\ record[k] # NoRecord
  /\ record' = [record EXCEPT ![k] = [status |-> "pending", tries |-> 0]]
  /\ UNCHANGED <<scene, listed, cursor, alerted, sweep, faults, failures, base, told>>

SweepStep(p) ==
  \/ StartSweep(p) \/ FetchLatest(p) \/ InitCursor(p) \/ FetchPage(p) \/ WriteRecord(p)
  \/ CheckDelivered(p) \/ NotifyOwner(p) \/ MarkDelivered(p) \/ DeferDelivery(p)
  \/ AdvanceCursor(p) \/ LoadPending(p) \/ FinishSweep(p)
  \/ \E d \in due[p] : RetryNotify(p, d) \/ WriteResult(p, d)

Next ==
  \/ ListPayment
  \/ \E p \in Poller :
       \/ SweepStep(p) \/ CheckFails(p) \/ ResultUnwritten(p)
       \/ PollFails(p) \/ SweepStops(p) \/ StopsWhileTelling(p)
  \/ \E k \in Payment : ReplayRecord(k)

Spec == Init /\ [][Next]_vars

\* A timer starts sweep after sweep, and each runs to its end.
Fairness == \A p \in Poller : WF_vars(SweepStep(p))
FairSpec == Spec /\ Fairness
-----------------------------------------------------------------------------
(* Properties *)

Token == Nat \cup {None}

\* Every variable is what its declaration says, and the bounds hold.
TypeOK ==
  /\ scene \in Scene
  /\ listed \in scene.history..Len(scene.payments)
  /\ cursor \in Token
  /\ record \in [Payment -> [status : {"none", "pending", "delivered", "dead_letter"}, tries : Nat]]
  /\ alerted \in BOOLEAN
  /\ pc \in [Poller -> {"idle", "latest", "init", "fetch", "write", "check", "notify", "deliver",
                        "defer", "advance", "load", "retry", "settle", "fail"}]
  /\ behind \in [Poller -> Token] /\ last \in [Poller -> Token] /\ at \in [Poller -> Token]
  /\ due \in [Poller -> SUBSET [k : Payment, tries : 0..(MaxAttempts - 1)]]
  /\ faults \in 0..scene.faults /\ failures \in 0..scene.failures /\ replays \in 0..scene.replays
  /\ base \in Nat /\ told \in [Payment -> Nat]

\* No inbound payment is skipped: once the cursor is past it, it has a record,
\* unless a first poll took it for history, however sweeps overlap or stop.
NoDepositSkipped ==
  cursor # None => \A k \in Payment : base < k /\ k <= cursor /\ Inbound(k) => record[k] # NoRecord

\* However sweeps overlap, stop and are replayed, the owner is told of a deposit
\* at most once.
DepositToldOnce ==
  \A k \in Payment : scene.payments[k] = "deposit" => told[k] <= 1

\* Attempts counted by a sweep that overlapped exhausted the record: the retries
\* no longer load it, and nothing dead-letters it.
Overlooked(k) == record[k].status = "pending" /\ record[k].tries >= MaxAttempts

\* Every payment Horizon lists ends as history, delivered, dead-lettered or
\* overlooked, whatever failed for a while.
Settled(k) ==
  \/ k \notin Payment \/ k > listed \/ ~Inbound(k)
  \/ k <= base \/ record[k].status \in {"delivered", "dead_letter"} \/ Overlooked(k)
EveryDepositIsSettled ==
  \A k \in UNION {DOMAIN s.payments : s \in Scene} : <>[]Settled(k)

\* Rule 1 of deposits.jobs.js: a new inbound payment leads to exactly one
\* notification: what is delivered was told.
DeliveredMeansTold ==
  \A k \in Payment :
    record[k].status = "delivered" /\ failures = 0 /\ faults = 0 => told[k] > 0
=============================================================================
