--------------------------- MODULE Notifications ---------------------------
(***************************************************************************)
(* One notification to a customer and what becomes of it.  Its senders     *)
(* reserve and claim a row before they call Meta when its type must be     *)
(* durable, and write a row after the call when it need not be             *)
(* (services/whatsapp.service.js, services/notificationOutbox.service.js). *)
(* Meta reports sent, delivered, read or failed later; the reports are     *)
(* kept in an inbox and drained by the webhook and by a background job     *)
(* (services/webhookInbox.service.js, jobs/messaging.jobs.js).             *)
(***************************************************************************)
EXTENDS Naturals, Sequences, FiniteSets

CONSTANTS
  Sender,      \* calls of sendTextMessage for the same notification
  Drain,       \* processes that drain the inbox
  MaxCalls,    \* calls to Meta one sender makes at most
  MaxAttempts, \* attempts of a report before it is dead-lettered
  Scene,       \* kinds of notification and, as bounds, what may go wrong
  Shared,      \* the row of a durable notification
  None         \* no message, no row

\* durable: the type requires a record; senders: who sends it; refusals: calls
\* Meta does not simply accept; reports: reports per message; faults: crashes
\* and failed database calls.
ASSUME Scenes ==
  Scene \subseteq [durable : BOOLEAN, senders : SUBSET Sender,
                   refusals : Nat, reports : Nat, faults : Nat]
ASSUME Bounds == MaxCalls \in Nat \ {0} /\ MaxAttempts \in Nat \ {0} /\ IsFiniteSet(Sender)
ASSUME Names == Shared \notin Sender /\ None \notin Sender \cup {Shared} \cup Nat

Row == Sender \cup {Shared}
Id == 1..(MaxCalls * Cardinality(Sender))
Status == {"sent", "delivered", "read", "failed"}
Report == Id \X Status
Empty == [status |-> "none", id |-> None, stamp |-> 0]

VARIABLES
  scene,
  row,     \* Notification rows: status, Meta's id, time of the last status
  pc,      \* where each sender is
  calls,   \* calls it made
  got,     \* the id Meta gave it
  meta,    \* Meta's messages: the last report, and the second it is
  inbox,   \* WebhookInboxEvent rows of Meta's reports
  seen,    \* WhatsappStatusEvent: reports recorded once
  dpc,     \* where each drain is
  event,   \* the report it claimed
  target,  \* the row it found for it
  snap,    \* what that row said
  refusals, \* calls not simply accepted so far
  faults,  \* crashes and failed database calls so far
  doubts   \* calls Meta accepted and answered with a failure to try again

sending == <<pc, calls, got>>
draining == <<dpc, event, target, snap>>
bounds == <<refusals, faults>>
vars == <<scene, row, sending, meta, inbox, seen, draining, bounds, doubts>>

Init ==
  /\ scene \in Scene
  /\ row = [r \in Row |-> Empty]
  /\ pc = [s \in Sender |-> IF s \in scene.senders THEN "start" ELSE "over"]
  /\ calls = [s \in Sender |-> 0]
  /\ got = [s \in Sender |-> None]
  /\ meta = <<>>
  /\ inbox = [e \in Report |-> [state |-> "none", tries |-> 0, time |-> 0]]
  /\ seen = {}
  /\ dpc = [d \in Drain |-> "idle"]
  /\ event = [d \in Drain |-> None]
  /\ target = [d \in Drain |-> None]
  /\ snap = [d \in Drain |-> Empty]
  /\ refusals = 0
  /\ faults = 0
  /\ doubts = 0

Fault == faults < scene.faults /\ faults' = faults + 1
Refusal == refusals < scene.refusals /\ refusals' = refusals + 1
RowOf(s) == IF scene.durable THEN Shared ELSE s
Goto(s, next) == pc' = [pc EXCEPT ![s] = next]
-----------------------------------------------------------------------------
(* Sending *)

\* A durable notification is written first; a row with its key is taken as it
\* is, and what was sent is not sent again.
Reserve(s) ==
  /\ pc[s] = "start" /\ scene.durable
  /\ row' = IF row[Shared].status = "none"
            THEN [row EXCEPT ![Shared].status = "queued"] ELSE row
  /\ Goto(s, IF row[Shared].status = "sent" THEN "over" ELSE "claim")
  /\ UNCHANGED <<scene, calls, got, meta, inbox, seen, draining, bounds, doubts>>

SkipReserve(s) ==
  /\ pc[s] = "start" /\ ~scene.durable
  /\ Goto(s, "call")
  /\ UNCHANGED <<scene, row, calls, got, meta, inbox, seen, draining, bounds, doubts>>

\* Mutation: a send that is not resolved may be claimed again.
ClaimableUnresolved == row[Shared].status \in {"queued", "sending"}
Claimable == row[Shared].status = "queued"

ClaimForSend(s) ==
  /\ pc[s] = "claim"
  /\ IF Claimable
     THEN row' = [row EXCEPT ![Shared].status = "sending"] /\ Goto(s, "call")
     ELSE Goto(s, "over") /\ UNCHANGED row
  /\ UNCHANGED <<scene, calls, got, meta, inbox, seen, draining, bounds, doubts>>

Accept == meta' = Append(meta, [last |-> "accepted", clock |-> 0])
Called(s) == calls' = [calls EXCEPT ![s] = @ + 1]

MetaAccepts(s) ==
  /\ pc[s] = "call"
  /\ Accept /\ Called(s)
  /\ got' = [got EXCEPT ![s] = Len(meta')]
  /\ Goto(s, "attach")
  /\ UNCHANGED <<scene, row, inbox, seen, draining, bounds, doubts>>

\* No answer in time, a broken connection or an answer without an id.
MetaDoesNotAnswer(s) ==
  /\ pc[s] = "call" /\ Refusal
  /\ Accept \/ UNCHANGED meta
  /\ Called(s) /\ Goto(s, "unknown")
  /\ UNCHANGED <<scene, row, got, inbox, seen, draining, faults, doubts>>

MetaRefuses(s) ==
  /\ pc[s] = "call" /\ Refusal
  /\ Called(s) /\ Goto(s, "refused")
  /\ UNCHANGED <<scene, row, got, meta, inbox, seen, draining, faults, doubts>>

\* Mutation: one call too many.
MayRetryOnceMore(made) == made <= MaxCalls
MayRetry(made) == made < MaxCalls

\* 429, 5xx or no connection: the call is repeated, though a 5xx may come from
\* a message that Meta did accept.  The deadline may end the wait before it.
MetaIsBusy(s) ==
  /\ pc[s] = "call" /\ Refusal
  /\ \/ Accept /\ doubts' = doubts + 1
     \/ UNCHANGED <<meta, doubts>>
  /\ Called(s)
  /\ \E next \in IF MayRetry(calls'[s]) THEN {"call", "unknown"} ELSE {"busy"} : Goto(s, next)
  /\ UNCHANGED <<scene, row, got, inbox, seen, draining, faults>>

\* Meta's id is attached whatever the row says by now, with this clock's time.
\* Meta's own times are cut off to seconds: those of this second are older.
Attach(s) ==
  /\ pc[s] = "attach"
  /\ \E now \in {meta[got[s]].clock, meta[got[s]].clock + 1} :
       /\ meta' = [meta EXCEPT ![got[s]].clock = now]
       /\ row' = [row EXCEPT ![RowOf(s)] =
                    [status |-> IF scene.durable THEN "sent" ELSE "queued",
                     id |-> got[s], stamp |-> now + 1]]
  /\ Goto(s, "over")
  /\ UNCHANGED <<scene, calls, got, inbox, seen, draining, bounds, doubts>>

\* A refusal fails the row.  An unknown outcome marks it unknown if it is still
\* being sent.  So does the last busy answer, after which the row for a retry
\* cannot be written (Notification has no column for its metadata): it throws.
RecordFailure(s) ==
  LET failed == CASE pc[s] = "refused" -> "failed"
                  [] pc[s] = "unknown" -> "unknown"
                  [] pc[s] = "busy" -> IF scene.durable THEN "unknown" ELSE "failed" IN
  /\ pc[s] \in {"refused", "unknown", "busy"}
  /\ row' = IF scene.durable /\ failed = "unknown" /\ row[Shared].status # "sending"
            THEN row ELSE [row EXCEPT ![RowOf(s)].status = failed]
  /\ Goto(s, "over")
  /\ UNCHANGED <<scene, calls, got, meta, inbox, seen, draining, bounds, doubts>>

\* The process stops or a database call fails; the sender's caller sees neither.
SenderStops(s) ==
  /\ pc[s] # "over" /\ Fault
  /\ Goto(s, "over")
  /\ UNCHANGED <<scene, row, calls, got, meta, inbox, seen, draining, refusals, doubts>>

\* Mutation: the sweep looks for rows that were never claimed.
UnresolvedQueued == row[Shared].status = "queued"
Unresolved == row[Shared].status = "sending"

\* Five minutes on, no live call is left: what is still being sent is unknown.
ReconcileUnresolved ==
  /\ Unresolved
  /\ \A s \in Sender : pc[s] \in {"start", "claim", "over"}
  /\ row' = [row EXCEPT ![Shared].status = "unknown"]
  /\ UNCHANGED <<scene, sending, meta, inbox, seen, draining, bounds, doubts>>
-----------------------------------------------------------------------------
(* Meta's reports *)

Follows == [accepted |-> {"sent", "failed"}, sent |-> {"delivered", "failed"},
            delivered |-> {"read"}, read |-> {}, failed |-> {}]
Made(i) == Cardinality({st \in Status : inbox[<<i, st>>].state # "none"})

\* Meta reports in order, several times in a second.
MetaReports(i, st) ==
  /\ i <= Len(meta) /\ Made(i) < scene.reports
  /\ st \in Follows[meta[i].last]
  /\ \E now \in {meta[i].clock, meta[i].clock + 1} :
       /\ meta' = [meta EXCEPT ![i] = [last |-> st, clock |-> now]]
       /\ inbox' = [inbox EXCEPT ![<<i, st>>] = [state |-> "posted", tries |-> 0, time |-> now]]
  /\ UNCHANGED <<scene, row, sending, seen, draining, bounds, doubts>>

InboxState(e, state) == inbox' = [inbox EXCEPT ![e].state = state]

\* The webhook keeps a report before it answers; until it does Meta tells again,
\* and the reports arrive in any order.
Ingest(e) ==
  /\ inbox[e].state = "posted"
  /\ InboxState(e, "pending")
  /\ UNCHANGED <<scene, row, sending, meta, seen, draining, bounds, doubts>>

Walks(d, from, to) == dpc[d] = from /\ dpc' = [dpc EXCEPT ![d] = to]

ClaimEvent(d, e) ==
  /\ Walks(d, "idle", "record")
  /\ inbox[e].state \in {"pending", "failed"}
  /\ inbox' = [inbox EXCEPT ![e].state = "processing", ![e].tries = @ + 1]
  /\ event' = [event EXCEPT ![d] = e]
  /\ UNCHANGED <<scene, row, sending, meta, seen, target, snap, bounds, doubts>>

\* The unique index tells a report that was recorded before.
RecordEvent(d) ==
  /\ Walks(d, "record", IF event[d] \in seen THEN "mark" ELSE "match")
  /\ seen' = seen \cup {event[d]}
  /\ UNCHANGED <<scene, row, sending, meta, inbox, event, target, snap, bounds, doubts>>

Rank(status) ==
  CASE status = "sent" -> 1 [] status = "delivered" -> 2 [] status = "read" -> 3
    [] status = "failed" -> 4 [] OTHER -> 0

\* Mutation: reports of the same second are taken in any order.
AppliesByTimeOnly(e, r) == r.status # "failed" /\ inbox[e].time >= r.stamp
Applies(e, r) ==
  /\ r.status # "failed"
  /\ inbox[e].time >= r.stamp
  /\ Rank(e[2]) >= Rank(r.status)

\* The row of Meta's id; without one, or when it is ahead, the report is done.
MatchRow(d) ==
  LET e == event[d]
      matching == {r \in Row : row[r].id = e[1]} IN
  /\ dpc[d] = "match"
  /\ IF matching = {}
     THEN Walks(d, "match", "mark") /\ UNCHANGED <<target, snap>>
     ELSE \E r \in matching :
            /\ Walks(d, "match", IF Applies(e, row[r]) THEN "apply" ELSE "mark")
            /\ target' = [target EXCEPT ![d] = r]
            /\ snap' = [snap EXCEPT ![d] = row[r]]
  /\ UNCHANGED <<scene, row, sending, meta, inbox, seen, event, bounds, doubts>>

\* The update is by row id, whatever the row says by now.  The retry it queues
\* after some failures names no notification the worker knows: it is dropped.
ApplyStatus(d) ==
  LET e == event[d] IN
  /\ Walks(d, "apply", "mark")
  /\ row' = [row EXCEPT ![target[d]].status = e[2], ![target[d]].stamp = inbox[e].time]
  /\ UNCHANGED <<scene, sending, meta, inbox, seen, event, target, snap, bounds, doubts>>

\* A drain is done with its report and holds nothing.
LetGo(d) ==
  /\ dpc' = [dpc EXCEPT ![d] = "idle"]
  /\ event' = [event EXCEPT ![d] = None]
  /\ target' = [target EXCEPT ![d] = None]
  /\ snap' = [snap EXCEPT ![d] = Empty]

MarkProcessed(d) ==
  /\ dpc[d] = "mark"
  /\ InboxState(event[d], "processed")
  /\ LetGo(d)
  /\ UNCHANGED <<scene, row, sending, meta, seen, bounds, doubts>>

\* A database call of the handler fails: the report is retried or dead-lettered.
HandlerFails(d) ==
  /\ dpc[d] # "idle" /\ Fault
  /\ InboxState(event[d], IF inbox[event[d]].tries >= MaxAttempts THEN "dead_letter" ELSE "failed")
  /\ LetGo(d)
  /\ UNCHANGED <<scene, row, sending, meta, seen, refusals, doubts>>

\* The process stops: the report stays in processing.
DrainStops(d) ==
  /\ dpc[d] # "idle" /\ Fault
  /\ LetGo(d)
  /\ UNCHANGED <<scene, row, sending, meta, inbox, seen, refusals, doubts>>

\* replayEvent, for an operator: also a report that is being processed.
Replay(e) ==
  /\ inbox[e].state \in {"dead_letter", "failed", "processing"}
  /\ inbox' = [inbox EXCEPT ![e].state = "pending", ![e].tries = 0]
  /\ UNCHANGED <<scene, row, sending, meta, seen, draining, bounds, doubts>>

SendStep(s) ==
  \/ Reserve(s) \/ SkipReserve(s) \/ ClaimForSend(s) \/ MetaAccepts(s) \/ Attach(s)
  \/ MetaDoesNotAnswer(s) \/ MetaRefuses(s) \/ MetaIsBusy(s) \/ RecordFailure(s)

DrainStep(d) ==
  \/ \E e \in Report : ClaimEvent(d, e)
  \/ RecordEvent(d) \/ MatchRow(d) \/ ApplyStatus(d) \/ MarkProcessed(d)

Next ==
  \/ \E s \in Sender : SendStep(s) \/ SenderStops(s)
  \/ ReconcileUnresolved
  \/ \E i \in Id, st \in Status : MetaReports(i, st)
  \/ \E e \in Report : Ingest(e) \/ Replay(e)
  \/ \E d \in Drain : DrainStep(d) \/ HandlerFails(d) \/ DrainStops(d)

Spec == Init /\ [][Next]_vars

\* Senders run to their end, the jobs run at their intervals, and Meta repeats
\* a report until it was kept.
Fairness ==
  /\ \A s \in Sender : WF_vars(SendStep(s))
  /\ WF_vars(ReconcileUnresolved)
  /\ \A e \in Report : WF_vars(Ingest(e))
  /\ \A d \in Drain : WF_vars(DrainStep(d))
FairSpec == Spec /\ Fairness
-----------------------------------------------------------------------------
(* Properties *)

RowType == [status : {"none", "queued", "sending", "unknown"} \cup Status,
            id : Id \cup {None}, stamp : Nat]

\* Every variable is what its declaration says, and the bounds hold.
TypeOK ==
  /\ scene \in Scene
  /\ row \in [Row -> RowType]
  /\ pc \in [Sender -> {"start", "claim", "call", "attach", "unknown", "refused", "busy", "over"}]
  /\ calls \in [Sender -> 0..MaxCalls] /\ got \in [Sender -> Id \cup {None}]
  /\ meta \in Seq([last : {"accepted"} \cup Status, clock : Nat])
  /\ inbox \in [Report -> [state : {"none", "posted", "pending", "processing", "failed",
                                    "dead_letter", "processed"}, tries : Nat, time : Nat]]
  /\ seen \in SUBSET Report
  /\ dpc \in [Drain -> {"idle", "record", "match", "apply", "mark"}]
  /\ event \in [Drain -> Report \cup {None}] /\ target \in [Drain -> Row \cup {None}]
  /\ snap \in [Drain -> RowType]
  /\ refusals \in 0..scene.refusals /\ faults \in 0..scene.faults /\ doubts \in Nat

\* However many senders and crashes, Meta accepts a durable notification once,
\* or once more for each call it accepted but answered with a busy status.
NotSentTwice ==
  Len(meta) <= doubts + (IF scene.durable THEN 1 ELSE Cardinality(scene.senders))

\* Repeated, late and reordered reports never take a row back: to undo a later
\* status two drains must overlap, one writing over what the other wrote since
\* it read the row.
RowNeverGoesBack ==
  [][\A r \in Row : Rank(row'[r].status) < Rank(row[r].status) =>
       \E d \in Drain : target[d] = r /\ dpc[d] = "apply" /\ snap[d] # row[r]]_row

\* A report stays in processing only after a process stopped.
Settled(e) ==
  \/ inbox[e].state \in {"none", "processed", "dead_letter"}
  \/ inbox[e].state = "processing" /\ faults > 0

\* No send stays in flight, and every report Meta made ends processed or
\* dead-lettered, whoever crashes in between.
SendsAndReportsSettle ==
  /\ <>[](row[Shared].status # "sending")
  /\ \A e \in Report : <>[]Settled(e)
=============================================================================
