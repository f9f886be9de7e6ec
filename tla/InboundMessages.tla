-------------------------- MODULE InboundMessages --------------------------
(***************************************************************************)
(* From Meta's webhook to the worker and the dead letters.  Meta delivers  *)
(* a batch of messages until it is told 200; each request claims every     *)
(* message in ProcessedMessage, queues it under its own id and answers for *)
(* the batch (controllers/webhook.controller.js).  The inbound queue hands *)
(* the jobs to a worker (jobs/whatsapp.jobs.js, queues/queue.service.js);  *)
(* a job whose attempts are used up becomes a dead letter that an operator *)
(* may replay or discard (queues/dlq.service.js).                          *)
(***************************************************************************)
EXTENDS Naturals, Sequences

CONSTANTS
  Message,     \* the customers' messages
  Request,     \* requests that Meta may have open at once
  MaxRemovals, \* bound: finished jobs of one message the queue forgets
  Scene        \* batches and, as bounds, what may go wrong with each

\* attempts: of a job before it fails; faults: crashes, failed database calls and
\* lost answers; outages: failed calls to the queue; removals: jobs it forgets.
ASSUME Scenes ==
  /\ MaxRemovals \in Nat
  /\ Scene \subseteq [batch : Seq(Message) \ {<<>>}, attempts : Nat \ {0},
                      faults : Nat, outages : Nat, removals : 0..MaxRemovals]

VARIABLES
  scene,    \* the batch and its bounds
  row,      \* the status of each message in ProcessedMessage
  pc,       \* where each request is
  item,     \* the place in the batch it is at
  retry,    \* whether it will answer 503
  accepted, \* Meta was told 200 and stops
  job,      \* where the job of each message is in the queue and the worker
  tries,    \* its failed attempts
  stalls,   \* how often its worker stopped
  lives,    \* how often it was added to the queue
  letter,   \* the dead letters of each message, one for each life of its job
  replay,   \* replays of dead letters under way, by message and life
  faults,   \* crashes, failed database calls and lost answers so far
  outages,  \* failed calls to the queue so far
  settled,  \* messages dropped on purpose: throttled, or from no valid number
  beaten,   \* messages a request called a duplicate when another reclaimed them
  answered, \* how often each message was processed to its end
  broken    \* how often its worker stopped after that, before the job completed

request == <<pc, item, retry, accepted>>
work == <<job, tries, stalls, lives>>
dlq == <<letter, replay>>
bounds == <<faults, outages>>
book == <<settled, beaten, answered, broken>>
vars == <<scene, row, request, work, dlq, bounds, book>>

Life == 1..(MaxRemovals + 1)
Fault == faults < scene.faults /\ faults' = faults + 1
Outage == outages < scene.outages /\ outages' = outages + 1
Count(tally, m) == [tally EXCEPT ![m] = @ + 1]
InBatch == {scene.batch[i] : i \in DOMAIN scene.batch}
At(r) == scene.batch[item[r]]

Init ==
  /\ scene \in Scene
  /\ row = [m \in Message |-> "none"]
  /\ pc = [r \in Request |-> "idle"]
  /\ item = [r \in Request |-> 1]
  /\ retry = [r \in Request |-> FALSE]
  /\ accepted = FALSE
  /\ job = [m \in Message |-> "none"]
  /\ tries = [m \in Message |-> 0]
  /\ stalls = [m \in Message |-> 0]
  /\ lives = [m \in Message |-> 0]
  /\ letter = [m \in Message |-> [l \in Life |-> "none"]]
  /\ replay = [m \in Message |-> [l \in Life |-> "none"]]
  /\ faults = 0
  /\ outages = 0
  /\ settled = {}
  /\ beaten = {}
  /\ answered = [m \in Message |-> 0]
  /\ broken = [m \in Message |-> 0]

\* updateMany with the status it expects.
RowFrom(m, from, to) == row' = IF row[m] = from THEN [row EXCEPT ![m] = to] ELSE row
-----------------------------------------------------------------------------
(* The webhook *)

Goto(r, next) == pc' = [pc EXCEPT ![r] = next] /\ UNCHANGED <<item, retry, accepted>>

\* The outcome of an item, and on to the next one or to the answer.
Finish(r, retryable) ==
  /\ retry' = [retry EXCEPT ![r] = @ \/ retryable]
  /\ item' = [item EXCEPT ![r] = IF @ < Len(scene.batch) THEN @ + 1 ELSE 1]
  /\ pc' = [pc EXCEPT ![r] = IF item[r] < Len(scene.batch) THEN "create" ELSE "respond"]
  /\ UNCHANGED accepted

\* Meta delivers the batch, also while an earlier delivery is still open.
Deliver(r) ==
  /\ pc[r] = "idle" /\ ~accepted
  /\ Goto(r, "create")
  /\ UNCHANGED <<scene, row, work, dlq, bounds, book>>

\* The row is inserted; the unique index refuses a second one.
CreateRow(r) ==
  /\ pc[r] = "create"
  /\ IF row[At(r)] = "none"
     THEN row' = [row EXCEPT ![At(r)] = "claiming"] /\ Goto(r, "screen")
     ELSE Goto(r, "find") /\ UNCHANGED row
  /\ UNCHANGED <<scene, work, dlq, bounds, book>>

\* Mutation: a claim in progress is taken for a duplicate.
NotRetryable(status) == FALSE
Retryable(status) == status = "claiming"

\* A failed message may be claimed again; of all others only the status counts.
FindRow(r) ==
  /\ pc[r] = "find"
  /\ IF row[At(r)] = "failed" THEN Goto(r, "reclaim") ELSE Finish(r, Retryable(row[At(r)]))
  /\ UNCHANGED <<scene, row, work, dlq, bounds, book>>

\* Of two requests that found it failed the later one calls it a duplicate.
Reclaim(r) ==
  /\ pc[r] = "reclaim"
  /\ RowFrom(At(r), "failed", "claiming")
  /\ IF row[At(r)] = "failed"
     THEN Goto(r, "screen") /\ UNCHANGED beaten
     ELSE Finish(r, FALSE) /\ beaten' = beaten \cup {At(r)}
  /\ UNCHANGED <<scene, work, dlq, bounds, settled, answered, broken>>

\* The number is valid and within its limit, or the message is dropped.
Screen(r) ==
  /\ pc[r] = "screen"
  /\ \/ Goto(r, "enqueue") /\ UNCHANGED settled
     \/ Goto(r, "release") /\ settled' = settled \cup {At(r)}
  /\ UNCHANGED <<scene, row, work, dlq, bounds, beaten, answered, broken>>

ReleaseClaim(m) == RowFrom(m, "claiming", "queued")

DropItem(r) ==
  /\ pc[r] = "release"
  /\ ReleaseClaim(At(r))
  /\ Finish(r, FALSE)
  /\ UNCHANGED <<scene, work, dlq, bounds, book>>

\* The queue adds a job unless it still knows one with that id.
Add(m) ==
  IF job[m] = "none"
  THEN /\ job' = [job EXCEPT ![m] = "waiting"]
       /\ lives' = Count(lives, m)
       /\ tries' = [tries EXCEPT ![m] = 0] /\ stalls' = [stalls EXCEPT ![m] = 0]
  ELSE UNCHANGED work

Enqueue(r) ==
  /\ pc[r] = "enqueue"
  /\ Add(At(r))
  /\ Goto(r, "mark")
  /\ UNCHANGED <<scene, row, dlq, bounds, book>>

\* The queue refuses the job, or adds it and its answer does not arrive.
EnqueueFails(r) ==
  /\ pc[r] = "enqueue" /\ Outage
  /\ Add(At(r)) \/ UNCHANGED work
  /\ Goto(r, "fail")
  /\ UNCHANGED <<scene, row, dlq, faults, book>>

\* Mutation: a failed enqueue is left as it is.
FailedForgotten(m) == UNCHANGED row
FailRow(m) == RowFrom(m, "claiming", "failed")

MarkFailed(r) ==
  /\ pc[r] = "fail"
  /\ FailRow(At(r))
  /\ Finish(r, TRUE)
  /\ UNCHANGED <<scene, work, dlq, bounds, book>>

\* Mutation: the row is marked queued whatever the worker made of it.
MarkedBlindly(m) == row' = [row EXCEPT ![m] = "queued"]
QueueRow(m) == RowFrom(m, "claiming", "queued")

MarkQueued(r) ==
  /\ pc[r] = "mark"
  /\ QueueRow(At(r))
  /\ Finish(r, FALSE)
  /\ UNCHANGED <<scene, work, dlq, bounds, book>>

Answers200(r) == ~retry[r]

\* 503 makes Meta deliver the batch again.
Respond(r) ==
  /\ pc[r] = "respond"
  /\ accepted' = (accepted \/ Answers200(r))
  /\ pc' = [pc EXCEPT ![r] = "idle"]
  /\ retry' = [retry EXCEPT ![r] = FALSE]
  /\ UNCHANGED <<scene, item, row, work, dlq, bounds, book>>
-----------------------------------------------------------------------------
(* The worker *)

Walks(m, from, to) == job[m] = from /\ job' = [job EXCEPT ![m] = to]

\* The ordering gate drops a message that a newer one overtook: the job is over.
DropStale(m) ==
  /\ Walks(m, "waiting", "completed")
  /\ UNCHANGED <<scene, row, request, tries, stalls, lives, dlq, bounds, book>>

\* An attempt begins with the row, whatever its status.
StartJob(m) ==
  /\ Walks(m, "waiting", "processing")
  /\ row' = [row EXCEPT ![m] = "processing"]
  /\ UNCHANGED <<scene, request, tries, stalls, lives, dlq, bounds, book>>

\* The assistant or the voice service answers the message ...
ProcessMessage(m) ==
  /\ Walks(m, "processing", "answered")
  /\ answered' = Count(answered, m)
  /\ UNCHANGED <<scene, row, request, tries, stalls, lives, dlq, bounds, settled, beaten, broken>>

\* Mutation: the failed update fails the attempt.
RetryUnrecorded == "waiting"
Unrecorded == "completed"

\* ... and the row says so; if that fails the job completes all the same.
CompleteJob(m) ==
  /\ \/ /\ Walks(m, "answered", "completed")
        /\ row' = [row EXCEPT ![m] = "completed"]
        /\ UNCHANGED faults
     \/ Walks(m, "answered", Unrecorded) /\ Fault /\ UNCHANGED row
  /\ UNCHANGED <<scene, request, tries, stalls, lives, dlq, outages, book>>

\* Mutation: one attempt too many.
ExhaustedOffByOne(attempts) == attempts > scene.attempts
Exhausted(attempts) == attempts >= scene.attempts

\* Processing throws, or the first write of the row does: the queue retries the
\* job, or fails it for good.
FailAttempt(m) ==
  /\ \/ job[m] = "processing" /\ UNCHANGED faults
     \/ job[m] = "waiting" /\ Fault
  /\ tries' = Count(tries, m)
  /\ job' = [job EXCEPT ![m] = IF Exhausted(tries'[m]) THEN "exhausted" ELSE "waiting"]
  /\ UNCHANGED <<scene, row, request, stalls, lives, dlq, outages, book>>

\* The failed event of an exhausted job writes its dead letter, or fails to.
MoveToDeadLetters(m) ==
  /\ Walks(m, "exhausted", "failed")
  /\ \/ letter' = [letter EXCEPT ![m][lives[m]] = "pending"] /\ UNCHANGED faults
     \/ Fault /\ UNCHANGED letter
  /\ UNCHANGED <<scene, row, request, tries, stalls, lives, replay, outages, book>>

\* A worker stops.  The queue hands its job out once more; the second time it
\* fails the job, which has attempts left and becomes no dead letter.
WorkerStops(m) ==
  /\ job[m] \in {"processing", "answered", "exhausted"} /\ Fault
  /\ broken' = IF job[m] = "answered" THEN Count(broken, m) ELSE broken
  /\ IF job[m] = "exhausted"
     THEN job' = [job EXCEPT ![m] = "failed"] /\ UNCHANGED stalls
     ELSE /\ stalls' = Count(stalls, m)
          /\ job' = [job EXCEPT ![m] = IF stalls[m] = 0 THEN "waiting" ELSE "failed"]
  /\ UNCHANGED <<scene, row, request, tries, lives, dlq, outages, settled, beaten, answered>>

\* The queue keeps the last 1000 completed and 5000 failed jobs.
RemoveJob(m) ==
  /\ job[m] \in {"completed", "failed"} /\ lives[m] <= scene.removals
  /\ job' = [job EXCEPT ![m] = "none"]
  /\ UNCHANGED <<scene, row, request, tries, stalls, lives, dlq, bounds, book>>
-----------------------------------------------------------------------------
(* The operator *)

Stage(m, l, next) == replay' = [replay EXCEPT ![m][l] = next]
WriteLetter(m, l, status) == letter' = [letter EXCEPT ![m][l] = status]

AlreadyCompleted(m) == row[m] = "completed"

\* A letter not yet replayed is read, and with it whether its message completed.
CheckReplay(m, l) ==
  /\ replay[m][l] = "none" /\ letter[m][l] \in {"pending", "discarded"}
  /\ IF AlreadyCompleted(m)
     THEN WriteLetter(m, l, "replayed") /\ UNCHANGED replay
     ELSE Stage(m, l, "enqueue") /\ UNCHANGED letter
  /\ UNCHANGED <<scene, row, request, work, bounds, book>>

\* The command line adds the job; the admin console's handler has no queue to.
EnqueueReplay(m, l) ==
  /\ replay[m][l] = "enqueue"
  /\ Add(m) \/ UNCHANGED work
  /\ Stage(m, l, "save")
  /\ UNCHANGED <<scene, row, request, letter, bounds, book>>

\* The queue does not answer: the letter stays as it was.
ReplayFails(m, l) ==
  /\ replay[m][l] = "enqueue" /\ Outage
  /\ Add(m) \/ UNCHANGED work
  /\ Stage(m, l, "none")
  /\ UNCHANGED <<scene, row, request, letter, faults, book>>

SaveReplayed(m, l) ==
  /\ replay[m][l] = "save"
  /\ WriteLetter(m, l, "replayed")
  /\ Stage(m, l, "none")
  /\ UNCHANGED <<scene, row, request, work, bounds, book>>

\* A letter is discarded in any status.
Discard(m, l) ==
  /\ letter[m][l] # "none"
  /\ WriteLetter(m, l, "discarded")
  /\ UNCHANGED <<scene, row, request, work, replay, bounds, book>>
-----------------------------------------------------------------------------
(* Failures of the webhook *)

\* The process stops within a request, or Meta gives up waiting for its answer.
RequestLost(r) ==
  /\ pc[r] # "idle" /\ Fault
  /\ pc' = [pc EXCEPT ![r] = "idle"]
  /\ item' = [item EXCEPT ![r] = 1]
  /\ retry' = [retry EXCEPT ![r] = FALSE]
  /\ UNCHANGED <<scene, accepted, row, work, dlq, outages, book>>

\* A failed call makes the item retryable, but for the two that are caught.
DatabaseFails(r) ==
  /\ pc[r] \in {"create", "find", "reclaim", "screen", "mark", "release", "fail"} /\ Fault
  /\ Finish(r, pc[r] # "release")
  /\ UNCHANGED <<scene, row, work, dlq, outages, book>>

RequestStep(r) ==
  \/ CreateRow(r) \/ FindRow(r) \/ Reclaim(r) \/ Screen(r) \/ DropItem(r)
  \/ Enqueue(r) \/ MarkFailed(r) \/ MarkQueued(r) \/ Respond(r)

JobStep(m) ==
  \/ DropStale(m) \/ StartJob(m) \/ ProcessMessage(m) \/ CompleteJob(m)
  \/ FailAttempt(m) \/ MoveToDeadLetters(m)

ReplayStep(m, l) ==
  CheckReplay(m, l) \/ EnqueueReplay(m, l) \/ ReplayFails(m, l) \/ SaveReplayed(m, l) \/ Discard(m, l)

Next ==
  \/ \E r \in Request : Deliver(r) \/ RequestStep(r) \/ EnqueueFails(r)
                          \/ RequestLost(r) \/ DatabaseFails(r)
  \/ \E m \in Message : JobStep(m) \/ WorkerStops(m) \/ RemoveJob(m)
  \/ \E m \in Message, l \in Life : ReplayStep(m, l)

Spec == Init /\ [][Next]_vars

\* Meta delivers until it is told 200, requests run to their answer, and the
\* worker takes up the jobs.
Fairness ==
  /\ \A r \in Request : WF_vars(Deliver(r) \/ RequestStep(r))
  /\ \A m \in Message : WF_vars(JobStep(m))
FairSpec == Spec /\ Fairness
-----------------------------------------------------------------------------
(* Properties *)

Tally == [Message -> Nat]

\* Every variable is what its declaration says, and the bounds hold.
TypeOK ==
  /\ scene \in Scene
  /\ row \in [Message -> {"none", "claiming", "failed", "queued", "processing", "completed"}]
  /\ pc \in [Request -> {"idle", "create", "find", "reclaim", "screen", "release",
                         "enqueue", "fail", "mark", "respond"}]
  /\ item \in [Request -> 1..Len(scene.batch)]
  /\ retry \in [Request -> BOOLEAN] /\ accepted \in BOOLEAN
  /\ job \in [Message -> {"none", "waiting", "processing", "answered", "exhausted",
                          "completed", "failed"}]
  /\ tries \in [Message -> 0..scene.attempts] /\ stalls \in [Message -> 0..2]
  /\ lives \in [Message -> 0..(MaxRemovals + 1)]
  /\ letter \in [Message -> [Life -> {"none", "pending", "replayed", "discarded"}]]
  /\ replay \in [Message -> [Life -> {"none", "enqueue", "save"}]]
  /\ faults \in 0..scene.faults /\ outages \in 0..scene.outages
  /\ settled \in SUBSET Message /\ beaten \in SUBSET Message
  /\ answered \in Tally /\ broken \in Tally

\* Meta is told 200 only when every message of the batch was queued or dropped
\* on purpose, unless two requests met at a failed row.
AcceptedMeansQueued ==
  accepted => \A m \in InBatch : lives[m] > 0 \/ m \in settled \/ m \in beaten

Started == {"processing", "completed"}

\* From the first attempt on the row is the worker's: a webhook that is late, or
\* a delivery of the same message, never puts it back.
WorkerOwnsTheRow ==
  [][\A m \in Message : row[m] \in Started => row'[m] \in Started]_row

\* Each time a message is queued it is processed to its end at most once, unless
\* its worker stops after that.
AnsweredOncePerLife == \A m \in Message : answered[m] <= lives[m] + broken[m]

\* A message nobody works on any more: a crash or a failed call left its claim,
\* or it failed after the batch had been accepted.
Stranded(m) ==
  lives[m] = 0 /\ (m \in beaten \/ (row[m] = "claiming" /\ faults > 0))

\* Every message of a batch is dropped on purpose or its job ends, also when the
\* queue is down for a while; what is stranded is all that is left.
EveryMessageIsSettled ==
  LET Over(m) == lives[m] > 0 /\ job[m] \in {"none", "completed", "failed"} IN
  \A m \in Message : <>[](m \notin InBatch \/ m \in settled \/ Over(m) \/ Stranded(m))
=============================================================================
