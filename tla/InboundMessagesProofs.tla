----------------------- MODULE InboundMessagesProofs -----------------------
(***************************************************************************)
(* Proofs about InboundMessages for any number of messages, requests and   *)
(* scenes: types, what Meta's 200 stands for, how often a message is       *)
(* processed, and who owns its row.                                        *)
(***************************************************************************)
EXTENDS InboundMessages, SequenceTheorems, TLAPS

\* The queue's job of a message within the bounds of its scene.
JobFits(m) ==
  /\ job[m] = "none" => lives[m] <= scene.removals
  /\ job[m] # "none" => lives[m] > 0
  /\ job[m] \in {"waiting", "processing", "answered"} =>
       tries[m] < scene.attempts /\ stalls[m] < 2
JobsFit == \A m \in Message : JobFits(m)

\* A life that has not reached its end owes one processing.
Due(m) == IF job[m] \in {"waiting", "processing"} THEN 1 ELSE 0
AnswersCounted == \A m \in Message : answered[m] + Due(m) <= lives[m] + broken[m]

\* Meta need not deliver the message again.
Known(m) == lives[m] > 0 \/ m \in settled \/ m \in beaten
Handled(i) == Known(scene.batch[i])

\* A row past its claim is that of a message that was queued or dropped.
RowsKnown ==
  \A m \in Message : row[m] \in {"queued", "processing", "completed"} => Known(m)

\* A request that has nothing to retry has dealt with each item behind it.
RequestFits(r) ==
  /\ pc[r] \in {"idle", "respond"} => item[r] = 1
  /\ pc[r] = "mark" => lives[At(r)] > 0
  /\ pc[r] = "release" => At(r) \in settled
  /\ pc[r] = "find" => row[At(r)] # "none"
  /\ ~retry[r] => \A i \in 1 .. Len(scene.batch) :
       pc[r] = "respond" \/ i < item[r] => Handled(i)
RequestsFit == \A r \in Request : RequestFits(r)

IInv ==
  /\ TypeOK
  /\ JobsFit /\ AnswersCounted
  /\ RowsKnown /\ RequestsFit /\ AcceptedMeansQueued
-----------------------------------------------------------------------------
(* Types, in parts *)

RequestTypes ==
  /\ pc \in [Request -> {"idle", "create", "find", "reclaim", "screen", "release",
                         "enqueue", "fail", "mark", "respond"}]
  /\ item \in [Request -> 1 .. Len(scene.batch)]
  /\ retry \in [Request -> BOOLEAN] /\ accepted \in BOOLEAN
JobPlace == {"none", "waiting", "processing", "answered", "exhausted", "completed", "failed"}
WorkTypes ==
  /\ job \in [Message -> JobPlace]
  /\ tries \in [Message -> 0 .. scene.attempts] /\ stalls \in [Message -> 0 .. 2]
  /\ lives \in [Message -> 0 .. (MaxRemovals + 1)]
RowStatus == {"none", "claiming", "failed", "queued", "processing", "completed"}
DlqTypes ==
  /\ letter \in [Message -> [Life -> {"none", "pending", "replayed", "discarded"}]]
  /\ replay \in [Message -> [Life -> {"none", "enqueue", "save"}]]
BoundTypes == faults \in 0 .. scene.faults /\ outages \in 0 .. scene.outages
BookTypes ==
  /\ settled \in SUBSET Message /\ beaten \in SUBSET Message
  /\ answered \in Tally /\ broken \in Tally
Types ==
  /\ scene \in Scene /\ row \in [Message -> RowStatus]
  /\ RequestTypes /\ WorkTypes /\ DlqTypes /\ BoundTypes /\ BookTypes

LEMMA TypesAreTypeOK == TypeOK <=> Types
BY DEF TypeOK, Types, RequestTypes, JobPlace, WorkTypes, RowStatus, DlqTypes, BoundTypes, BookTypes

LEMMA SceneFacts ==
  ASSUME scene \in Scene
  PROVE  /\ Len(scene.batch) \in Nat \ {0}
         /\ \A i \in 1 .. Len(scene.batch) : scene.batch[i] \in Message
         /\ scene.attempts \in Nat \ {0}
         /\ scene.faults \in Nat /\ scene.outages \in Nat
         /\ scene.removals \in 0 .. MaxRemovals /\ MaxRemovals \in Nat
<1>1. scene \in [batch : Seq(Message) \ {<<>>}, attempts : Nat \ {0},
                 faults : Nat, outages : Nat, removals : 0..MaxRemovals]
  BY Scenes
<1>2. scene.batch \in Seq(Message) /\ scene.batch # <<>>
  BY <1>1
<1>3. Len(scene.batch) \in Nat /\ Len(scene.batch) # 0
  BY <1>2, EmptySeq, LenProperties
<1>4. \A i \in 1 .. Len(scene.batch) : scene.batch[i] \in Message
  BY <1>2, ElementOfSeq
<1> QED
  BY <1>1, <1>3, <1>4, Scenes

\* A request is at an item of the batch.
LEMMA AtIsMessage ==
  ASSUME Types, NEW r \in Request
  PROVE  item[r] \in 1 .. Len(scene.batch) /\ At(r) \in Message
BY SceneFacts DEF Types, RequestTypes, At

\* A request goes on within its item, or to the next.
LEMMA RequestGoes ==
  ASSUME Types, NEW r \in Request, UNCHANGED scene,
         NEW next \in {"create", "find", "reclaim", "screen", "release", "enqueue", "fail",
                       "mark", "respond"},
         Goto(r, next) \/ (\E retryable \in BOOLEAN : Finish(r, retryable))
  PROVE  RequestTypes'
<1>1. item[r] \in 1 .. Len(scene.batch) /\ Len(scene.batch) \in Nat \ {0}
  BY AtIsMessage, SceneFacts DEF Types
<1>2. (IF item[r] < Len(scene.batch) THEN item[r] + 1 ELSE 1) \in 1 .. Len(scene.batch)
  BY <1>1
<1>3. CASE Goto(r, next)
  BY <1>3 DEF Types, RequestTypes, Goto
<1>4. CASE \E retryable \in BOOLEAN : Finish(r, retryable)
  BY <1>2, <1>4 DEF Types, RequestTypes, Finish
<1> QED
  BY <1>3, <1>4

\* The queue adds a job, or knows it.
LEMMA JobAdded ==
  ASSUME Types, JobsFit, AnswersCounted, NEW m \in Message, Add(m),
         UNCHANGED <<scene, answered, broken>>
  PROVE  /\ WorkTypes' /\ JobsFit' /\ AnswersCounted'
         /\ lives'[m] > 0
         /\ \A n \in Message : lives[n] <= lives'[n]
<1>1. /\ scene.attempts \in Nat \ {0} /\ scene.removals \in 0 .. MaxRemovals /\ MaxRemovals \in Nat
      /\ \A n \in Message : lives[n] \in Nat /\ answered[n] \in Nat /\ broken[n] \in Nat
  BY SceneFacts DEF Types, WorkTypes, BookTypes, Tally
<1>2. CASE job[m] = "none"
  <2>1. /\ job' = [job EXCEPT ![m] = "waiting"]
        /\ lives' = [lives EXCEPT ![m] = @ + 1]
        /\ tries' = [tries EXCEPT ![m] = 0] /\ stalls' = [stalls EXCEPT ![m] = 0]
    BY <1>2 DEF Add, Count
  <2>2. lives[m] <= scene.removals
    BY <1>2 DEF JobsFit, JobFits
  <2>3. WorkTypes'
    BY <1>1, <2>1, <2>2 DEF Types, WorkTypes, JobPlace
  <2>4. JobsFit'
    BY <1>1, <2>1 DEF Types, WorkTypes, JobsFit, JobFits
  <2>5. AnswersCounted'
    <3>1. ASSUME NEW n \in Message PROVE answered[n] + Due(n)' <= lives'[n] + broken[n]
      <4>1. CASE n = m
        <5>1. answered[m] + 0 <= lives[m] + broken[m] /\ Due(m)' = 1
          BY <1>2, <2>1 DEF AnswersCounted, Due, Types, WorkTypes
        <5> QED
          BY <1>1, <2>1, <4>1, <5>1 DEF Types, WorkTypes
      <4>2. CASE n # m
        BY <2>1, <4>2 DEF AnswersCounted, Due, Types, WorkTypes
      <4> QED
        BY <4>1, <4>2
    <3> QED
      BY <3>1 DEF AnswersCounted
  <2> QED
    BY <1>1, <2>1, <2>3, <2>4, <2>5 DEF Types, WorkTypes
<1>3. CASE job[m] # "none"
  <2>1. UNCHANGED <<job, tries, stalls, lives>>
    BY <1>3 DEF Add, work
  <2> QED
    BY <1>1, <1>3, <2>1 DEF Types, WorkTypes, JobsFit, JobFits, AnswersCounted, Due
<1> QED
  BY <1>2, <1>3

\* Whoever leaves the queue alone leaves its bounds.
LEMMA WorkKept ==
  ASSUME Types, JobsFit, AnswersCounted, UNCHANGED <<scene, job, tries, stalls, lives, answered, broken>>
  PROVE  /\ WorkTypes' /\ JobsFit' /\ AnswersCounted'
         /\ \A n \in Message : lives[n] <= lives'[n]
BY SceneFacts DEF Types, WorkTypes, JobsFit, JobFits, AnswersCounted, Due

\* The job of one message moves, and no new life begins.
Moved(m, next) ==
  /\ job[m] # "none" /\ job' = [job EXCEPT ![m] = next] /\ UNCHANGED <<scene, lives>>
  /\ tries' \in [Message -> Nat] /\ stalls' \in [Message -> Nat]
  /\ answered' \in [Message -> Nat] /\ broken' \in [Message -> Nat]
  /\ \A n \in Message : n # m => /\ tries'[n] = tries[n] /\ stalls'[n] = stalls[n]
                                 /\ answered'[n] = answered[n] /\ broken'[n] = broken[n]
  /\ tries'[m] \in 0 .. scene.attempts /\ stalls'[m] \in 0 .. 2
  /\ next = "none" => lives[m] <= scene.removals
  /\ next \in {"waiting", "processing", "answered"} => tries'[m] < scene.attempts /\ stalls'[m] < 2
  /\ answered'[m] <= lives[m] + broken'[m]
  /\ next \in {"waiting", "processing"} => answered'[m] + 1 <= lives[m] + broken'[m]

LEMMA JobMoved ==
  ASSUME Types, JobsFit, AnswersCounted, NEW m \in Message, NEW next \in JobPlace, Moved(m, next)
  PROVE  WorkTypes' /\ JobsFit' /\ AnswersCounted' /\ UNCHANGED <<scene, lives>>
<1>1. WorkTypes'
  BY DEF Types, WorkTypes, Moved
<1>2. JobsFit'
  BY DEF Types, WorkTypes, JobsFit, JobFits, Moved
<1>3. ASSUME NEW n \in Message PROVE answered'[n] + Due(n)' <= lives'[n] + broken'[n]
  <2>1. CASE n = m
    BY <2>1 DEF Due, Moved, Types, WorkTypes
  <2>2. CASE n # m
    <3>1. Due(n)' = Due(n)
      BY <2>2 DEF Due, Types, WorkTypes, Moved
    <3>2. answered[n] + Due(n) <= lives[n] + broken[n]
      BY DEF AnswersCounted
    <3> QED
      BY <2>2, <3>1, <3>2 DEF Moved
  <2> QED
    BY <2>1, <2>2
<1> QED
  BY <1>1, <1>2, <1>3 DEF AnswersCounted, Moved

\* Every step of the worker and the queue keeps the bounds of the jobs.
LEMMA WorkerKeeps ==
  ASSUME Types, JobsFit, AnswersCounted, NEW m \in Message,
         JobStep(m) \/ WorkerStops(m) \/ RemoveJob(m)
  PROVE  /\ WorkTypes' /\ JobsFit' /\ AnswersCounted'
         /\ UNCHANGED <<scene, lives>>
<1>0. /\ UNCHANGED <<scene, lives>>
      /\ job[m] # "none"
  BY DEF JobStep, DropStale, StartJob, ProcessMessage, CompleteJob, FailAttempt, MoveToDeadLetters,
    WorkerStops, RemoveJob, Walks
<1>1. /\ scene.attempts \in Nat \ {0}
      /\ tries \in [Message -> Nat] /\ stalls \in [Message -> Nat] /\ lives \in [Message -> Nat]
      /\ answered \in [Message -> Nat] /\ broken \in [Message -> Nat]
      /\ tries[m] \in 0 .. scene.attempts /\ stalls[m] \in 0 .. 2
  <2>1. scene.attempts \in Nat \ {0}
    BY SceneFacts DEF Types
  <2> QED
    BY <2>1 DEF Types, WorkTypes, BookTypes, Tally
<1>2. /\ job[m] \in {"waiting", "processing", "answered"} => tries[m] < scene.attempts /\ stalls[m] < 2
      /\ answered[m] <= lives[m] + broken[m]
      /\ job[m] \in {"waiting", "processing"} => answered[m] + 1 <= lives[m] + broken[m]
  <2>1. answered[m] + Due(m) <= lives[m] + broken[m]
    BY DEF AnswersCounted
  <2> QED
    BY <1>1, <2>1 DEF JobsFit, JobFits, Due
<1>4. CASE DropStale(m)
  <2>1. job' = [job EXCEPT ![m] = "completed"] /\ UNCHANGED <<tries, stalls, answered, broken>>
    BY <1>4 DEF DropStale, Walks, book
  <2>2. Moved(m, "completed")
    BY <1>0, <1>1, <1>2, <2>1 DEF Moved
  <2> QED
    BY <2>2, JobMoved DEF JobPlace
<1>5. CASE StartJob(m)
  <2>1. /\ job' = [job EXCEPT ![m] = "processing"] /\ job[m] = "waiting"
        /\ UNCHANGED <<tries, stalls, answered, broken>>
    BY <1>5 DEF StartJob, Walks, book
  <2>2. Moved(m, "processing")
    BY <1>0, <1>1, <1>2, <2>1 DEF Moved
  <2> QED
    BY <2>2, JobMoved DEF JobPlace
<1>6. CASE ProcessMessage(m)
  <2>1. /\ job' = [job EXCEPT ![m] = "answered"] /\ job[m] = "processing"
        /\ answered' = [answered EXCEPT ![m] = @ + 1]
        /\ UNCHANGED <<tries, stalls, broken>>
    BY <1>6 DEF ProcessMessage, Walks, Count
  <2>2. Moved(m, "answered")
    BY <1>0, <1>1, <1>2, <2>1 DEF Moved
  <2> QED
    BY <2>2, JobMoved DEF JobPlace
<1>7. CASE CompleteJob(m)
  <2>1. /\ job' = [job EXCEPT ![m] = "completed"]
        /\ UNCHANGED <<tries, stalls, answered, broken>>
    BY <1>7 DEF CompleteJob, Walks, Unrecorded, book
  <2>2. Moved(m, "completed")
    BY <1>0, <1>1, <1>2, <2>1 DEF Moved
  <2> QED
    BY <2>2, JobMoved DEF JobPlace
<1>8. CASE FailAttempt(m)
  <2>1. PICK next \in {"exhausted", "waiting"} :
          /\ job' = [job EXCEPT ![m] = next]
          /\ next = "waiting" => ~(tries'[m] >= scene.attempts)
    BY <1>8 DEF FailAttempt, Exhausted
  <2>2. /\ job[m] \in {"processing", "waiting"}
        /\ tries' = [tries EXCEPT ![m] = @ + 1]
        /\ UNCHANGED <<stalls, answered, broken>>
    BY <1>8 DEF FailAttempt, Count, book
  <2>3. /\ tries' \in [Message -> Nat] /\ tries'[m] \in 0 .. scene.attempts
        /\ next = "waiting" => tries'[m] < scene.attempts
        /\ \A n \in Message : n # m => tries'[n] = tries[n]
    BY <1>1, <1>2, <2>1, <2>2
  <2>4. Moved(m, next)
    BY <1>0, <1>1, <1>2, <2>1, <2>2, <2>3 DEF Moved
  <2> QED
    BY <2>4, JobMoved DEF JobPlace
<1>9. CASE MoveToDeadLetters(m)
  <2>1. /\ job' = [job EXCEPT ![m] = "failed"]
        /\ UNCHANGED <<tries, stalls, answered, broken>>
    BY <1>9 DEF MoveToDeadLetters, Walks, book
  <2>2. Moved(m, "failed")
    BY <1>0, <1>1, <1>2, <2>1 DEF Moved
  <2> QED
    BY <2>2, JobMoved DEF JobPlace
<1>10. CASE WorkerStops(m)
  <2>1. /\ job[m] \in {"processing", "answered", "exhausted"}
        /\ UNCHANGED <<tries, answered>>
        /\ broken' = IF job[m] = "answered" THEN [broken EXCEPT ![m] = @ + 1] ELSE broken
    BY <1>10 DEF WorkerStops, Count
  <2>2. CASE job[m] = "exhausted" \/ stalls[m] # 0
    <3>1. /\ job' = [job EXCEPT ![m] = "failed"]
          /\ stalls' = stalls \/ (job[m] # "exhausted" /\ stalls' = [stalls EXCEPT ![m] = @ + 1])
      BY <1>10, <2>2 DEF WorkerStops, Count
    <3>2. Moved(m, "failed")
      BY <1>0, <1>1, <1>2, <2>1, <3>1 DEF Moved
    <3> QED
      BY <3>2, JobMoved DEF JobPlace
  <2>3. CASE job[m] # "exhausted" /\ stalls[m] = 0
    <3>1. job' = [job EXCEPT ![m] = "waiting"] /\ stalls' = [stalls EXCEPT ![m] = @ + 1]
      BY <1>10, <2>3 DEF WorkerStops, Count
    <3>2. answered[m] + 1 <= lives[m] + broken'[m]
      BY <1>1, <1>2, <2>1, <2>3
    <3>3. /\ stalls' \in [Message -> Nat] /\ stalls'[m] = 1 /\ broken' \in [Message -> Nat]
          /\ \A n \in Message : n # m => stalls'[n] = stalls[n] /\ broken'[n] = broken[n]
      BY <1>1, <2>1, <2>3, <3>1
    <3>4. Moved(m, "waiting")
      BY <1>0, <1>1, <1>2, <2>1, <2>3, <3>1, <3>2, <3>3 DEF Moved
    <3> QED
      BY <3>4, JobMoved DEF JobPlace
  <2> QED
    BY <2>2, <2>3
<1>11. CASE RemoveJob(m)
  <2>1. /\ job' = [job EXCEPT ![m] = "none"] /\ lives[m] <= scene.removals
        /\ UNCHANGED <<tries, stalls, answered, broken>>
    BY <1>11 DEF RemoveJob, book
  <2>2. Moved(m, "none")
    BY <1>0, <1>1, <1>2, <2>1 DEF Moved
  <2> QED
    BY <2>2, JobMoved DEF JobPlace
<1> QED
  BY <1>0, <1>4, <1>5, <1>6, <1>7, <1>8, <1>9, <1>10, <1>11 DEF JobStep

\* Every step keeps the bounds of the jobs, and ends no life.
LEMMA QueueStep ==
  ASSUME Types, JobsFit, AnswersCounted, [Next]_vars
  PROVE  /\ WorkTypes' /\ JobsFit' /\ AnswersCounted' /\ UNCHANGED scene
         /\ \A n \in Message : lives[n] <= lives'[n]
<1> DEFINE Kept == /\ WorkTypes' /\ JobsFit' /\ AnswersCounted' /\ UNCHANGED scene
                   /\ \A n \in Message : lives[n] <= lives'[n]
<1>1. ASSUME UNCHANGED <<scene, job, tries, stalls, lives, answered, broken>> PROVE Kept
  BY <1>1, WorkKept
<1>2. ASSUME NEW m \in Message, Add(m) \/ UNCHANGED work, UNCHANGED <<scene, answered, broken>>
      PROVE  Kept
  BY <1>1, <1>2, JobAdded DEF work
<1>3. ASSUME NEW r \in Request, Deliver(r) \/ CreateRow(r) \/ FindRow(r) \/ Reclaim(r) \/ Screen(r)
        \/ DropItem(r) \/ MarkFailed(r) \/ MarkQueued(r) \/ Respond(r) \/ RequestLost(r)
        \/ DatabaseFails(r)
      PROVE  Kept
  BY <1>1, <1>3 DEF Deliver, CreateRow, FindRow, Reclaim, Screen, DropItem, MarkFailed, MarkQueued,
    Respond, RequestLost, DatabaseFails, work, book
<1>4. ASSUME NEW r \in Request, Enqueue(r) \/ EnqueueFails(r) PROVE Kept
  <2>1. At(r) \in Message
    BY AtIsMessage
  <2> QED
    BY <1>2, <1>4, <2>1 DEF Enqueue, EnqueueFails, book
<1>5. ASSUME NEW m \in Message, JobStep(m) \/ WorkerStops(m) \/ RemoveJob(m) PROVE Kept
  <2>1. \A n \in Message : lives[n] <= lives[n]
    BY DEF Types, WorkTypes
  <2> QED
    BY <1>5, <2>1, WorkerKeeps
<1>6. ASSUME NEW m \in Message, NEW l \in Life, ReplayStep(m, l) PROVE Kept
  <2>1. CASE CheckReplay(m, l) \/ SaveReplayed(m, l) \/ Discard(m, l)
    BY <1>1, <2>1 DEF CheckReplay, SaveReplayed, Discard, work, book
  <2>2. CASE EnqueueReplay(m, l) \/ ReplayFails(m, l)
    BY <1>2, <2>2 DEF EnqueueReplay, ReplayFails, book
  <2> QED
    BY <1>6, <2>1, <2>2 DEF ReplayStep
<1>7. CASE UNCHANGED vars
  BY <1>1, <1>7 DEF vars, work, book
<1> QED
  BY <1>3, <1>4, <1>5, <1>6, <1>7 DEF Next, RequestStep

\* A write to one dead letter, or to one replay.
LEMMA EntryWritten ==
  ASSUME NEW S, NEW f \in [Message -> [Life -> S]], NEW m \in Message, NEW l, NEW v \in S
  PROVE  [f EXCEPT ![m][l] = v] \in [Message -> [Life -> S]]
<1>1. [f[m] EXCEPT ![l] = v] \in [Life -> S]
  OBVIOUS
<1> QED
  BY <1>1

\* Every step keeps the other types.
LEMMA TypesStep ==
  ASSUME Types, [Next]_vars
  PROVE  row' \in [Message -> RowStatus] /\ RequestTypes' /\ DlqTypes' /\ BoundTypes' /\ BookTypes'
<1> DEFINE Typed == /\ row' \in [Message -> RowStatus]
                    /\ RequestTypes' /\ DlqTypes' /\ BoundTypes' /\ BookTypes'
<1>0. /\ scene.faults \in Nat /\ scene.outages \in Nat
      /\ Fault => faults' \in 0 .. scene.faults
      /\ Outage => outages' \in 0 .. scene.outages
      /\ \A r \in Request : At(r) \in Message
  BY SceneFacts, AtIsMessage DEF Types, BoundTypes, Fault, Outage
<1>1. ASSUME UNCHANGED <<scene, row, pc, item, retry, accepted, letter, replay>>, BoundTypes', BookTypes'
      PROVE  Typed
  BY <1>1 DEF Types, RequestTypes, DlqTypes
<1>2. ASSUME NEW r \in Request,
             Deliver(r) \/ CreateRow(r) \/ FindRow(r) \/ Reclaim(r) \/ Screen(r) \/ DropItem(r)
               \/ MarkFailed(r) \/ MarkQueued(r) \/ Enqueue(r) \/ EnqueueFails(r) \/ DatabaseFails(r)
      PROVE  Typed
  <2>1. UNCHANGED scene /\ UNCHANGED <<letter, replay>>
    BY <1>2 DEF Deliver, CreateRow, FindRow, Reclaim, Screen, DropItem, MarkFailed, MarkQueued,
      Enqueue, EnqueueFails, DatabaseFails, dlq
  <2>2. \/ \E next \in {"create", "find", "reclaim", "screen", "release", "enqueue", "fail",
                        "mark", "respond"} : Goto(r, next)
        \/ \E retryable \in BOOLEAN : Finish(r, retryable)
    BY <1>2 DEF Deliver, CreateRow, FindRow, Reclaim, Screen, DropItem, MarkFailed, MarkQueued,
      Enqueue, EnqueueFails, DatabaseFails, Retryable
  <2>3. RequestTypes'
    BY <2>1, <2>2, RequestGoes
  <2>4. row' \in [Message -> RowStatus]
    BY <1>0, <1>2 DEF Deliver, CreateRow, FindRow, Reclaim, Screen, DropItem, MarkFailed, MarkQueued,
      Enqueue, EnqueueFails, DatabaseFails, RowFrom, ReleaseClaim, FailRow, QueueRow, Types, RowStatus
  <2>5. BoundTypes'
    BY <1>0, <1>2 DEF Deliver, CreateRow, FindRow, Reclaim, Screen, DropItem, MarkFailed, MarkQueued,
      Enqueue, EnqueueFails, DatabaseFails, bounds, Types, BoundTypes
  <2>6. BookTypes'
    BY <1>0, <1>2 DEF Deliver, CreateRow, FindRow, Reclaim, Screen, DropItem, MarkFailed, MarkQueued,
      Enqueue, EnqueueFails, DatabaseFails, book, Types, BookTypes
  <2> QED
    BY <2>1, <2>3, <2>4, <2>5, <2>6 DEF Types, DlqTypes
<1>3. ASSUME NEW r \in Request, Respond(r) \/ RequestLost(r) PROVE Typed
  <2>1. 1 \in 1 .. Len(scene.batch)
    BY SceneFacts DEF Types
  <2>2. RequestTypes'
    BY <1>3, <2>1 DEF Respond, RequestLost, Answers200, Types, RequestTypes
  <2> QED
    BY <1>0, <1>3, <2>2
    DEF Respond, RequestLost, dlq, bounds, book, Types, DlqTypes, BoundTypes, BookTypes
<1>4. ASSUME NEW m \in Message, JobStep(m) \/ WorkerStops(m) \/ RemoveJob(m) PROVE Typed
  <2>1. UNCHANGED <<scene, pc, item, retry, accepted, replay>>
    BY <1>4 DEF JobStep, DropStale, StartJob, ProcessMessage, CompleteJob, FailAttempt,
      MoveToDeadLetters, WorkerStops, RemoveJob, request, dlq
  <2>2. row' \in [Message -> RowStatus]
    BY <1>4 DEF JobStep, DropStale, StartJob, ProcessMessage, CompleteJob, FailAttempt,
      MoveToDeadLetters, WorkerStops, RemoveJob, Types, RowStatus
  <2>3. letter' \in [Message -> [Life -> {"none", "pending", "replayed", "discarded"}]]
    <3>1. letter' = letter \/ letter' = [letter EXCEPT ![m][lives[m]] = "pending"]
      BY <1>4 DEF JobStep, DropStale, StartJob, ProcessMessage, CompleteJob, FailAttempt,
        MoveToDeadLetters, WorkerStops, RemoveJob, dlq
    <3>2. letter \in [Message -> [Life -> {"none", "pending", "replayed", "discarded"}]]
      BY DEF Types, DlqTypes
    <3>3. [letter EXCEPT ![m][lives[m]] = "pending"]
            \in [Message -> [Life -> {"none", "pending", "replayed", "discarded"}]]
      BY <3>2, EntryWritten
    <3> QED
      BY <3>1, <3>2, <3>3
  <2>4. BoundTypes'
    BY <1>0, <1>4 DEF JobStep, DropStale, StartJob, ProcessMessage, CompleteJob, FailAttempt,
      MoveToDeadLetters, WorkerStops, RemoveJob, bounds, Types, BoundTypes
  <2>5. BookTypes'
    BY <1>4 DEF JobStep, DropStale, StartJob, ProcessMessage, CompleteJob, FailAttempt,
      MoveToDeadLetters, WorkerStops, RemoveJob, Count, book, Types, BookTypes, Tally
  <2> QED
    BY <2>1, <2>2, <2>3, <2>4, <2>5 DEF Types, RequestTypes, DlqTypes
<1>5. ASSUME NEW m \in Message, NEW l \in Life, ReplayStep(m, l) PROVE Typed
  <2>1. UNCHANGED <<scene, row, pc, item, retry, accepted, settled, beaten, answered, broken>>
    BY <1>5 DEF ReplayStep, CheckReplay, EnqueueReplay, ReplayFails, SaveReplayed, Discard, request,
      book
  <2>2. DlqTypes'
    <3>1. /\ letter \in [Message -> [Life -> {"none", "pending", "replayed", "discarded"}]]
          /\ replay \in [Message -> [Life -> {"none", "enqueue", "save"}]]
      BY DEF Types, DlqTypes
    <3>2. \/ letter' = letter
          \/ \E v \in {"replayed", "discarded"} : letter' = [letter EXCEPT ![m][l] = v]
      BY <1>5 DEF ReplayStep, CheckReplay, EnqueueReplay, ReplayFails, SaveReplayed, Discard,
        WriteLetter
    <3>3. \/ replay' = replay
          \/ \E v \in {"none", "enqueue", "save"} : replay' = [replay EXCEPT ![m][l] = v]
      BY <1>5 DEF ReplayStep, CheckReplay, EnqueueReplay, ReplayFails, SaveReplayed, Discard, Stage
    <3>4. letter' \in [Message -> [Life -> {"none", "pending", "replayed", "discarded"}]]
      <4>1. \A v \in {"replayed", "discarded"} : [letter EXCEPT ![m][l] = v]
              \in [Message -> [Life -> {"none", "pending", "replayed", "discarded"}]]
        BY <3>1, EntryWritten
      <4> QED
        BY <3>1, <3>2, <4>1
    <3>5. replay' \in [Message -> [Life -> {"none", "enqueue", "save"}]]
      <4>1. \A v \in {"none", "enqueue", "save"} : [replay EXCEPT ![m][l] = v]
              \in [Message -> [Life -> {"none", "enqueue", "save"}]]
        BY <3>1, EntryWritten
      <4> QED
        BY <3>1, <3>3, <4>1
    <3> QED
      BY <3>4, <3>5 DEF DlqTypes
  <2>3. BoundTypes'
    BY <1>0, <1>5 DEF ReplayStep, CheckReplay, EnqueueReplay, ReplayFails, SaveReplayed, Discard,
      bounds, Types, BoundTypes
  <2> QED
    BY <2>1, <2>2, <2>3 DEF Types, RequestTypes, BookTypes
<1>6. CASE UNCHANGED vars
  BY <1>1, <1>6 DEF vars, request, dlq, bounds, book, Types, BoundTypes, BookTypes
<1> QED
  BY <1>2, <1>3, <1>4, <1>5, <1>6 DEF Next, RequestStep
-----------------------------------------------------------------------------
(* What is known of the messages *)

\* Nothing that was done for a message is undone.
Grows ==
  /\ UNCHANGED scene
  /\ \A m \in Message : lives[m] <= lives'[m] /\ (row[m] # "none" => row'[m] # "none")
  /\ settled \subseteq settled' /\ beaten \subseteq beaten'

LEMMA KnownGrows ==
  ASSUME Types, Types', Grows, NEW m \in Message, Known(m)
  PROVE  Known(m)'
<1>1. lives[m] \in Nat /\ lives'[m] \in Nat /\ lives[m] <= lives'[m]
  BY DEF Types, WorkTypes, Grows
<1>2. lives[m] > 0 => lives'[m] > 0
  BY <1>1
<1> QED
  BY <1>2 DEF Known, Grows

\* Every step keeps the types and only adds to what is known.
LEMMA GrowsStep ==
  ASSUME Types, JobsFit, AnswersCounted, [Next]_vars
  PROVE  Types' /\ Grows
<1>1. Types'
  BY QueueStep, TypesStep DEF Types
<1>2. settled \subseteq settled' /\ beaten \subseteq beaten'
  BY DEF Next, vars, book, Deliver, RequestStep, CreateRow, FindRow, Reclaim, Screen, DropItem, Enqueue,
    MarkFailed, MarkQueued, Respond, EnqueueFails, RequestLost, DatabaseFails, JobStep, DropStale,
    StartJob, ProcessMessage, CompleteJob, FailAttempt, MoveToDeadLetters, WorkerStops, RemoveJob,
    ReplayStep, CheckReplay, EnqueueReplay, ReplayFails, SaveReplayed, Discard
<1>3. \A m \in Message : row[m] # "none" => row'[m] # "none"
  <2>1. \/ UNCHANGED row
        \/ \E m \in Message, s \in RowStatus \ {"none"} : row' = [row EXCEPT ![m] = s]
    BY AtIsMessage DEF Next, vars, Deliver, RequestStep, CreateRow, FindRow, Reclaim, Screen, DropItem,
      Enqueue, MarkFailed, MarkQueued, Respond, EnqueueFails, RequestLost, DatabaseFails, JobStep,
      DropStale, StartJob, ProcessMessage, CompleteJob, FailAttempt, MoveToDeadLetters, WorkerStops,
      RemoveJob, ReplayStep, CheckReplay, EnqueueReplay, ReplayFails, SaveReplayed, Discard, RowFrom,
      ReleaseClaim, FailRow, QueueRow, RowStatus
  <2> QED
    BY <2>1 DEF Types
<1> QED
  BY <1>1, <1>2, <1>3, QueueStep DEF Grows

LEMMA HandledGrows ==
  ASSUME Types, Types', Grows, NEW i \in 1 .. Len(scene.batch), Handled(i)
  PROVE  Handled(i)'
<1>1. scene.batch[i] \in Message /\ Known(scene.batch[i])
  BY SceneFacts DEF Types, Handled
<1> DEFINE m == scene.batch[i]
<1>2. m' = m
  BY DEF Grows
<1>3. lives[m] \in Nat /\ lives'[m] \in Nat /\ lives[m] <= lives'[m]
  BY <1>1 DEF Types, WorkTypes, Grows
<1>4. lives[m] > 0 => lives'[m] > 0
  BY <1>3
<1>5. lives'[m] > 0 \/ m \in settled' \/ m \in beaten'
  BY <1>1, <1>4 DEF Known, Grows
<1> QED
  BY <1>2, <1>5 DEF Handled, Known

\* A request that waits keeps what it has dealt with.
LEMMA RequestWaits ==
  ASSUME Types, Types', Grows, NEW r \in Request, RequestFits(r),
         pc'[r] = pc[r], item'[r] = item[r], retry'[r] = retry[r]
  PROVE  RequestFits(r)'
<1>1. At(r)' = At(r) /\ At(r) \in Message /\ scene' = scene
  BY AtIsMessage DEF At, Grows
<1>2. \A i \in 1 .. Len(scene.batch) : Handled(i) => Handled(i)'
  BY HandledGrows
<1>3. lives[At(r)] > 0 => lives'[At(r)] > 0
  <2>1. lives[At(r)] \in Nat /\ lives'[At(r)] \in Nat /\ lives[At(r)] <= lives'[At(r)]
    BY <1>1 DEF Types, WorkTypes, Grows
  <2> QED
    BY <2>1
<1>4. (pc[r] \in {"idle", "respond"} => item[r] = 1)'
  BY DEF RequestFits
<1>5. (pc[r] = "mark" => lives[At(r)] > 0)'
  BY <1>1, <1>3 DEF RequestFits
<1>6. (pc[r] = "release" => At(r) \in settled)'
  BY <1>1 DEF RequestFits, Grows
<1>7. (pc[r] = "find" => row[At(r)] # "none")'
  BY <1>1 DEF RequestFits, Grows
<1>8. (~retry[r] => \A i \in 1 .. Len(scene.batch) :
         pc[r] = "respond" \/ i < item[r] => Handled(i))'
  BY <1>1, <1>2 DEF RequestFits
<1> QED
  BY <1>4, <1>5, <1>6, <1>7, <1>8 DEF RequestFits

\* A request goes on within its item.
LEMMA RequestGoesOn ==
  ASSUME Types, Types', Grows, NEW r \in Request, RequestFits(r), pc[r] # "respond",
         NEW next \in {"create", "find", "reclaim", "screen", "release", "enqueue", "fail", "mark"},
         Goto(r, next),
         next = "mark" => lives'[At(r)] > 0,
         next = "release" => At(r) \in settled',
         next = "find" => row'[At(r)] # "none"
  PROVE  RequestsFit => RequestsFit'
<1>1. /\ pc'[r] = next /\ item' = item /\ retry' = retry
      /\ \A q \in Request : q # r => pc'[q] = pc[q]
  BY DEF Goto, Types, RequestTypes
<1>2. At(r)' = At(r) /\ scene' = scene
  BY <1>1 DEF At, Grows
<1>3. \A i \in 1 .. Len(scene.batch) : Handled(i) => Handled(i)'
  BY HandledGrows
<1>4. (pc[r] = "mark" => lives[At(r)] > 0)'
  BY <1>1, <1>2
<1>5. (pc[r] = "release" => At(r) \in settled)'
  BY <1>1, <1>2
<1>6. (pc[r] = "find" => row[At(r)] # "none")'
  BY <1>1, <1>2
<1>7. (~retry[r] => \A i \in 1 .. Len(scene.batch) :
         pc[r] = "respond" \/ i < item[r] => Handled(i))'
  BY <1>1, <1>2, <1>3 DEF RequestFits
<1>8. RequestFits(r)'
  BY <1>1, <1>4, <1>5, <1>6, <1>7 DEF RequestFits
<1>9. ASSUME RequestsFit, NEW q \in Request, q # r PROVE RequestFits(q)'
  BY <1>1, <1>9, RequestWaits DEF RequestsFit
<1> QED
  BY <1>8, <1>9 DEF RequestsFit

\* A request finishes its item: it will answer 503, or the item is dealt with.
LEMMA RequestFinishes ==
  ASSUME Types, Types', Grows, NEW r \in Request, RequestFits(r), pc[r] # "respond",
         NEW retryable \in BOOLEAN, Finish(r, retryable),
         retryable \/ lives'[At(r)] > 0 \/ At(r) \in settled' \/ At(r) \in beaten'
  PROVE  RequestsFit => RequestsFit'
<1> DEFINE n == Len(scene.batch)
<1>1. /\ pc'[r] = IF item[r] < n THEN "create" ELSE "respond"
      /\ item'[r] = IF item[r] < n THEN item[r] + 1 ELSE 1
      /\ retry'[r] = (retry[r] \/ retryable)
      /\ \A q \in Request : q # r => pc'[q] = pc[q] /\ item'[q] = item[q] /\ retry'[q] = retry[q]
  BY DEF Finish, Types, RequestTypes
<1>2. item[r] \in 1 .. n /\ n \in Nat \ {0} /\ scene' = scene
  BY AtIsMessage, SceneFacts DEF Types, Grows
<1>3. \A i \in 1 .. n : Handled(i) => Handled(i)'
  BY HandledGrows
<1>4. (~retry[r] => \A i \in 1 .. n : pc[r] = "respond" \/ i < item[r] => Handled(i))'
  <2>1. SUFFICES ASSUME ~retry'[r], NEW i \in 1 .. n, pc'[r] = "respond" \/ i < item'[r]
                 PROVE  Handled(i)'
    BY <1>2
  <2>2. ~retry[r] /\ ~retryable
    BY <1>1, <2>1
  <2>3. i < item[r] \/ i = item[r]
    BY <1>1, <1>2, <2>1
  <2>4. CASE i < item[r]
    BY <1>3, <2>2, <2>4 DEF RequestFits
  <2>5. CASE i = item[r]
    BY <1>2, <2>2, <2>5 DEF Handled, Known, At
  <2> QED
    BY <2>3, <2>4, <2>5
<1>5. RequestFits(r)'
  BY <1>1, <1>2, <1>4 DEF RequestFits
<1>6. ASSUME RequestsFit, NEW q \in Request, q # r PROVE RequestFits(q)'
  BY <1>1, <1>6, RequestWaits DEF RequestsFit
<1> QED
  BY <1>5, <1>6 DEF RequestsFit

\* Nobody's request moves.
LEMMA RequestsWait ==
  ASSUME Types, Types', Grows, RequestsFit, UNCHANGED <<pc, item, retry>>
  PROVE  RequestsFit'
BY RequestWaits DEF RequestsFit

\* A row that no step marks as dealt with keeps what is known.
LEMMA RowsKept ==
  ASSUME Types, Types', Grows, RowsKnown,
         \A m \in Message : \/ row'[m] = row[m]
                            \/ row'[m] \in {"claiming", "failed"}
                            \/ Known(m)'
  PROVE  RowsKnown'
<1>1. ASSUME NEW m \in Message, row'[m] \in {"queued", "processing", "completed"}
      PROVE  Known(m)'
  <2>1. CASE row'[m] = row[m]
    BY <1>1, <2>1, KnownGrows DEF RowsKnown
  <2> QED
    BY <1>1, <2>1
<1> QED
  BY <1>1 DEF RowsKnown

\* Every step leaves the requests and the rows consistent with what is known.
LEMMA WebhookStep ==
  ASSUME Types, Types', Grows, JobsFit, RowsKnown, RequestsFit, NEW r \in Request,
         Deliver(r) \/ RequestStep(r) \/ EnqueueFails(r) \/ RequestLost(r) \/ DatabaseFails(r)
  PROVE  RowsKnown' /\ RequestsFit'
<1>0. /\ At(r) \in Message /\ RequestFits(r)
      /\ row \in [Message -> RowStatus] /\ job \in [Message -> JobPlace]
      /\ pc \in [Request -> {"idle", "create", "find", "reclaim", "screen", "release",
                             "enqueue", "fail", "mark", "respond"}]
  BY AtIsMessage DEF RequestsFit, Types, RequestTypes, WorkTypes
<1>1. ASSUME UNCHANGED row PROVE RowsKnown'
  BY <1>1, RowsKept
<1>2. CASE Deliver(r)
  <2>1. RequestsFit'
    BY <1>0, <1>2, RequestGoesOn DEF Deliver
  <2> QED
    BY <1>1, <1>2, <2>1 DEF Deliver
<1>3. CASE CreateRow(r)
  <2>1. CASE row[At(r)] = "none"
    <3>1. row' = [row EXCEPT ![At(r)] = "claiming"] /\ Goto(r, "screen") /\ pc[r] = "create"
      BY <1>3, <2>1 DEF CreateRow
    <3>2. RequestsFit'
      BY <1>0, <3>1, RequestGoesOn
    <3>3. \A m \in Message : row'[m] = row[m] \/ row'[m] = "claiming"
      BY <1>0, <3>1
    <3> QED
      BY <3>2, <3>3, RowsKept
  <2>2. CASE row[At(r)] # "none"
    <3>1. UNCHANGED row /\ Goto(r, "find") /\ pc[r] = "create"
      BY <1>3, <2>2 DEF CreateRow
    <3>2. RequestsFit'
      BY <1>0, <2>2, <3>1, RequestGoesOn
    <3> QED
      BY <1>1, <3>1, <3>2
  <2> QED
    BY <2>1, <2>2
<1>4. CASE FindRow(r)
  <2>1. UNCHANGED row /\ pc[r] = "find" /\ row[At(r)] # "none"
    BY <1>0, <1>4 DEF FindRow, RequestFits
  <2>2. CASE row[At(r)] = "failed"
    <3>1. Goto(r, "reclaim")
      BY <1>4, <2>2 DEF FindRow
    <3>2. RequestsFit'
      BY <1>0, <2>1, <3>1, RequestGoesOn
    <3> QED
      BY <1>1, <2>1, <3>2
  <2>3. CASE row[At(r)] = "claiming"
    <3>1. Finish(r, TRUE)
      BY <1>4, <2>3 DEF FindRow, Retryable
    <3>2. RequestsFit'
      BY <1>0, <2>1, <3>1, RequestFinishes
    <3> QED
      BY <1>1, <2>1, <3>2
  <2>4. CASE row[At(r)] \in {"queued", "processing", "completed"}
    <3>1. Finish(r, FALSE)
      BY <1>4, <2>4 DEF FindRow, Retryable
    <3>2. Known(At(r))
      BY <1>0, <2>4 DEF RowsKnown
    <3>3. lives'[At(r)] > 0 \/ At(r) \in settled' \/ At(r) \in beaten'
      <4>1. lives[At(r)] \in Nat /\ lives'[At(r)] \in Nat /\ lives[At(r)] <= lives'[At(r)]
        BY <1>0 DEF Types, WorkTypes, Grows
      <4>2. lives[At(r)] > 0 => lives'[At(r)] > 0
        BY <4>1
      <4> QED
        BY <3>2, <4>2 DEF Known, Grows
    <3>4. RequestsFit'
      BY <1>0, <2>1, <3>1, <3>3, RequestFinishes
    <3> QED
      BY <1>1, <2>1, <3>4
  <2> QED
    BY <1>0, <2>1, <2>2, <2>3, <2>4 DEF RowStatus
<1>5. CASE Reclaim(r)
  <2>1. pc[r] = "reclaim"
    BY <1>5 DEF Reclaim
  <2>2. CASE row[At(r)] = "failed"
    <3>1. row' = [row EXCEPT ![At(r)] = "claiming"] /\ Goto(r, "screen")
      BY <1>5, <2>2 DEF Reclaim, RowFrom
    <3>2. RequestsFit'
      BY <1>0, <2>1, <3>1, RequestGoesOn
    <3>3. \A m \in Message : row'[m] = row[m] \/ row'[m] = "claiming"
      BY <1>0, <3>1
    <3> QED
      BY <3>2, <3>3, RowsKept
  <2>3. CASE row[At(r)] # "failed"
    <3>1. UNCHANGED row /\ Finish(r, FALSE) /\ At(r) \in beaten'
      BY <1>5, <2>3 DEF Reclaim, RowFrom
    <3>2. RequestsFit'
      BY <1>0, <2>1, <3>1, RequestFinishes
    <3> QED
      BY <1>1, <3>1, <3>2
  <2> QED
    BY <2>2, <2>3
<1>6. CASE Screen(r)
  <2>1. pc[r] = "screen" /\ UNCHANGED row
    BY <1>6 DEF Screen
  <2>2. CASE Goto(r, "enqueue")
    BY <1>0, <1>1, <2>1, <2>2, RequestGoesOn
  <2>3. CASE Goto(r, "release") /\ settled' = settled \cup {At(r)}
    <3>1. At(r) \in settled'
      BY <2>3
    <3> QED
      BY <1>0, <1>1, <2>1, <2>3, <3>1, RequestGoesOn
  <2> QED
    BY <1>6, <2>2, <2>3 DEF Screen
<1>7. CASE DropItem(r)
  <2>1. /\ pc[r] = "release" /\ Finish(r, FALSE) /\ At(r) \in settled'
        /\ row' = row \/ row' = [row EXCEPT ![At(r)] = "queued"]
    BY <1>0, <1>7 DEF DropItem, ReleaseClaim, RowFrom, RequestFits, Grows
  <2>2. RequestsFit'
    BY <1>0, <2>1, RequestFinishes
  <2>3. \A m \in Message : row'[m] = row[m] \/ m \in settled'
    BY <1>0, <2>1
  <2>4. RowsKnown'
    BY <2>3, RowsKept DEF Known
  <2> QED
    BY <2>2, <2>4
<1>8. CASE Enqueue(r) \/ EnqueueFails(r)
  <2>1. pc[r] = "enqueue" /\ UNCHANGED row
    BY <1>8 DEF Enqueue, EnqueueFails
  <2>2. CASE Enqueue(r)
    <3>1. Goto(r, "mark") /\ Add(At(r))
      BY <2>2 DEF Enqueue
    <3>2. lives'[At(r)] > 0
      <4>1. lives \in [Message -> Nat]
        BY SceneFacts DEF Types, WorkTypes
      <4>2. CASE job[At(r)] = "none"
        <5>1. lives' = [lives EXCEPT ![At(r)] = @ + 1]
          BY <3>1, <4>2 DEF Add, Count
        <5> QED
          BY <1>0, <4>1, <5>1
      <4>3. CASE job[At(r)] # "none"
        BY <1>0, <3>1, <4>3 DEF Add, work, JobsFit, JobFits
      <4> QED
        BY <4>2, <4>3
    <3>3. RequestsFit'
      BY <1>0, <2>1, <3>1, <3>2, RequestGoesOn
    <3> QED
      BY <1>1, <2>1, <3>3
  <2>3. CASE EnqueueFails(r)
    <3>1. Goto(r, "fail")
      BY <2>3 DEF EnqueueFails
    <3>2. RequestsFit'
      BY <1>0, <2>1, <3>1, RequestGoesOn
    <3> QED
      BY <1>1, <2>1, <3>2
  <2> QED
    BY <1>8, <2>2, <2>3
<1>9. CASE MarkFailed(r)
  <2>1. /\ pc[r] = "fail" /\ Finish(r, TRUE)
        /\ row' = row \/ row' = [row EXCEPT ![At(r)] = "failed"]
    BY <1>9 DEF MarkFailed, FailRow, RowFrom
  <2>2. RequestsFit'
    BY <1>0, <2>1, RequestFinishes
  <2>3. \A m \in Message : row'[m] = row[m] \/ row'[m] = "failed"
    BY <1>0, <2>1
  <2> QED
    BY <2>2, <2>3, RowsKept
<1>10. CASE MarkQueued(r)
  <2>1. /\ pc[r] = "mark" /\ Finish(r, FALSE) /\ lives'[At(r)] > 0
        /\ row' = row \/ row' = [row EXCEPT ![At(r)] = "queued"]
    BY <1>0, <1>10 DEF MarkQueued, QueueRow, RowFrom, RequestFits, work
  <2>2. RequestsFit'
    BY <1>0, <2>1, RequestFinishes
  <2>3. \A m \in Message : row'[m] = row[m] \/ lives'[m] > 0
    BY <1>0, <2>1
  <2>4. RowsKnown'
    BY <2>3, RowsKept DEF Known
  <2> QED
    BY <2>2, <2>4
<1>11. CASE Respond(r) \/ RequestLost(r)
  <2>1. /\ pc' = [pc EXCEPT ![r] = "idle"] /\ retry' = [retry EXCEPT ![r] = FALSE]
        /\ item'[r] = 1 /\ UNCHANGED row
        /\ \A q \in Request : q # r => item'[q] = item[q]
    BY <1>0, <1>11 DEF Respond, RequestLost, RequestFits, Types, RequestTypes
  <2>2. RequestFits(r)'
    <3>1. pc'[r] = "idle" /\ item'[r] = 1
      BY <1>0, <2>1
    <3>2. \A i \in 1 .. Len(scene'.batch) : ~(i < item'[r])
      BY <3>1
    <3> QED
      BY <3>1, <3>2 DEF RequestFits
  <2>3. ASSUME NEW q \in Request, q # r PROVE RequestFits(q)'
    <3>1. pc'[q] = pc[q] /\ item'[q] = item[q] /\ retry'[q] = retry[q] /\ RequestFits(q)
      BY <2>1, <2>3 DEF RequestsFit, Types, RequestTypes
    <3> QED
      BY <3>1, RequestWaits
  <2> QED
    BY <1>1, <2>1, <2>2, <2>3 DEF RequestsFit
<1>12. CASE DatabaseFails(r)
  <2>1. /\ pc[r] # "respond" /\ UNCHANGED row
        /\ \E retryable \in BOOLEAN :
             /\ Finish(r, retryable)
             /\ retryable \/ At(r) \in settled'
    BY <1>0, <1>12 DEF DatabaseFails, RequestFits, Grows
  <2>2. RequestsFit'
    BY <1>0, <2>1, RequestFinishes
  <2> QED
    BY <1>1, <2>1, <2>2
<1> QED
  BY <1>2, <1>3, <1>4, <1>5, <1>6, <1>7, <1>8, <1>9, <1>10, <1>11, <1>12 DEF RequestStep

\* So does every step of the worker, of the queue and of the operator.
LEMMA WorkerStep ==
  ASSUME Types, Types', Grows, JobsFit, RowsKnown, RequestsFit, NEW m \in Message,
         JobStep(m) \/ WorkerStops(m) \/ RemoveJob(m)
  PROVE  RowsKnown' /\ RequestsFit'
<1>1. UNCHANGED request /\ UNCHANGED lives
  BY DEF JobStep, DropStale, StartJob, ProcessMessage, CompleteJob, FailAttempt, MoveToDeadLetters,
    WorkerStops, RemoveJob
<1>2. RequestsFit'
  BY <1>1, RequestsWait DEF request
<1>3. \/ UNCHANGED row
      \/ job[m] # "none" /\ \E s \in {"processing", "completed"} : row' = [row EXCEPT ![m] = s]
  BY DEF JobStep, DropStale, StartJob, ProcessMessage, CompleteJob, FailAttempt, MoveToDeadLetters,
    WorkerStops, RemoveJob, Walks
<1>4. job[m] # "none" => lives'[m] > 0
  BY <1>1 DEF JobsFit, JobFits
<1>5. \A n \in Message : row'[n] = row[n] \/ lives'[n] > 0
  BY <1>3, <1>4 DEF Types
<1>6. RowsKnown'
  BY <1>5, RowsKept DEF Known
<1> QED
  BY <1>2, <1>6

LEMMA OperatorStep ==
  ASSUME Types, Types', Grows, RowsKnown, RequestsFit, NEW m \in Message, NEW l \in Life,
         ReplayStep(m, l)
  PROVE  RowsKnown' /\ RequestsFit'
<1>1. UNCHANGED <<row, request>>
  BY DEF ReplayStep, CheckReplay, EnqueueReplay, ReplayFails, SaveReplayed, Discard
<1> QED
  BY <1>1, RequestsWait, RowsKept DEF request

\* Meta is told 200 only by a request that has nothing to retry.
LEMMA AcceptedStep ==
  ASSUME Types, Types', Grows, RequestsFit, AcceptedMeansQueued, [Next]_vars
  PROVE  AcceptedMeansQueued'
<1>1. ASSUME NEW i \in 1 .. Len(scene.batch), accepted' PROVE Handled(i)'
  <2>1. CASE accepted
    <3>1. scene.batch[i] \in InBatch
      BY SceneFacts DEF InBatch, Types, Scenes
    <3>2. Handled(i)
      BY <2>1, <3>1 DEF AcceptedMeansQueued, Handled, Known
    <3> QED
      BY <3>2, HandledGrows
  <2>2. CASE ~accepted
    <3>1. PICK r \in Request : Respond(r) /\ ~retry[r]
      BY <1>1, <2>2 DEF Next, vars, request, Deliver, RequestStep, CreateRow, FindRow, Reclaim, Screen,
        DropItem, Enqueue, MarkFailed, MarkQueued, Respond, EnqueueFails, RequestLost, DatabaseFails,
        Goto, Finish, JobStep, DropStale, StartJob, ProcessMessage, CompleteJob, FailAttempt,
        MoveToDeadLetters, WorkerStops, RemoveJob, ReplayStep, CheckReplay, EnqueueReplay, ReplayFails,
        SaveReplayed, Discard, Answers200
    <3>2. Handled(i)
      BY <3>1 DEF Respond, RequestsFit, RequestFits
    <3> QED
      BY <3>2, HandledGrows
  <2> QED
    BY <2>1, <2>2
<1>2. ASSUME accepted', NEW m \in InBatch' PROVE lives'[m] > 0 \/ m \in settled' \/ m \in beaten'
  <2>1. PICK i \in DOMAIN scene.batch : m = scene.batch[i]
    BY DEF InBatch, Grows
  <2>2. i \in 1 .. Len(scene.batch)
    BY <2>1, Scenes DEF Types
  <2>3. Handled(i)'
    BY <1>1, <1>2, <2>2
  <2> QED
    BY <2>1, <2>3 DEF Handled, Known, Grows
<1> QED
  BY <1>2 DEF AcceptedMeansQueued
-----------------------------------------------------------------------------
(* The invariant, and what follows from it *)

LEMMA InvInit == Init => IInv
<1> SUFFICES ASSUME Init PROVE IInv
  OBVIOUS
<1>1. scene \in Scene
  BY DEF Init
<1>2. /\ Len(scene.batch) \in Nat \ {0} /\ scene.attempts \in Nat \ {0}
      /\ scene.faults \in Nat /\ scene.outages \in Nat
      /\ scene.removals \in 0 .. MaxRemovals /\ MaxRemovals \in Nat
  BY <1>1, SceneFacts
<1>3. Types
  <2>1. row \in [Message -> RowStatus] /\ BoundTypes
    BY <1>2 DEF Init, RowStatus, BoundTypes
  <2>2. RequestTypes
    <3>1. item \in [Request -> 1 .. Len(scene.batch)]
      BY <1>2 DEF Init
    <3>2. retry \in [Request -> BOOLEAN] /\ accepted \in BOOLEAN
      BY DEF Init
    <3> QED
      BY <3>1, <3>2 DEF Init, RequestTypes
  <2>3. WorkTypes
    BY <1>2 DEF Init, WorkTypes, JobPlace
  <2>4. DlqTypes
    BY DEF Init, DlqTypes
  <2>5. BookTypes
    BY DEF Init, BookTypes, Tally
  <2> QED
    BY <1>1, <2>1, <2>2, <2>3, <2>4, <2>5 DEF Types
<1>4. JobsFit /\ AnswersCounted
  BY <1>2 DEF Init, JobsFit, JobFits, AnswersCounted, Due
<1>5. RowsKnown /\ RequestsFit /\ AcceptedMeansQueued
  BY <1>2 DEF Init, RowsKnown, RequestsFit, RequestFits, AcceptedMeansQueued
<1> QED
  BY <1>3, <1>4, <1>5, TypesAreTypeOK DEF IInv

LEMMA InvStep == IInv /\ [Next]_vars => IInv'
<1> SUFFICES ASSUME IInv, [Next]_vars PROVE IInv'
  OBVIOUS
<1>1. Types /\ JobsFit /\ AnswersCounted /\ RowsKnown /\ RequestsFit /\ AcceptedMeansQueued
  BY TypesAreTypeOK DEF IInv
<1>2. Types' /\ Grows /\ JobsFit' /\ AnswersCounted'
  BY <1>1, GrowsStep, QueueStep
<1>3. AcceptedMeansQueued'
  BY <1>1, <1>2, AcceptedStep
<1>4. RowsKnown' /\ RequestsFit'
  <2>1. CASE \E r \in Request : Deliver(r) \/ RequestStep(r) \/ EnqueueFails(r)
                                  \/ RequestLost(r) \/ DatabaseFails(r)
    BY <1>1, <1>2, <2>1, WebhookStep
  <2>2. CASE \E m \in Message : JobStep(m) \/ WorkerStops(m) \/ RemoveJob(m)
    BY <1>1, <1>2, <2>2, WorkerStep
  <2>3. CASE \E m \in Message, l \in Life : ReplayStep(m, l)
    BY <1>1, <1>2, <2>3, OperatorStep
  <2>4. CASE UNCHANGED vars
    BY <1>1, <1>2, <2>4, RequestsWait, RowsKept DEF vars, request
  <2> QED
    BY <2>1, <2>2, <2>3, <2>4 DEF Next
<1>5. TypeOK'
  BY <1>2, TypesAreTypeOK, PTL
<1> QED
  BY <1>2, <1>3, <1>4, <1>5 DEF IInv

\* The inductive invariant, on which the rest relies.
THEOREM Invariance == Spec => []IInv
BY InvInit, InvStep, PTL DEF Spec

\* Every variable keeps its type; counters and bounds stay within their range.
THEOREM TypeCorrect == Spec => []TypeOK
<1>1. IInv => TypeOK
  BY DEF IInv
<1> QED
  BY <1>1, Invariance, PTL

\* When Meta is told 200 (webhook.controller.js) every message of its batch was put
\* in the queue or dropped on purpose, whichever requests, replays, crashes and
\* outages came between, unless two requests met at a failed row.
THEOREM AcceptedMeansQueuedAlways == Spec => []AcceptedMeansQueued
<1>1. IInv => AcceptedMeansQueued
  BY DEF IInv
<1> QED
  BY <1>1, Invariance, PTL

\* Retries, stalled workers and replays of dead letters process a message to its
\* end at most once for each time it was queued (whatsapp.jobs.js, dlq.service.js),
\* unless a worker stops between the processing and the job's completion.
THEOREM AnsweredAtMostOncePerLife == Spec => []AnsweredOncePerLife
<1>1. IInv => AnsweredOncePerLife
  <2> SUFFICES ASSUME IInv, NEW m \in Message PROVE answered[m] <= lives[m] + broken[m]
    BY DEF AnsweredOncePerLife
  <2>1. answered[m] + Due(m) <= lives[m] + broken[m]
    BY DEF IInv, AnswersCounted
  <2>2. /\ Due(m) \in Nat /\ answered[m] \in Nat /\ broken[m] \in Nat
        /\ lives[m] \in 0 .. (MaxRemovals + 1) /\ MaxRemovals \in Nat
    BY Scenes DEF IInv, TypeOK, Tally, Due
  <2> QED
    BY <2>1, <2>2
<1> QED
  BY <1>1, Invariance, PTL

\* Once an attempt has begun no webhook request, however late, puts the row back to
\* a claim, to failed or to queued (webhook.controller.js: each of its updates names
\* the status it expects).
THEOREM RowStaysWithItsWorker == Spec => WorkerOwnsTheRow
<1> DEFINE Owned == \A m \in Message : row[m] \in Started => row'[m] \in Started
<1>1. IInv /\ [Next]_vars => [Owned]_row
  <2> SUFFICES ASSUME IInv, [Next]_vars PROVE Owned
    OBVIOUS
  <2>1. Types
    BY TypesAreTypeOK DEF IInv
  <2>2. \/ UNCHANGED row
        \/ \E m \in Message : /\ row[m] \in {"none", "failed", "claiming"}
                              /\ \E s \in RowStatus : row' = [row EXCEPT ![m] = s]
        \/ \E m \in Message, s \in Started : row' = [row EXCEPT ![m] = s]
    BY <2>1, AtIsMessage DEF Next, vars, Deliver, RequestStep, CreateRow, FindRow, Reclaim, Screen,
      DropItem, Enqueue, MarkFailed, MarkQueued, Respond, EnqueueFails, RequestLost, DatabaseFails,
      JobStep, DropStale, StartJob, ProcessMessage, CompleteJob, FailAttempt, MoveToDeadLetters,
      WorkerStops, RemoveJob, ReplayStep, CheckReplay, EnqueueReplay, ReplayFails, SaveReplayed,
      Discard, RowFrom, ReleaseClaim, FailRow, QueueRow, RowStatus, Started
  <2> QED
    BY <2>1, <2>2 DEF Types, Started
<1>2. Spec => [][Owned]_row
  BY <1>1, Invariance, PTL DEF Spec
<1> QED
  BY <1>2 DEF WorkerOwnsTheRow
=============================================================================
