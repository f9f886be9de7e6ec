------------------------- MODULE SenderConversation -------------------------
(***************************************************************************)
(* The WhatsApp conversation of one customer.  Every message is a job of   *)
(* the inbound queue (jobs/whatsapp.jobs.js); the jobs of one sender pass  *)
(* an ordering gate, a cursor and a lock in Redis with a time limit        *)
(* (queues/ordering.service.js), and work on one pending send that a       *)
(* message requests, a "yes" or "no" and a PIN reply settle               *)
(* (whatsapp/assistant.service.js, whatsapp/pendingClaim.js).              *)
(***************************************************************************)
EXTENDS Naturals

CONSTANTS
  Message,     \* the customer's messages
  Script,      \* the conversations: what each message says and its timestamp
  MaxAttempts, \* attempts of a job before it goes to the dead letters
  MaxFaults,   \* bound: crashes and failed database calls
  MaxExpiries, \* bound: locks that run out under a live owner
  Orphan,      \* the owner of a lock whose job crashed
  None         \* no message, no pending send

Text == {"send", "risky", "yes", "no", "pin"}
Stamp == Nat \ {0}

ASSUME Scripted == Script \subseteq [Message -> [text : Text, stamp : Stamp]]
ASSUME Bounds == MaxAttempts \in Nat \ {0} /\ MaxFaults \in Nat /\ MaxExpiries \in Nat
ASSUME Names == None \notin Message /\ Orphan \notin Message /\ None # Orphan

VARIABLES
  said,     \* the conversation that takes place
  cursor,   \* the newest message completed, by provider timestamp
  lock,     \* the owner of the sender's lock
  pending,  \* user.pendingSend: the send, its step and the write it stems from
  lapsed,   \* writes of pendingSend up to this one are past expiresAt
  pc,       \* where each job is
  found,    \* the pendingSend resolveUser found
  snap,     \* the pendingSend the job works with
  tries,    \* failed attempts of each job
  faults,   \* crashes and failed database calls so far
  expiries, \* locks lost by a live owner so far
  writes,   \* pendingSends written so far
  asked,    \* how often each message's send became the pending one
  agreed,   \* how often a "yes" let a risky send go on
  closed,   \* how often a pending send was cancelled, lapsed or claimed in vain
  paid      \* how often the send of each message was paid

job == <<pc, found, snap, tries>>
gate == <<cursor, lock>>
bounds == <<faults, expiries>>
book == <<asked, agreed, closed, paid>>
vars == <<said, gate, pending, lapsed, job, bounds, writes, book>>

NoPending == [send |-> None, step |-> "none", write |-> 0]

Init ==
  /\ said \in Script
  /\ cursor = [stamp |-> 0, message |-> None]
  /\ lock = None
  /\ pending = NoPending
  /\ lapsed = 0
  /\ pc = [m \in Message |-> "queued"]
  /\ found = [m \in Message |-> NoPending]
  /\ snap = [m \in Message |-> NoPending]
  /\ tries = [m \in Message |-> 0]
  /\ faults = 0
  /\ expiries = 0
  /\ writes = 0
  /\ asked = [m \in Message |-> 0]
  /\ agreed = [m \in Message |-> 0]
  /\ closed = [m \in Message |-> 0]
  /\ paid = [m \in Message |-> 0]

Goto(m, next) == pc' = [pc EXCEPT ![m] = next]
\* A step of the job alone: what it read, its attempts and all else stay.
Walks(m, from, to) == pc[m] = from /\ Goto(m, to)
Count(tally, m) == [tally EXCEPT ![m] = @ + 1]
-----------------------------------------------------------------------------
(* The ordering gate *)

Stale(m) ==
  \/ said[m].stamp < cursor.stamp
  \/ said[m].stamp = cursor.stamp /\ m = cursor.message

\* evaluateOrdering reads the cursor first ...
ReadCursor(m) ==
  /\ Walks(m, "queued", IF Stale(m) THEN "dropped" ELSE "ordered")
  /\ UNCHANGED <<said, gate, pending, lapsed, found, snap, tries, bounds, writes, book>>

\* Mutation: SET without NX.
FreeAlways == TRUE
Free == lock = None

\* ... and then sets the lock unless it is held.
TryAcquire(m) ==
  /\ Free
  /\ Walks(m, "ordered", "resolve")
  /\ lock' = m
  /\ UNCHANGED <<said, cursor, pending, lapsed, found, snap, tries, bounds, writes, book>>

\* The job is delayed while another holds the lock; it asks again later.
Requeue(m) ==
  /\ ~Free
  /\ Walks(m, "ordered", "queued")
  /\ UNCHANGED <<said, gate, pending, lapsed, found, snap, tries, bounds, writes, book>>

Newest(m) == [stamp |-> said[m].stamp, message |-> m]

Advanced(m) == IF Stale(m) THEN cursor ELSE Newest(m)

\* advanceCursor compares and sets.
AdvanceCursor(m) ==
  /\ Walks(m, "advance", "release")
  /\ cursor' = Advanced(m)
  /\ UNCHANGED <<said, lock, pending, lapsed, found, snap, tries, bounds, writes, book>>

\* Mutation: the lock is released with another owner id than it was set with.
ReleasedByDefaultOwner(m) == lock

\* Only the owner deletes the lock.
ReleasedBy(m) == IF lock = m THEN None ELSE lock

\* The job is over: what it read is gone.
Forget(m) ==
  /\ found' = [found EXCEPT ![m] = NoPending]
  /\ snap' = [snap EXCEPT ![m] = NoPending]

Release(m) ==
  /\ Walks(m, "release", "done")
  /\ lock' = ReleasedBy(m)
  /\ Forget(m)
  /\ UNCHANGED <<said, cursor, pending, lapsed, tries, bounds, writes, book>>

Exhausted(attempts) == attempts >= MaxAttempts

\* The finally of an attempt that threw: the cursor stays, the job is retried.
ReleaseAndRetry(m) ==
  /\ pc[m] = "failed"
  /\ tries' = Count(tries, m)
  /\ Goto(m, IF Exhausted(tries'[m]) THEN "dead" ELSE "queued")
  /\ lock' = ReleasedBy(m)
  /\ Forget(m)
  /\ UNCHANGED <<said, cursor, pending, lapsed, bounds, writes, book>>
-----------------------------------------------------------------------------
(* processMessage; a reply that changes nothing leads on to the cursor *)

\* resolveUser reads the user ...
FindUser(m) ==
  /\ Walks(m, "resolve", "update")
  /\ found' = [found EXCEPT ![m] = pending]
  /\ UNCHANGED <<said, gate, pending, lapsed, snap, tries, bounds, writes, book>>

\* The branch handlePendingPin and processMessage take for a text.
Waits(p, step) == p.step = step /\ p.write > lapsed

Branch(text, p) ==
  IF p = NoPending
  THEN IF text \in {"send", "risky"} THEN "request" ELSE "advance"
  ELSE CASE text = "no"                                          -> "cancel"
         [] text # "no" /\ p.write <= lapsed                     -> "expire"
         [] Waits(p, "risk") /\ text = "yes"                     -> "confirm"
         [] Waits(p, "risk") /\ text \in {"send", "risky", "pin"} -> "advance"
         [] Waits(p, "pin") /\ text = "pin"                      -> "verify"
         [] OTHER -> "failed" \* what is no number makes hashPin throw

\* ... and updates it; a pending send cleared in between is put back in hand.
UpdateUser(m) ==
  LET p == IF pending = NoPending THEN found[m] ELSE pending IN
  /\ snap' = [snap EXCEPT ![m] = p]
  /\ Walks(m, "update", Branch(said[m].text, p))
  /\ UNCHANGED <<said, gate, pending, lapsed, found, tries, bounds, writes, book>>

\* Mutation: a new destination needs no confirmation.
FirstStepUnasked(text) == "pin"
FirstStep(text) == IF text = "risky" THEN "risk" ELSE "pin"

\* requestConfirmation writes the pending send whatever the row now holds.
RequestSend(m) ==
  /\ Walks(m, "request", "advance")
  /\ writes' = writes + 1
  /\ pending' = [send |-> m, step |-> FirstStep(said[m].text), write |-> writes']
  /\ asked' = Count(asked, m)
  /\ UNCHANGED <<said, gate, lapsed, found, snap, tries, bounds, agreed, closed, paid>>

\* "no", and any reply to a send past its time, clear what is pending.
ClearPending(m) ==
  /\ pc[m] \in {"cancel", "expire"}
  /\ Goto(m, "advance")
  /\ pending' = NoPending
  /\ closed' = Count(closed, snap[m].send)
  /\ UNCHANGED <<said, gate, lapsed, found, snap, tries, bounds, writes, asked, agreed, paid>>

\* "yes" writes the send as it was read back, now waiting for the PIN.
ConfirmRisk(m) ==
  /\ Walks(m, "confirm", "advance")
  /\ writes' = writes + 1
  /\ pending' = [snap[m] EXCEPT !.step = "pin", !.write = writes']
  /\ agreed' = Count(agreed, snap[m].send)
  /\ UNCHANGED <<said, gate, lapsed, found, snap, tries, bounds, asked, closed, paid>>

\* verifyPinAttempt: the PIN is right, or it is wrong or locked.
VerifyPin(m) ==
  /\ pc[m] = "verify"
  /\ \E next \in {"claim", "advance"} : Goto(m, next)
  /\ UNCHANGED <<said, gate, pending, lapsed, found, snap, tries, bounds, writes, book>>

Wins == pending # NoPending

\* Mutation: the claim leaves the send pending.
AfterClaimKept == pending
AfterClaim == NoPending

\* claimPendingSend clears the pending send if there is one, whichever it is.
ClaimPendingSend(m) ==
  /\ Walks(m, "claim", IF Wins THEN "pay" ELSE "advance")
  /\ pending' = AfterClaim
  /\ UNCHANGED <<said, gate, lapsed, found, snap, tries, bounds, writes, book>>

\* executePayment for the send that was read; after it the receipt is null and
\* the reply throws, as it does when the payment is refused.
ExecutePayment(m) ==
  /\ Walks(m, "pay", "failed")
  /\ \/ paid' = Count(paid, snap[m].send) /\ UNCHANGED closed
     \/ closed' = Count(closed, snap[m].send) /\ UNCHANGED paid
  /\ UNCHANGED <<said, gate, pending, lapsed, found, snap, tries, bounds, writes, asked, agreed>>
-----------------------------------------------------------------------------
(* Time and failures *)

Holding(m) == pc[m] \notin {"queued", "ordered", "dropped", "done", "dead"}

\* A worker dies: the queue hands its job out again, its lock stays behind.
Crash(m) ==
  /\ faults < MaxFaults
  /\ Holding(m)
  /\ faults' = faults + 1
  /\ Goto(m, "queued")
  /\ lock' = IF lock = m THEN Orphan ELSE lock
  /\ Forget(m)
  /\ closed' = IF pc[m] = "pay" THEN Count(closed, snap[m].send) ELSE closed
  /\ UNCHANGED <<said, cursor, pending, lapsed, tries, expiries, writes, asked, agreed, paid>>

\* A database call fails before it changes anything.
DatabaseFails(m) ==
  /\ faults < MaxFaults
  /\ pc[m] \in {"resolve", "update", "request", "cancel", "expire", "confirm", "verify", "claim"}
  /\ faults' = faults + 1
  /\ Goto(m, "failed")
  /\ UNCHANGED <<said, gate, pending, lapsed, found, snap, tries, expiries, writes, book>>

\* Ten minutes pass since a write of pendingSend, and since all before it.
PendingLapses ==
  /\ lapsed' \in (lapsed + 1)..writes
  /\ UNCHANGED <<said, gate, pending, job, bounds, writes, book>>

\* The lock of a crashed job runs out.
OrphanExpires ==
  /\ lock = Orphan
  /\ lock' = None
  /\ UNCHANGED <<said, cursor, pending, lapsed, job, bounds, writes, book>>

\* The lock is not renewed: it runs out under an owner that takes its time.
LockExpires ==
  /\ expiries < MaxExpiries
  /\ lock \in Message
  /\ lock' = None
  /\ expiries' = expiries + 1
  /\ UNCHANGED <<said, cursor, pending, lapsed, job, faults, writes, book>>

JobStep(m) ==
  \/ ReadCursor(m) \/ TryAcquire(m) \/ Requeue(m)
  \/ AdvanceCursor(m) \/ Release(m) \/ ReleaseAndRetry(m)
  \/ FindUser(m) \/ UpdateUser(m) \/ RequestSend(m) \/ ClearPending(m)
  \/ ConfirmRisk(m) \/ VerifyPin(m) \/ ClaimPendingSend(m) \/ ExecutePayment(m)

Next ==
  \/ \E m \in Message : JobStep(m) \/ Crash(m) \/ DatabaseFails(m)
  \/ PendingLapses \/ OrphanExpires \/ LockExpires

Spec == Init /\ [][Next]_vars

\* The queue runs every job to its end, and Redis lets locks run out.
Fairness == (\A m \in Message : WF_vars(JobStep(m))) /\ WF_vars(OrphanExpires)
FairSpec == Spec /\ Fairness
-----------------------------------------------------------------------------
(* Properties *)

Pending == [send : Message, step : {"risk", "pin"}, write : Nat \ {0}] \cup {NoPending}
Tally == [Message -> Nat]

\* Every variable is what its declaration says, and the bounds hold.
TypeOK ==
  /\ said \in Script
  /\ cursor \in [stamp : Nat, message : Message \cup {None}]
  /\ lock \in Message \cup {None, Orphan}
  /\ pending \in Pending
  /\ lapsed \in 0..writes
  /\ pc \in [Message -> {"queued", "ordered", "resolve", "update", "request", "cancel",
                         "expire", "confirm", "verify", "claim", "pay", "advance",
                         "release", "failed", "dropped", "done", "dead"}]
  /\ found \in [Message -> Pending] /\ snap \in [Message -> Pending]
  /\ tries \in [Message -> 0..MaxAttempts]
  /\ faults \in 0..MaxFaults /\ expiries \in 0..MaxExpiries
  /\ writes \in Nat
  /\ asked \in Tally /\ agreed \in Tally /\ closed \in Tally /\ paid \in Tally

\* Whether the send of s waits, and whether it was claimed and is being paid.
Open(s) == IF pending.send = s THEN 1 ELSE 0
Paying(m) == pc[m] = "pay"
InHand(s) == IF \E m \in Message : Paying(m) /\ snap[m].send = s THEN 1 ELSE 0

\* While no live owner loses its lock, the messages of a sender are processed
\* one at a time, also when a worker stopped and left its lock behind.
OneAtATime ==
  expiries = 0 => \A m, n \in Message : Holding(m) /\ Holding(n) => m = n

\* While no live owner loses its lock, every request for a send ends once: it
\* is paid, cancelled, lapsed or refused, is being paid, or still waits.
EachRequestEndsOnce ==
  expiries = 0 => \A s \in Message : asked[s] = paid[s] + closed[s] + InHand(s) + Open(s)

\* No send to a new destination is paid without its owner's "yes", also when
\* messages overlap; while they do not, each payment has its own "yes".
RiskySendsAreConfirmed ==
  \A s \in Message : said[s].text = "risky" =>
    /\ paid[s] > 0 => agreed[s] > 0
    /\ expiries = 0 => paid[s] <= agreed[s]

\* The cursor never goes back, also when an older message completes late.
CursorNeverGoesBack == [][cursor'.stamp >= cursor.stamp]_cursor

\* Every message is answered, dropped as overtaken or handed to the dead letters.
EveryMessageIsSettled == \A m \in Message : <>(pc[m] \in {"done", "dropped", "dead"})
=============================================================================
