---------------------- MODULE StellarSubmissionProofs ----------------------
(***************************************************************************)
(* Proofs about StellarSubmission for any number of calls, processes and   *)
(* attempts: its safety properties, and that it implements                 *)
(* SubmissionContract.                                                     *)
(***************************************************************************)
EXTENDS StellarSubmission, SequenceTheorems, TLAPS

Working(c) == pc[c] \in {"loading", "posted", "uncertain", "bad_seq"}
Stopped == {"idle", "done", "crashed"}
Built(c, a) == env[c][a].fate # "absent"

\* The lock: who runs waits in the queue of its process or holds its head.
QueuesHoldRunners ==
  \A h \in Host : \A i \in 1 .. Len(queue[h]) :
    /\ at[queue[h][i]] = h
    /\ Running(queue[h][i])
    /\ \A j \in 1 .. Len(queue[h]) : queue[h][i] = queue[h][j] => i = j
WaitersQueue ==
  \A c \in Call : pc[c] = "waiting" =>
    \E i \in 1 .. Len(queue[at[c]]) : queue[at[c]][i] = c
WorkersHold ==
  \A c \in Call : Working(c) => queue[at[c]] # <<>> /\ queue[at[c]][1] = c

\* What a call told its caller goes with where it is.
VerdictFits ==
  \A c \in Call :
    /\ pc[c] = "idle" => verdict[c] = "idle"
    /\ Running(c) \/ pc[c] = "crashed" => verdict[c] = "open"
    /\ pc[c] = "done" => verdict[c] \in {"ok", "error"}

\* Envelopes are built attempt by attempt, and the next one only after an
\* answer that a lookup follows.
InOrder(c) ==
  /\ pc[c] \in {"idle", "waiting"} => attempt[c] = 1
  /\ \A a \in Attempt : a > attempt[c] => env[c][a] = Unbuilt
  /\ \A a \in Attempt : a < attempt[c] => env[c][a].answer \in {"lost", "bad_seq"}
  /\ pc[c] \in {"idle", "waiting", "loading"} => Current(c) = Unbuilt
  /\ pc[c] = "posted" => Current(c).fate \notin {"absent", "dropped"} /\ Current(c).answer = "none"
  /\ pc[c] = "uncertain" => Current(c).answer = "lost"
  /\ pc[c] = "bad_seq" => Current(c).answer = "bad_seq"
AttemptsInOrder == \A c \in Call : InOrder(c)

\* The ledger has each envelope at its sequence number, and nothing else.
LedgerBySequence ==
  /\ \A i \in 1 .. Len(ledger) :
       \E c \in Call, a \in Attempt : OnLedger(c, a) /\ env[c][a].seq = i
  /\ \A c \in Call, a \in Attempt :
       OnLedger(c, a) =>
         env[c][a].seq \in 1 .. Len(ledger) /\ ledger[env[c][a].seq] = <<c, a>>

\* Sequence numbers are taken from what Horizon had ingested, so those of a
\* call never decrease.
SequencesGrow ==
  \A c \in Call, a \in Attempt :
    Built(c, a) =>
      /\ env[c][a].seq \in 1 .. ingested + 1
      /\ \A b \in Attempt : a < b /\ Built(c, b) => env[c][a].seq <= env[c][b].seq

\* A returned hash is the last attempt's, and on the ledger.
ReturnedIsThere ==
  \A c \in Call :
    verdict[c] = "ok" => returned[c] = attempt[c] /\ OnLedger(c, attempt[c])

\* What SerializedCallsDoNotCollide assumes ...
Alone ==
  /\ \A c, d \in Call : at[c] = at[d]
  /\ \A c \in Call : pc[c] # "crashed"
  /\ \A c \in Call, a \in Attempt : ~Unheard(c, a)
\* ... keeps Horizon level with the ledger, but for the envelope in flight.
InFlight(c, a) == pc[c] = "posted" /\ a = attempt[c]
Level ==
  /\ \A c \in Call, a \in Attempt : env[c][a].answer # "bad_seq"
  /\ \A c \in Call, a \in Attempt :
       env[c][a].fate = "sent" => InFlight(c, a) /\ env[c][a].seq = Len(ledger) + 1
  /\ \A c \in Call, a \in Attempt :
       OnLedger(c, a) /\ env[c][a].seq > ingested =>
         InFlight(c, a) /\ env[c][a].seq = Len(ledger)
LevelWhenAlone == Alone => Level

IInv ==
  /\ TypeOK
  /\ QueuesHoldRunners /\ WaitersQueue /\ WorkersHold
  /\ VerdictFits /\ AttemptsInOrder
  /\ LedgerBySequence /\ SequencesGrow /\ ReturnedIsThere
  /\ LevelWhenAlone

LockInv == QueuesHoldRunners /\ WaitersQueue /\ WorkersHold
-----------------------------------------------------------------------------
(* The lock *)

Place == {"idle", "waiting", "loading", "posted", "uncertain", "bad_seq", "done", "crashed"}
LockTypes == pc \in [Call -> Place] /\ at \in [Call -> Host] /\ queue \in [Host -> Seq(Call)]

\* c is at the head of its queue.
HoldsLock(c) == Working(c) \/ (pc[c] = "waiting" /\ Holds(c))

\* The call c is at the head of the queue of its process, and only there.
LEMMA HolderIsHead ==
  ASSUME LockTypes, LockInv, NEW c \in Call, HoldsLock(c)
  PROVE  /\ queue[at[c]] # <<>>
         /\ queue[at[c]][1] = c
         /\ \A i \in 1 .. Len(queue[at[c]]) : queue[at[c]][i] = c => i = 1
         /\ \A d \in Call \ {c} : at[d] = at[c] => ~Working(d)
<1> DEFINE q == queue[at[c]]
<1>1. q \in Seq(Call)
  BY DEF LockTypes
<1>2. q # <<>>
  <2>1. CASE Working(c)
    BY <2>1 DEF LockInv, WorkersHold
  <2>2. CASE pc[c] = "waiting"
    <3>1. PICK i \in 1 .. Len(q) : q[i] = c
      BY <2>2 DEF LockInv, WaitersQueue
    <3>2. Len(q) # 0
      BY <1>1, <3>1
    <3> QED
      BY <3>2
  <2> QED
    BY <2>1, <2>2 DEF HoldsLock
<1>3. q[1] = c
  BY <1>1, <1>2 DEF HoldsLock, LockInv, WorkersHold, Holds
<1>4. 1 \in 1 .. Len(q)
  BY <1>1, <1>2, EmptySeq
<1>5. \A i \in 1 .. Len(q) : q[i] = c => i = 1
  BY <1>3, <1>4 DEF LockTypes, LockInv, QueuesHoldRunners
<1>6. \A d \in Call \ {c} : at[d] = at[c] => ~Working(d)
  BY <1>3 DEF LockInv, WorkersHold
<1> QED
  BY <1>2, <1>3, <1>5, <1>6

\* A call joins the queue of its process.
LEMMA LockJoin ==
  ASSUME LockTypes, LockInv, NEW c \in Call, pc[c] = "idle",
         queue' = [queue EXCEPT ![at[c]] = Append(@, c)],
         Goto(c, "waiting"), UNCHANGED at
  PROVE  LockTypes' /\ LockInv'
<1> DEFINE h == at[c]
           q == queue[h]
<1>1. /\ h \in Host /\ q \in Seq(Call) /\ Len(q) \in Nat
      /\ at' = at
      /\ pc' = [pc EXCEPT ![c] = "waiting"]
  BY LenProperties DEF LockTypes, Goto
<1>2. /\ queue'[h] \in Seq(Call)
      /\ Len(queue'[h]) = Len(q) + 1
      /\ \A i \in 1 .. Len(q) : queue'[h][i] = q[i]
      /\ queue'[h][Len(q) + 1] = c
      /\ \A g \in Host \ {h} : queue'[g] = queue[g]
  BY <1>1, AppendProperties DEF LockTypes
<1>3. LockTypes'
  BY <1>1, <1>2 DEF LockTypes, Place
<1>4. \A i \in 1 .. Len(q) : q[i] \in Call /\ q[i] # c
  BY <1>1, ElementOfSeq DEF LockInv, QueuesHoldRunners, Running, Stopped
<1>5. QueuesHoldRunners'
  <2> SUFFICES ASSUME NEW g \in Host, NEW i \in 1 .. Len(queue'[g])
               PROVE  /\ at[queue'[g][i]] = g
                      /\ pc'[queue'[g][i]] \notin Stopped
                      /\ \A j \in 1 .. Len(queue'[g]) : queue'[g][i] = queue'[g][j] => i = j
    BY <1>1 DEF QueuesHoldRunners, Running, Stopped
  <2>1. CASE g # h
    <3>1. queue'[g] = queue[g] /\ queue[g][i] \in Call
      BY <1>2, <2>1, ElementOfSeq DEF LockTypes
    <3> QED
      BY <1>1, <3>1 DEF LockTypes, LockInv, QueuesHoldRunners, Running, Stopped
  <2>2. CASE g = h
    <3>1. i \in 1 .. Len(q) \/ i = Len(q) + 1
      BY <1>1, <1>2, <2>2
    <3>2. pc'[queue'[g][i]] \notin Stopped /\ at[queue'[g][i]] = g
      BY <1>1, <1>2, <1>4, <2>2, <3>1 DEF LockTypes, LockInv, QueuesHoldRunners, Running, Stopped
    <3>3. ASSUME NEW j \in 1 .. Len(queue'[g]), queue'[g][i] = queue'[g][j] PROVE i = j
      <4>1. j \in 1 .. Len(q) \/ j = Len(q) + 1
        BY <1>1, <1>2, <2>2
      <4>2. CASE i \in 1 .. Len(q) /\ j \in 1 .. Len(q)
        <5>1. q[i] = q[j]
          BY <1>2, <2>2, <3>3, <4>2
        <5> QED
          BY <1>1, <4>2, <5>1 DEF LockInv, QueuesHoldRunners
      <4>3. CASE i = Len(q) + 1 \/ j = Len(q) + 1
        BY <1>1, <1>2, <1>4, <2>2, <3>1, <3>3, <4>1, <4>3
      <4> QED
        BY <3>1, <4>1, <4>2, <4>3
    <3> QED
      BY <3>2, <3>3
  <2> QED
    BY <2>1, <2>2
<1>6. WaitersQueue'
  <2> SUFFICES ASSUME NEW d \in Call, pc'[d] = "waiting"
               PROVE  \E i \in 1 .. Len(queue'[at[d]]) : queue'[at[d]][i] = d
    BY <1>1 DEF WaitersQueue
  <2>1. CASE d = c
    BY <1>1, <1>2, <2>1
  <2>2. CASE d # c
    <3>1. pc[d] = "waiting" /\ at[d] \in Host
      BY <1>1, <2>2 DEF LockTypes
    <3>2. PICK i \in 1 .. Len(queue[at[d]]) : queue[at[d]][i] = d
      BY <3>1 DEF LockInv, WaitersQueue
    <3> QED
      BY <1>1, <1>2, <3>1, <3>2
  <2> QED
    BY <2>1, <2>2
<1>7. WorkersHold'
  <2> SUFFICES ASSUME NEW d \in Call, Working(d)'
               PROVE  queue'[at[d]] # <<>> /\ queue'[at[d]][1] = d
    BY <1>1 DEF WorkersHold
  <2>1. Working(d) /\ at[d] \in Host
    BY <1>1 DEF Working, LockTypes
  <2>2. queue[at[d]] # <<>> /\ queue[at[d]][1] = d /\ queue[at[d]] \in Seq(Call)
    BY <2>1 DEF LockInv, WorkersHold, LockTypes
  <2>3. 1 \in 1 .. Len(queue[at[d]])
    BY <2>2, EmptySeq
  <2>4. CASE at[d] = h
    <3>1. queue'[h] # <<>>
      <4>1. Len(queue'[h]) # 0
        BY <1>1, <1>2
      <4> QED
        BY <4>1
    <3>2. queue'[h][1] = q[1]
      BY <1>2, <2>3, <2>4
    <3> QED
      BY <2>2, <2>4, <3>1, <3>2
  <2>5. CASE at[d] # h
    BY <1>2, <2>1, <2>2, <2>5
  <2> QED
    BY <2>4, <2>5
<1> QED
  BY <1>3, <1>5, <1>6, <1>7 DEF LockInv

\* The holder of the lock goes on with it.
LEMMA LockKept ==
  ASSUME LockTypes, LockInv, NEW c \in Call, HoldsLock(c),
         NEW next \in {"loading", "posted", "uncertain", "bad_seq"}, Goto(c, next),
         UNCHANGED <<at, queue>>
  PROVE  LockTypes' /\ LockInv'
<1>1. LockTypes'
  BY DEF LockTypes, Goto, Place
<1>2. pc' = [pc EXCEPT ![c] = next] /\ at' = at /\ queue' = queue
  BY DEF Goto
<1>3. QueuesHoldRunners'
  <2>1. \A h \in Host : \A i \in 1 .. Len(queue[h]) : queue[h][i] \in Call
    BY ElementOfSeq DEF LockTypes
  <2> QED
    BY <1>2, <2>1 DEF LockTypes, LockInv, QueuesHoldRunners, Running, Stopped
<1>4. WaitersQueue'
  BY <1>2 DEF LockTypes, LockInv, WaitersQueue
<1>5. WorkersHold'
  BY <1>2, HolderIsHead DEF LockTypes, LockInv, WorkersHold, Working
<1> QED
  BY <1>1, <1>3, <1>4, <1>5 DEF LockInv

\* The holder of the lock leaves it to the next call of the queue.
LEMMA LockLeft ==
  ASSUME LockTypes, LockInv, NEW c \in Call, HoldsLock(c), Goto(c, "done"), Unlocked(c),
         UNCHANGED at
  PROVE  LockTypes' /\ LockInv'
<1> DEFINE h == at[c]
           q == queue[h]
<1>1. /\ h \in Host /\ q \in Seq(Call) /\ q # <<>> /\ Len(q) \in Nat
      /\ at' = at
      /\ pc' = [pc EXCEPT ![c] = "done"]
      /\ queue' = [queue EXCEPT ![h] = Tail(q)]
  BY HolderIsHead, LenProperties DEF LockTypes, Goto, Unlocked
<1>2. /\ queue'[h] \in Seq(Call)
      /\ Len(queue'[h]) = Len(q) - 1
      /\ \A i \in 1 .. Len(q) - 1 : queue'[h][i] = q[i + 1]
      /\ \A g \in Host \ {h} : queue'[g] = queue[g]
  BY <1>1, HeadTailProperties DEF LockTypes
<1>3. LockTypes'
  BY <1>1, <1>2 DEF LockTypes, Place
<1>4. \A g \in Host : \A i \in 1 .. Len(queue[g]) : queue[g][i] \in Call
  BY ElementOfSeq DEF LockTypes
<1>5. QueuesHoldRunners'
  <2> SUFFICES ASSUME NEW g \in Host, NEW i \in 1 .. Len(queue'[g])
               PROVE  /\ at[queue'[g][i]] = g
                      /\ pc'[queue'[g][i]] \notin Stopped
                      /\ \A j \in 1 .. Len(queue'[g]) : queue'[g][i] = queue'[g][j] => i = j
    BY DEF QueuesHoldRunners, Running, Stopped
  <2>1. CASE g # h
    <3>1. queue'[g] = queue[g] /\ queue[g][i] \in Call /\ queue[g][i] # c
      BY <1>2, <1>4, <2>1 DEF LockInv, QueuesHoldRunners
    <3> QED
      BY <1>1, <3>1 DEF LockTypes, LockInv, QueuesHoldRunners, Running, Stopped
  <2>2. CASE g = h
    <3>1. i + 1 \in 1 .. Len(q) /\ queue'[g][i] = q[i + 1] /\ q[i + 1] \in Call
      BY <1>1, <1>2, <1>4, <2>2
    <3>2. q[i + 1] # c
      BY <1>1, <3>1, HolderIsHead
    <3>3. pc'[queue'[g][i]] \notin Stopped /\ at[queue'[g][i]] = g
      BY <1>1, <2>2, <3>1, <3>2 DEF LockTypes, LockInv, QueuesHoldRunners, Running, Stopped
    <3>4. ASSUME NEW j \in 1 .. Len(queue'[g]), queue'[g][i] = queue'[g][j] PROVE i = j
      <4>1. j + 1 \in 1 .. Len(q) /\ queue'[g][j] = q[j + 1] /\ q[i + 1] = q[j + 1]
        BY <1>1, <1>2, <2>2, <3>1, <3>4
      <4>2. i + 1 = j + 1
        BY <1>1, <3>1, <4>1 DEF LockInv, QueuesHoldRunners
      <4> QED
        BY <1>1, <1>2, <2>2, <4>2
    <3> QED
      BY <3>3, <3>4
  <2> QED
    BY <2>1, <2>2
<1>6. WaitersQueue'
  <2> SUFFICES ASSUME NEW d \in Call, pc'[d] = "waiting"
               PROVE  \E i \in 1 .. Len(queue'[at[d]]) : queue'[at[d]][i] = d
    BY <1>1 DEF WaitersQueue
  <2>1. d # c /\ pc[d] = "waiting" /\ at[d] \in Host
    BY <1>1 DEF LockTypes
  <2>2. PICK i \in 1 .. Len(queue[at[d]]) : queue[at[d]][i] = d
    BY <2>1 DEF LockInv, WaitersQueue
  <2>3. CASE at[d] = h
    <3>1. i # 1
      BY <2>1, <2>2, <2>3, HolderIsHead
    <3>2. i - 1 \in 1 .. Len(queue'[h]) /\ queue'[h][i - 1] = q[(i - 1) + 1]
      BY <1>1, <1>2, <2>2, <2>3, <3>1
    <3>3. queue'[h][i - 1] = d
      BY <2>2, <2>3, <3>2
    <3> QED
      BY <2>3, <3>2, <3>3
  <2>4. CASE at[d] # h
    BY <1>2, <2>1, <2>2, <2>4
  <2> QED
    BY <2>3, <2>4
<1>7. WorkersHold'
  <2> SUFFICES ASSUME NEW d \in Call, Working(d)'
               PROVE  queue'[at[d]] # <<>> /\ queue'[at[d]][1] = d
    BY <1>1 DEF WorkersHold
  <2>1. d # c /\ Working(d) /\ at[d] \in Host
    BY <1>1 DEF Working, LockTypes
  <2>2. at[d] # h
    BY <2>1, HolderIsHead
  <2> QED
    BY <1>2, <2>1, <2>2 DEF LockInv, WorkersHold
<1> QED
  BY <1>3, <1>5, <1>6, <1>7 DEF LockInv

\* A process stops, and its calls and its queue with it.
LEMMA LockGone ==
  ASSUME LockTypes, LockInv, NEW h \in Host,
         pc' = [c \in Call |-> IF at[c] = h /\ Running(c) THEN "crashed" ELSE pc[c]],
         queue' = [queue EXCEPT ![h] = <<>>], UNCHANGED at
  PROVE  LockTypes' /\ LockInv'
<1>1. LockTypes'
  BY DEF LockTypes, Place
<1>2. /\ queue'[h] = <<>> /\ Len(queue'[h]) = 0
      /\ \A g \in Host \ {h} : queue'[g] = queue[g]
      /\ \A c \in Call : at[c] # h => pc'[c] = pc[c]
      /\ \A c \in Call : at[c] = h => ~Working(c)' /\ pc'[c] # "waiting"
  BY DEF LockTypes, Running, Working
<1>3. \A g \in Host : \A i \in 1 .. Len(queue[g]) : queue[g][i] \in Call
  BY ElementOfSeq DEF LockTypes
<1>4. QueuesHoldRunners'
  <2> SUFFICES ASSUME NEW g \in Host, NEW i \in 1 .. Len(queue'[g])
               PROVE  /\ at[queue'[g][i]] = g
                      /\ pc'[queue'[g][i]] \notin Stopped
                      /\ \A j \in 1 .. Len(queue'[g]) : queue'[g][i] = queue'[g][j] => i = j
    BY DEF QueuesHoldRunners, Running, Stopped
  <2>1. g # h /\ queue'[g] = queue[g] /\ queue[g][i] \in Call
    BY <1>2, <1>3
  <2>2. at[queue[g][i]] = g
    BY <2>1 DEF LockInv, QueuesHoldRunners
  <2> QED
    BY <1>2, <2>1, <2>2 DEF LockInv, QueuesHoldRunners, Running, Stopped
<1>5. WaitersQueue'
  <2> SUFFICES ASSUME NEW d \in Call, pc'[d] = "waiting"
               PROVE  \E i \in 1 .. Len(queue'[at[d]]) : queue'[at[d]][i] = d
    BY DEF WaitersQueue
  <2>1. at[d] \in Host \ {h} /\ pc[d] = "waiting"
    BY <1>2 DEF LockTypes
  <2> QED
    BY <1>2, <2>1 DEF LockInv, WaitersQueue
<1>6. WorkersHold'
  <2> SUFFICES ASSUME NEW d \in Call, Working(d)'
               PROVE  queue'[at[d]] # <<>> /\ queue'[at[d]][1] = d
    BY DEF WorkersHold
  <2>1. at[d] \in Host \ {h} /\ Working(d)
    BY <1>2 DEF LockTypes, Working
  <2> QED
    BY <1>2, <2>1 DEF LockInv, WorkersHold
<1> QED
  BY <1>1, <1>4, <1>5, <1>6 DEF LockInv

LEMMA LockIdle ==
  ASSUME LockTypes, LockInv, UNCHANGED <<pc, at, queue>>
  PROVE  LockTypes' /\ LockInv'
BY DEF LockTypes, LockInv, QueuesHoldRunners, WaitersQueue, WorkersHold, Running, Working

\* Every step keeps the lock's invariant.
LEMMA LockStep ==
  ASSUME LockTypes, LockInv, [Next]_vars
  PROVE  LockTypes' /\ LockInv'
<1>1. ASSUME NEW c \in Call, Join(c) PROVE LockTypes' /\ LockInv'
  BY <1>1, LockJoin DEF Join
<1>2. ASSUME NEW c \in Call, Invalid(c) PROVE LockTypes' /\ LockInv'
  <2>1. pc[c] = "idle" /\ pc' = [pc EXCEPT ![c] = "done"] /\ at' = at /\ queue' = queue
    BY <1>2 DEF Invalid, Goto
  <2>2. LockTypes'
    BY <2>1 DEF LockTypes, Place
  <2>3. \A h \in Host : \A i \in 1 .. Len(queue[h]) : queue[h][i] \in Call /\ queue[h][i] # c
    BY <2>1, ElementOfSeq DEF LockTypes, LockInv, QueuesHoldRunners, Running
  <2>4. QueuesHoldRunners'
    BY <2>1, <2>3 DEF LockTypes, LockInv, QueuesHoldRunners, Running
  <2>5. WaitersQueue' /\ WorkersHold'
    BY <2>1 DEF LockTypes, LockInv, WaitersQueue, WorkersHold, Working
  <2> QED
    BY <2>2, <2>4, <2>5 DEF LockInv
<1>3. ASSUME NEW c \in Call, Enter(c) PROVE LockTypes' /\ LockInv'
  <2>1. HoldsLock(c) /\ UNCHANGED at
    BY <1>3 DEF Enter, HoldsLock
  <2>2. CASE Goto(c, "loading") /\ UNCHANGED queue
    BY <2>1, <2>2, LockKept
  <2>3. CASE Goto(c, "done") /\ Unlocked(c)
    BY <2>1, <2>3, LockLeft
  <2> QED
    BY <1>3, <2>2, <2>3 DEF Enter, ThrowOut
<1>4. ASSUME NEW c \in Call, LoadAndPost(c) PROVE LockTypes' /\ LockInv'
  <2>1. HoldsLock(c) /\ UNCHANGED at
    BY <1>4 DEF LoadAndPost, HoldsLock, Working
  <2>2. CASE Goto(c, "posted") /\ UNCHANGED queue
    BY <2>1, <2>2, LockKept
  <2>3. CASE Goto(c, "done") /\ Unlocked(c)
    BY <2>1, <2>3, LockLeft
  <2> QED
    BY <1>4, <2>2, <2>3 DEF LoadAndPost, ThrowOut
<1>5. ASSUME NEW c \in Call, AnswerPaid(c) \/ AnswerRejected(c) \/ AnswerUnclear(c) \/ LookUpFound(c)
      PROVE LockTypes' /\ LockInv'
  <2>1. HoldsLock(c) /\ UNCHANGED at
    BY <1>5 DEF AnswerPaid, AnswerRejected, AnswerUnclear, LookUpFound, HoldsLock, Working
  <2>2. Goto(c, "done") /\ Unlocked(c)
    BY <1>5 DEF AnswerPaid, AnswerRejected, AnswerUnclear, LookUpFound, ReturnHash, ThrowOut
  <2> QED
    BY <2>1, <2>2, LockLeft
<1>6. ASSUME NEW c \in Call, AnswerBadSeq(c) \/ AnswerLost(c) PROVE LockTypes' /\ LockInv'
  <2>1. HoldsLock(c) /\ UNCHANGED <<at, queue>>
    BY <1>6 DEF AnswerBadSeq, AnswerLost, HoldsLock, Working
  <2>2. Goto(c, "bad_seq") \/ Goto(c, "uncertain")
    BY <1>6 DEF AnswerBadSeq, AnswerLost
  <2> QED
    BY <2>1, <2>2, LockKept
<1>7. ASSUME NEW c \in Call, LookUpMissed(c) PROVE LockTypes' /\ LockInv'
  <2>1. HoldsLock(c) /\ UNCHANGED at
    BY <1>7 DEF LookUpMissed, HoldsLock, Working
  <2>2. CASE Goto(c, "loading") /\ UNCHANGED queue
    BY <2>1, <2>2, LockKept
  <2>3. CASE Goto(c, "done") /\ Unlocked(c)
    BY <2>1, <2>3, LockLeft
  <2> QED
    BY <1>7, <2>2, <2>3 DEF LookUpMissed, ThrowOut
<1>8. ASSUME NEW c \in Call, NEW a \in Attempt, Apply(c, a) PROVE LockTypes' /\ LockInv'
  BY <1>8, LockIdle DEF Apply
<1>9. CASE Ingest
  BY <1>9, LockIdle DEF Ingest
<1>10. ASSUME NEW h \in Host, CrashHost(h) PROVE LockTypes' /\ LockInv'
  BY <1>10, LockGone DEF CrashHost
<1>11. CASE UNCHANGED vars
  BY <1>11, LockIdle DEF vars
<1> QED
  BY <1>1, <1>2, <1>3, <1>4, <1>5, <1>6, <1>7, <1>8, <1>9, <1>10, <1>11
  DEF Next, SubmitPayment, Receive
-----------------------------------------------------------------------------
(* Types, attempts and verdicts *)

Fate == {"absent", "sent", "dropped", "paid", "unsuccessful"}
Envelope == [seq : Nat, fate : Fate,
             answer : {"none", "ok", "rejected", "bad_seq", "lost", "unclear"}]
CallTypes ==
  /\ attempt \in [Call -> Attempt]
  /\ verdict \in [Call -> {"idle", "open", "ok", "error"}]
  /\ returned \in [Call -> 0 .. MaxAttempts]
LedgerTypes ==
  /\ env \in [Call -> [Attempt -> Envelope]]
  /\ ledger \in Seq(Call \X Attempt)
  /\ ingested \in 0 .. Len(ledger)

LEMMA TypesAreTypeOK == TypeOK <=> LockTypes /\ CallTypes /\ LedgerTypes
BY DEF TypeOK, LockTypes, CallTypes, LedgerTypes, Place, Envelope, Fate

\* Writing one envelope leaves the others.
LEMMA OneEnvelope ==
  ASSUME LedgerTypes, NEW c \in Call, NEW a \in Attempt, NEW e \in Envelope,
         env' = [env EXCEPT ![c][a] = e]
  PROVE  /\ env' \in [Call -> [Attempt -> Envelope]]
         /\ env'[c][a] = e
         /\ \A d \in Call, b \in Attempt : d # c \/ b # a => env'[d][b] = env[d][b]
BY DEF LedgerTypes

\* Noting an answer leaves the sequence number and the fate.
LEMMA AnswerNoted ==
  ASSUME LedgerTypes, CallTypes, NEW c \in Call,
         NEW answer \in {"ok", "rejected", "bad_seq", "lost", "unclear"}, Answer(c, answer)
  PROVE  /\ env' \in [Call -> [Attempt -> Envelope]]
         /\ env'[c][attempt[c]].seq = Current(c).seq
         /\ env'[c][attempt[c]].fate = Current(c).fate
         /\ env'[c][attempt[c]].answer = answer
         /\ \A d \in Call, b \in Attempt : d # c \/ b # attempt[c] => env'[d][b] = env[d][b]
<1> DEFINE e == [seq |-> Current(c).seq, fate |-> Current(c).fate, answer |-> answer]
<1>0. attempt[c] \in Attempt
  BY DEF CallTypes
<1>1. Current(c) \in Envelope
  BY <1>0 DEF LedgerTypes, Current
<1>2. [Current(c) EXCEPT !.answer = answer] = e
  BY <1>1 DEF Envelope
<1>3. env' = [env EXCEPT ![c][attempt[c]] = e]
  BY <1>2 DEF Answer, Current
<1>4. e \in Envelope
  BY <1>1 DEF Envelope
<1> HIDE DEF e
<1>5. /\ env' \in [Call -> [Attempt -> Envelope]]
      /\ env'[c][attempt[c]] = e
      /\ \A d \in Call, b \in Attempt : d # c \/ b # attempt[c] => env'[d][b] = env[d][b]
  BY <1>0, <1>3, <1>4, OneEnvelope
<1> QED
  BY <1>5 DEF e

\* Noting a refusal keeps the envelope off the ledger, or on it.
LEMMA RefusalNoted ==
  ASSUME LedgerTypes, CallTypes, NEW c \in Call, AnswerRejected(c)
  PROVE  /\ env' \in [Call -> [Attempt -> Envelope]]
         /\ env'[c][attempt[c]].seq = Current(c).seq
         /\ env'[c][attempt[c]].fate =
              IF Current(c).fate = "sent" THEN "dropped" ELSE Current(c).fate
         /\ env'[c][attempt[c]].answer = "rejected"
         /\ \A d \in Call, b \in Attempt : d # c \/ b # attempt[c] => env'[d][b] = env[d][b]
<1> DEFINE e == [seq |-> Current(c).seq,
                 fate |-> IF Current(c).fate = "sent" THEN "dropped" ELSE Current(c).fate,
                 answer |-> "rejected"]
<1>1. attempt[c] \in Attempt /\ Current(c) \in Envelope
  BY DEF LedgerTypes, CallTypes, Current
<1>2. env' = [env EXCEPT ![c][attempt[c]] = e]
  BY DEF AnswerRejected, Current
<1>3. e \in Envelope
  BY <1>1 DEF Envelope, Fate
<1> HIDE DEF e
<1>4. /\ env' \in [Call -> [Attempt -> Envelope]]
      /\ env'[c][attempt[c]] = e
      /\ \A d \in Call, b \in Attempt : d # c \/ b # attempt[c] => env'[d][b] = env[d][b]
  BY <1>1, <1>2, <1>3, OneEnvelope
<1> QED
  BY <1>4 DEF e

\* What an answer, or its loss, changes.
LEMMA AnswerReceived ==
  ASSUME LedgerTypes, CallTypes, NEW c \in Call, Receive(c)
  PROVE  /\ pc[c] = "posted" /\ UNCHANGED <<at, attempt, ledger, ingested>>
         /\ \A d \in Call, b \in Attempt : d # c \/ b # attempt[c] => env'[d][b] = env[d][b]
         /\ env'[c][attempt[c]].seq = Current(c).seq
         /\ \/ env'[c][attempt[c]].fate = Current(c).fate
            \/ Current(c).fate = "sent" /\ env'[c][attempt[c]].fate = "dropped"
         /\ \/ Goto(c, "done") /\ env'[c][attempt[c]].answer \in {"ok", "rejected", "unclear"}
            \/ Goto(c, "uncertain") /\ env'[c][attempt[c]].answer = "lost"
            \/ Goto(c, "bad_seq") /\ env'[c][attempt[c]].answer = "bad_seq"
<1>1. ASSUME NEW answer \in {"ok", "rejected", "bad_seq", "lost", "unclear"}, Answer(c, answer)
      PROVE  /\ \A d \in Call, b \in Attempt : d # c \/ b # attempt[c] => env'[d][b] = env[d][b]
             /\ env'[c][attempt[c]].seq = Current(c).seq
             /\ env'[c][attempt[c]].fate = Current(c).fate
             /\ env'[c][attempt[c]].answer = answer
  BY <1>1, AnswerNoted
<1>2. CASE AnswerPaid(c)
  BY <1>1, <1>2 DEF AnswerPaid, ReturnHash
<1>3. CASE AnswerRejected(c)
  <2>1. /\ \A d \in Call, b \in Attempt : d # c \/ b # attempt[c] => env'[d][b] = env[d][b]
        /\ env'[c][attempt[c]].seq = Current(c).seq
        /\ env'[c][attempt[c]].fate =
             IF Current(c).fate = "sent" THEN "dropped" ELSE Current(c).fate
        /\ env'[c][attempt[c]].answer = "rejected"
    BY <1>3, RefusalNoted
  <2> QED
    BY <1>3, <2>1 DEF AnswerRejected, ThrowOut
<1>4. CASE AnswerBadSeq(c)
  BY <1>1, <1>4 DEF AnswerBadSeq
<1>5. CASE AnswerLost(c)
  BY <1>1, <1>5 DEF AnswerLost
<1>6. CASE AnswerUnclear(c)
  BY <1>1, <1>6 DEF AnswerUnclear, ThrowOut
<1> QED
  BY <1>2, <1>3, <1>4, <1>5, <1>6 DEF Receive

\* A posted envelope carries the sequence number after the ingested ones.
Post(c) ==
  /\ pc[c] = "loading"
  /\ env' = [env EXCEPT ![c][attempt[c]] =
       [seq |-> ingested + 1, fate |-> "sent", answer |-> "none"]]
  /\ Goto(c, "posted")
  /\ UNCHANGED <<at, attempt, verdict, returned, queue, ledger, ingested>>

LEMMA EnvelopePosted ==
  ASSUME LedgerTypes, CallTypes, NEW c \in Call, Post(c)
  PROVE  /\ env' \in [Call -> [Attempt -> Envelope]]
         /\ env'[c][attempt[c]].seq = ingested + 1
         /\ env'[c][attempt[c]].fate = "sent" /\ env'[c][attempt[c]].answer = "none"
         /\ \A d \in Call, b \in Attempt : d # c \/ b # attempt[c] => env'[d][b] = env[d][b]
<1> DEFINE e == [seq |-> ingested + 1, fate |-> "sent", answer |-> "none"]
<1>1. attempt[c] \in Attempt /\ ingested \in Nat
  BY LenProperties DEF LedgerTypes, CallTypes
<1>2. env' = [env EXCEPT ![c][attempt[c]] = e]
  BY DEF Post
<1>3. e \in Envelope
  BY <1>1 DEF Envelope, Fate
<1> HIDE DEF e
<1>4. /\ env' \in [Call -> [Attempt -> Envelope]]
      /\ env'[c][attempt[c]] = e
      /\ \A d \in Call, b \in Attempt : d # c \/ b # attempt[c] => env'[d][b] = env[d][b]
  BY <1>1, <1>2, <1>3, OneEnvelope
<1> QED
  BY <1>4 DEF e

\* The ledger takes an envelope at its end.
LEMMA EnvelopeApplied ==
  ASSUME LedgerTypes, NEW c \in Call, NEW a \in Attempt, Apply(c, a)
  PROVE  /\ env' \in [Call -> [Attempt -> Envelope]]
         /\ env'[c][a].seq = env[c][a].seq /\ env'[c][a].answer = env[c][a].answer
         /\ env'[c][a].fate \in {"paid", "unsuccessful"}
         /\ \A d \in Call, b \in Attempt : d # c \/ b # a => env'[d][b] = env[d][b]
         /\ ledger' \in Seq(Call \X Attempt)
         /\ Len(ledger') = Len(ledger) + 1
         /\ \A i \in 1 .. Len(ledger) : ledger'[i] = ledger[i]
         /\ ledger'[Len(ledger) + 1] = <<c, a>>
<1>1. PICK fate \in {"paid", "unsuccessful"} : env' = [env EXCEPT ![c][a].fate = fate]
  BY DEF Apply
<1> DEFINE e == [seq |-> env[c][a].seq, fate |-> fate, answer |-> env[c][a].answer]
<1>2. env[c][a] \in Envelope
  BY DEF LedgerTypes
<1>3. e \in Envelope
  BY <1>2 DEF Envelope, Fate
<1>4. env' = [env EXCEPT ![c][a] = e]
  <2>1. [env[c][a] EXCEPT !.fate = fate] = e
    BY <1>2 DEF Envelope
  <2> QED
    BY <1>1, <2>1
<1> HIDE DEF e
<1>5. /\ env' \in [Call -> [Attempt -> Envelope]]
      /\ env'[c][a] = e
      /\ \A d \in Call, b \in Attempt : d # c \/ b # a => env'[d][b] = env[d][b]
  BY <1>3, <1>4, OneEnvelope
<1>6. e.seq = env[c][a].seq /\ e.answer = env[c][a].answer /\ e.fate = fate
  BY DEF e
<1>7. ledger' = Append(ledger, <<c, a>>) /\ <<c, a>> \in Call \X Attempt
  BY DEF Apply
<1>8. ledger \in Seq(Call \X Attempt)
  BY DEF LedgerTypes
<1>9. /\ ledger' \in Seq(Call \X Attempt)
      /\ Len(ledger') = Len(ledger) + 1
      /\ \A i \in 1 .. Len(ledger) : ledger'[i] = ledger[i]
      /\ ledger'[Len(ledger) + 1] = <<c, a>>
  BY <1>7, <1>8, AppendProperties
<1> QED
  BY <1>5, <1>6, <1>9

\* Every step keeps the types of what a call keeps and of the ledger.
LEMMA TypesStep ==
  ASSUME LockTypes, CallTypes, LedgerTypes, [Next]_vars
  PROVE  CallTypes' /\ LedgerTypes'
<1>0. /\ \A c \in Call : attempt[c] \in Attempt /\ attempt[c] \in Nat /\ attempt[c] \in 0 .. MaxAttempts
      /\ MaxAttempts \in Nat
      /\ ledger \in Seq(Call \X Attempt) /\ Len(ledger) \in Nat /\ ingested \in Nat
  BY SubmissionConstants, LenProperties DEF CallTypes, LedgerTypes, Attempt
<1>1. ASSUME NEW c \in Call, Join(c) \/ Invalid(c) \/ Enter(c) PROVE CallTypes' /\ LedgerTypes'
  BY <1>1 DEF Join, Invalid, Enter, ThrowOut, CallTypes, LedgerTypes
<1>2. ASSUME NEW c \in Call, LoadAndPost(c) PROVE CallTypes' /\ LedgerTypes'
  <2>1. CASE Post(c)
    BY <2>1, EnvelopePosted DEF Post, CallTypes, LedgerTypes
  <2>2. CASE ThrowOut(c) /\ UNCHANGED <<attempt, returned, env, ledger, ingested>>
    BY <2>2 DEF ThrowOut, CallTypes, LedgerTypes
  <2> QED
    BY <1>2, <2>1, <2>2 DEF LoadAndPost, Post, NextSequence
<1>3. ASSUME NEW c \in Call, AnswerPaid(c) PROVE CallTypes' /\ LedgerTypes'
  <2>1. LedgerTypes'
    BY <1>3, AnswerNoted DEF AnswerPaid, LedgerTypes
  <2>2. CallTypes'
    BY <1>0, <1>3 DEF AnswerPaid, ReturnHash, CallTypes
  <2> QED
    BY <2>1, <2>2
<1>4. ASSUME NEW c \in Call, AnswerRejected(c) PROVE CallTypes' /\ LedgerTypes'
  BY <1>4, RefusalNoted DEF AnswerRejected, ThrowOut, CallTypes, LedgerTypes
<1>5. ASSUME NEW c \in Call, AnswerBadSeq(c) \/ AnswerLost(c) \/ AnswerUnclear(c)
      PROVE CallTypes' /\ LedgerTypes'
  <2>1. PICK answer \in {"ok", "rejected", "bad_seq", "lost", "unclear"} : Answer(c, answer)
    BY <1>5 DEF AnswerBadSeq, AnswerLost, AnswerUnclear
  <2>2. LedgerTypes'
    BY <1>5, <2>1, AnswerNoted DEF AnswerBadSeq, AnswerLost, AnswerUnclear, LedgerTypes
  <2>3. CallTypes'
    BY <1>5 DEF AnswerBadSeq, AnswerLost, AnswerUnclear, ThrowOut, CallTypes
  <2> QED
    BY <2>2, <2>3
<1>6. ASSUME NEW c \in Call, LookUpFound(c) PROVE CallTypes' /\ LedgerTypes'
  BY <1>0, <1>6 DEF LookUpFound, ReturnHash, CallTypes, LedgerTypes
<1>7. ASSUME NEW c \in Call, LookUpMissed(c) PROVE CallTypes' /\ LedgerTypes'
  <2>1. LedgerTypes'
    BY <1>7 DEF LookUpMissed, LedgerTypes
  <2>2. AnotherAttempt(c) => attempt[c] + 1 \in Attempt
    BY <1>0 DEF AnotherAttempt, Attempt
  <2>3. CallTypes'
    BY <1>7, <2>2 DEF LookUpMissed, ThrowOut, CallTypes
  <2> QED
    BY <2>1, <2>3
<1>8. ASSUME NEW c \in Call, NEW a \in Attempt, Apply(c, a) PROVE CallTypes' /\ LedgerTypes'
  <2>1. ingested \in 0 .. Len(ledger')
    BY <1>0, <1>8, EnvelopeApplied DEF LedgerTypes
  <2>2. LedgerTypes'
    BY <1>8, <2>1, EnvelopeApplied DEF Apply, LedgerTypes
  <2>3. CallTypes'
    BY <1>8 DEF Apply, CallTypes
  <2> QED
    BY <2>2, <2>3
<1>9. CASE Ingest
  BY <1>0, <1>9 DEF Ingest, CallTypes, LedgerTypes
<1>10. ASSUME NEW h \in Host, CrashHost(h) PROVE CallTypes' /\ LedgerTypes'
  BY <1>10 DEF CrashHost, CallTypes, LedgerTypes
<1>11. CASE UNCHANGED vars
  BY <1>11 DEF vars, CallTypes, LedgerTypes
<1> QED
  BY <1>1, <1>2, <1>3, <1>4, <1>5, <1>6, <1>7, <1>8, <1>9, <1>10, <1>11
  DEF Next, SubmitPayment, Receive

\* A call's verdict is given when it ends.
LEMMA VerdictStep ==
  ASSUME LockTypes, CallTypes, VerdictFits, [Next]_vars
  PROVE  VerdictFits'
<1>1. ASSUME NEW c \in Call,
             Join(c) \/ Invalid(c) \/ Enter(c) \/ LoadAndPost(c) \/ LookUpFound(c) \/ LookUpMissed(c)
      PROVE VerdictFits'
  BY <1>1 DEF Join, Invalid, Enter, LoadAndPost, LookUpFound, LookUpMissed, ThrowOut, ReturnHash,
    Goto, LockTypes, CallTypes, VerdictFits, Running
<1>2. ASSUME NEW c \in Call, Receive(c) PROVE VerdictFits'
  BY <1>2 DEF Receive, AnswerPaid, AnswerRejected, AnswerBadSeq, AnswerLost, AnswerUnclear,
    ThrowOut, ReturnHash, Goto, LockTypes, CallTypes, VerdictFits, Running
<1>3. ASSUME NEW c \in Call, NEW a \in Attempt, Apply(c, a) PROVE VerdictFits'
  BY <1>3 DEF Apply, VerdictFits, Running
<1>4. CASE Ingest
  BY <1>4 DEF Ingest, VerdictFits, Running
<1>5. ASSUME NEW h \in Host, CrashHost(h) PROVE VerdictFits'
  BY <1>5 DEF CrashHost, LockTypes, VerdictFits, Running
<1>6. CASE UNCHANGED vars
  BY <1>6 DEF vars, VerdictFits, Running
<1> QED
  BY <1>1, <1>2, <1>3, <1>4, <1>5, <1>6 DEF Next, SubmitPayment

\* A call that stays where it is, and whose envelopes keep being built and keep
\* their answers, stays in order.
LEMMA OrderKept ==
  ASSUME CallTypes, NEW c \in Call, InOrder(c),
         pc'[c] = pc[c], attempt'[c] = attempt[c],
         \A a \in Attempt : env'[c][a] = env[c][a]
  PROVE  InOrder(c)'
BY DEF CallTypes, InOrder, Current, Unbuilt

\* Every step keeps the order of the attempts.
LEMMA AttemptsStep ==
  ASSUME LockTypes, CallTypes, LedgerTypes, AttemptsInOrder, [Next]_vars
  PROVE  AttemptsInOrder'
<1>0. /\ \A c \in Call : attempt[c] \in Attempt /\ attempt[c] \in Nat /\ InOrder(c)
      /\ \A a \in Attempt : a \in Nat
  BY SubmissionConstants DEF CallTypes, Attempt, AttemptsInOrder
<1>1. ASSUME NEW c \in Call, Join(c) \/ Invalid(c) \/ Enter(c) \/ LookUpFound(c),
             NEW d \in Call
      PROVE InOrder(d)'
  <2>1. UNCHANGED <<attempt, env>> /\ pc' \in [Call -> Place] /\ (d # c => pc'[d] = pc[d])
    BY <1>1 DEF Join, Invalid, Enter, LookUpFound, ThrowOut, ReturnHash, Goto, LockTypes, Place
  <2>2. \/ pc[c] \in {"idle", "waiting"} /\ pc'[c] \in {"waiting", "loading", "done"}
        \/ pc'[c] = "done"
    BY <1>1 DEF Join, Invalid, Enter, LookUpFound, ThrowOut, ReturnHash, Goto, LockTypes
  <2> QED
    BY <1>0, <2>1, <2>2, OrderKept DEF InOrder, Current
<1>2. ASSUME NEW c \in Call, LoadAndPost(c), NEW d \in Call PROVE InOrder(d)'
  <2>1. CASE Post(c)
    <3>1. UNCHANGED attempt /\ pc'[c] = "posted" /\ (d # c => pc'[d] = pc[d])
      BY <2>1 DEF Post, Goto, LockTypes
    <3>2. CASE d # c
      BY <1>0, <2>1, <3>1, <3>2, EnvelopePosted, OrderKept
    <3>3. CASE d = c
      <4>1. /\ env'[c][attempt[c]].fate = "sent" /\ env'[c][attempt[c]].answer = "none"
            /\ \A b \in Attempt : b # attempt[c] => env'[c][b] = env[c][b]
        BY <2>1, EnvelopePosted
      <4> QED
        BY <1>0, <3>1, <3>3, <4>1 DEF InOrder, Current
    <3> QED
      BY <3>2, <3>3
  <2>2. CASE ThrowOut(c) /\ UNCHANGED <<attempt, env>>
    BY <1>0, <2>2 DEF ThrowOut, Goto, LockTypes, InOrder, Current
  <2> QED
    BY <1>2, <2>1, <2>2 DEF LoadAndPost, Post, NextSequence
<1>3. ASSUME NEW c \in Call, Receive(c), NEW d \in Call PROVE InOrder(d)'
  <2>1. /\ UNCHANGED attempt
        /\ \A b \in Attempt : d # c \/ b # attempt[c] => env'[d][b] = env[d][b]
        /\ d # c => pc'[d] = pc[d]
        /\ \/ pc'[c] = "done"
           \/ pc'[c] = "uncertain" /\ env'[c][attempt[c]].answer = "lost"
           \/ pc'[c] = "bad_seq" /\ env'[c][attempt[c]].answer = "bad_seq"
    BY <1>3, AnswerReceived DEF Goto, LockTypes
  <2>2. CASE d # c
    BY <1>0, <2>1, <2>2, OrderKept
  <2>3. CASE d = c
    BY <1>0, <2>1, <2>3 DEF InOrder, Current
  <2> QED
    BY <2>2, <2>3
<1>4. ASSUME NEW c \in Call, LookUpMissed(c), NEW d \in Call PROVE InOrder(d)'
  <2>1. CASE d # c
    <3>1. pc'[d] = pc[d] /\ attempt'[d] = attempt[d] /\ env' = env
      BY <1>4, <2>1 DEF LookUpMissed, ThrowOut, Goto, LockTypes, CallTypes
    <3> QED
      BY <1>0, <3>1, OrderKept
  <2>2. CASE d = c /\ pc'[c] = "done" /\ UNCHANGED <<attempt, env>>
    BY <1>0, <2>2 DEF InOrder, Current
  <2>3. CASE d = c /\ AnotherAttempt(c) /\ pc'[c] = "loading" /\ attempt'[c] = attempt[c] + 1 /\ env' = env
    <3>1. attempt[c] + 1 \in Attempt
      BY <1>0, <2>3, SubmissionConstants DEF AnotherAttempt, Attempt
    <3>2. Current(c).answer \in {"lost", "bad_seq"}
      BY <1>0, <1>4 DEF LookUpMissed, InOrder
    <3>3. \A a \in Attempt : a < attempt[c] + 1 => env[c][a].answer \in {"lost", "bad_seq"}
      BY <1>0, <3>2 DEF InOrder, Current
    <3>4. env[c][attempt[c] + 1] = Unbuilt /\ \A a \in Attempt : a > attempt[c] + 1 => env[c][a] = Unbuilt
      BY <1>0, <3>1 DEF InOrder
    <3> QED
      BY <2>3, <3>3, <3>4 DEF InOrder, Current, Unbuilt
  <2> QED
    BY <1>4, <2>1, <2>2, <2>3 DEF LookUpMissed, ThrowOut, Goto, LockTypes, CallTypes
<1>5. ASSUME NEW c \in Call, NEW a \in Attempt, Apply(c, a), NEW d \in Call PROVE InOrder(d)'
  <2>1. UNCHANGED <<pc, attempt>> /\ env[c][a].fate = "sent"
    BY <1>5 DEF Apply
  <2>2. \A b \in Attempt : d # c \/ b # a => env'[d][b] = env[d][b]
    BY <1>5, EnvelopeApplied
  <2>3. env'[c][a].fate \in {"paid", "unsuccessful"} /\ env'[c][a].answer = env[c][a].answer
    BY <1>5, EnvelopeApplied
  <2>4. env[c][a] # Unbuilt
    BY <2>1 DEF Unbuilt
  <2>5. CASE d # c
    BY <1>0, <2>1, <2>2, <2>5, OrderKept
  <2>6. CASE d = c
    BY <1>0, <2>1, <2>2, <2>3, <2>4, <2>6 DEF InOrder, Current, Unbuilt
  <2> QED
    BY <2>5, <2>6
<1>6. ASSUME UNCHANGED <<attempt, env>>,
             \A d \in Call : pc'[d] = pc[d] \/ pc'[d] = "crashed", NEW d \in Call
      PROVE InOrder(d)'
  BY <1>0, <1>6 DEF InOrder, Current
<1>7. CASE Ingest
  BY <1>6, <1>7 DEF Ingest, AttemptsInOrder
<1>8. ASSUME NEW h \in Host, CrashHost(h) PROVE AttemptsInOrder'
  BY <1>6, <1>8 DEF CrashHost, AttemptsInOrder
<1>9. CASE UNCHANGED vars
  BY <1>6, <1>9 DEF vars, AttemptsInOrder
<1> QED
  BY <1>1, <1>2, <1>3, <1>4, <1>5, <1>7, <1>8, <1>9 DEF Next, SubmitPayment, AttemptsInOrder
-----------------------------------------------------------------------------
(* The ledger and the sequence numbers *)

\* A step that neither builds an envelope nor puts one on the ledger.
Undisturbed ==
  /\ ledger' = ledger
  /\ ingested' \in Nat /\ ingested <= ingested'
  /\ \A c \in Call, a \in Attempt :
       /\ env'[c][a].seq = env[c][a].seq
       /\ Built(c, a)' <=> Built(c, a)
       /\ OnLedger(c, a)' <=> OnLedger(c, a)
       /\ OnLedger(c, a) => env'[c][a].fate = env[c][a].fate

LEMMA StepKinds ==
  ASSUME LockTypes, CallTypes, LedgerTypes, [Next]_vars
  PROVE  \/ \E c \in Call, a \in Attempt : Apply(c, a)
         \/ \E c \in Call : Post(c)
         \/ Undisturbed
<1>0. ingested \in Nat /\ \A c \in Call : attempt[c] \in Attempt
  BY LenProperties DEF CallTypes, LedgerTypes
<1>1. ASSUME UNCHANGED <<env, ledger, ingested>> PROVE Undisturbed
  BY <1>0, <1>1 DEF Undisturbed, Built, OnLedger
<1>2. ASSUME NEW c \in Call, Join(c) \/ Invalid(c) \/ Enter(c) \/ LookUpFound(c) \/ LookUpMissed(c)
      PROVE Undisturbed
  BY <1>1, <1>2 DEF Join, Invalid, Enter, LookUpFound, LookUpMissed
<1>3. ASSUME NEW c \in Call, LoadAndPost(c) PROVE Post(c) \/ Undisturbed
  BY <1>1, <1>3 DEF LoadAndPost, Post, NextSequence
<1>4. ASSUME NEW c \in Call, Receive(c) PROVE Undisturbed
  <2>1. UNCHANGED <<ledger, ingested>>
    BY <1>4, AnswerReceived
  <2>2. ASSUME NEW d \in Call, NEW a \in Attempt, d # c \/ a # attempt[c]
        PROVE  env'[d][a] = env[d][a]
    BY <1>4, <2>2, AnswerReceived
  <2>3. /\ env'[c][attempt[c]].seq = env[c][attempt[c]].seq
        /\ \/ env'[c][attempt[c]].fate = env[c][attempt[c]].fate
           \/ env[c][attempt[c]].fate = "sent" /\ env'[c][attempt[c]].fate = "dropped"
    BY <1>4, AnswerReceived DEF Current
  <2> QED
    BY <1>0, <2>1, <2>2, <2>3 DEF Undisturbed, Built, OnLedger
<1>5. CASE Ingest
  BY <1>0, <1>5 DEF Ingest, Undisturbed, Built, OnLedger
<1>6. ASSUME NEW h \in Host, CrashHost(h) PROVE Undisturbed
  BY <1>1, <1>6 DEF CrashHost
<1>7. CASE UNCHANGED vars
  BY <1>1, <1>7 DEF vars
<1> QED
  BY <1>2, <1>3, <1>4, <1>5, <1>6, <1>7 DEF Next, SubmitPayment

\* Every step keeps the envelopes of the ledger at their sequence numbers.
LEMMA LedgerStep ==
  ASSUME LockTypes, CallTypes, LedgerTypes, AttemptsInOrder, LedgerBySequence, [Next]_vars
  PROVE  LedgerBySequence'
<1>0. Len(ledger) \in Nat
  BY LenProperties DEF LedgerTypes
<1>1. CASE Undisturbed
  BY <1>0, <1>1 DEF Undisturbed, LedgerBySequence, OnLedger
<1>2. ASSUME NEW c \in Call, Post(c) PROVE LedgerBySequence'
  <2>1. attempt[c] \in Attempt /\ ledger' = ledger
    BY <1>2 DEF CallTypes, Post
  <2>2. ~OnLedger(c, attempt[c])
    BY <1>2 DEF Post, AttemptsInOrder, InOrder, Current, Unbuilt, OnLedger
  <2>3. /\ env'[c][attempt[c]].fate = "sent"
        /\ \A d \in Call, b \in Attempt : d # c \/ b # attempt[c] => env'[d][b] = env[d][b]
    BY <1>2, EnvelopePosted
  <2>4. \A d \in Call, b \in Attempt :
          /\ OnLedger(d, b)' <=> OnLedger(d, b)
          /\ OnLedger(d, b) => env'[d][b].seq = env[d][b].seq
    BY <2>1, <2>2, <2>3 DEF OnLedger
  <2> QED
    BY <1>0, <2>1, <2>4 DEF LedgerBySequence, OnLedger
<1>3. ASSUME NEW c \in Call, NEW a \in Attempt, Apply(c, a) PROVE LedgerBySequence'
  <2>1. /\ env'[c][a].seq = Len(ledger) + 1
        /\ OnLedger(c, a)' /\ ~OnLedger(c, a)
    BY <1>3, EnvelopeApplied DEF Apply, OnLedger
  <2>2. /\ \A d \in Call, b \in Attempt : d # c \/ b # a => env'[d][b] = env[d][b]
        /\ Len(ledger') = Len(ledger) + 1
        /\ \A i \in 1 .. Len(ledger) : ledger'[i] = ledger[i]
        /\ ledger'[Len(ledger) + 1] = <<c, a>>
    BY <1>3, EnvelopeApplied
  <2>3. ASSUME NEW i \in 1 .. Len(ledger')
        PROVE  \E d \in Call, b \in Attempt : OnLedger(d, b)' /\ env'[d][b].seq = i
    <3>1. CASE i = Len(ledger) + 1
      BY <2>1, <3>1
    <3>2. CASE i # Len(ledger) + 1
      <4>1. i \in 1 .. Len(ledger)
        BY <1>0, <2>2, <3>2
      <4>2. PICK d \in Call, b \in Attempt : OnLedger(d, b) /\ env[d][b].seq = i
        BY <4>1 DEF LedgerBySequence
      <4>3. env'[d][b] = env[d][b]
        BY <2>1, <2>2, <4>2
      <4> QED
        BY <4>2, <4>3 DEF OnLedger
    <3> QED
      BY <3>1, <3>2
  <2>4. ASSUME NEW d \in Call, NEW b \in Attempt, OnLedger(d, b)'
        PROVE  env'[d][b].seq \in 1 .. Len(ledger') /\ ledger'[env'[d][b].seq] = <<d, b>>
    <3>1. CASE d = c /\ b = a
      BY <1>0, <2>1, <2>2, <3>1
    <3>2. CASE d # c \/ b # a
      <4>1. env'[d][b] = env[d][b] /\ OnLedger(d, b)
        BY <2>2, <2>4, <3>2 DEF OnLedger
      <4>2. env[d][b].seq \in 1 .. Len(ledger) /\ ledger[env[d][b].seq] = <<d, b>>
        BY <4>1 DEF LedgerBySequence
      <4> QED
        BY <1>0, <2>2, <4>1, <4>2
    <3> QED
      BY <3>1, <3>2
  <2> QED
    BY <2>3, <2>4 DEF LedgerBySequence, OnLedger
<1> QED
  BY <1>1, <1>2, <1>3, StepKinds

\* Every step keeps a call's sequence numbers in the order of its attempts.
LEMMA SequencesStep ==
  ASSUME LockTypes, CallTypes, LedgerTypes, AttemptsInOrder, SequencesGrow, [Next]_vars
  PROVE  SequencesGrow'
<1>0. /\ ingested \in Nat
      /\ \A c \in Call : attempt[c] \in Attempt
      /\ \A a \in Attempt : a \in Nat
      /\ \A c \in Call, a \in Attempt : env[c][a].seq \in Nat
  <2>1. \A c \in Call, a \in Attempt : env[c][a] \in Envelope
    BY DEF LedgerTypes
  <2>2. \A c \in Call, a \in Attempt : env[c][a].seq \in Nat
    BY <2>1 DEF Envelope
  <2> QED
    BY <2>2, LenProperties DEF CallTypes, LedgerTypes, Attempt
<1>1. CASE Undisturbed
  <2>1. ASSUME NEW c \in Call, NEW a \in Attempt, Built(c, a)'
        PROVE  env'[c][a].seq \in 1 .. ingested' + 1
    BY <1>0, <1>1, <2>1 DEF Undisturbed, SequencesGrow
  <2> QED
    BY <1>1, <2>1 DEF Undisturbed, SequencesGrow
<1>2. ASSUME NEW c \in Call, Post(c) PROVE SequencesGrow'
  <2>1. attempt[c] \in Attempt /\ ingested' = ingested
    BY <1>0, <1>2 DEF Post
  <2>2. \A b \in Attempt : b > attempt[c] => ~Built(c, b)
    BY <1>2 DEF AttemptsInOrder, InOrder, Built, Unbuilt
  <2>3. env'[c][attempt[c]].seq = ingested + 1
    BY <1>2, EnvelopePosted
  <2>4. \A d \in Call, b \in Attempt : d # c \/ b # attempt[c] =>
          env'[d][b].seq = env[d][b].seq /\ (Built(d, b)' <=> Built(d, b))
    BY <1>2, EnvelopePosted DEF Built
  <2>5. ASSUME NEW d \in Call, NEW a \in Attempt, Built(d, a)'
        PROVE  env'[d][a].seq \in 1 .. ingested + 1
    BY <1>0, <2>3, <2>4, <2>5 DEF SequencesGrow
  <2>6. ASSUME NEW d \in Call, NEW a \in Attempt, Built(d, a)',
               NEW b \in Attempt, a < b, Built(d, b)'
        PROVE  env'[d][a].seq <= env'[d][b].seq
    <3>1. CASE d = c /\ b = attempt[c]
      BY <1>0, <2>3, <2>5, <2>6, <3>1
    <3>2. CASE d = c /\ a = attempt[c]
      <4>1. b > attempt[c] /\ Built(c, b)
        BY <1>0, <2>4, <2>6, <3>2
      <4> QED
        BY <2>2, <4>1
    <3>3. CASE d # c \/ (a # attempt[c] /\ b # attempt[c])
      BY <2>4, <2>6, <3>3 DEF SequencesGrow
    <3> QED
      BY <3>1, <3>2, <3>3
  <2> QED
    BY <2>1, <2>5, <2>6 DEF SequencesGrow
<1>3. ASSUME NEW c \in Call, NEW a \in Attempt, Apply(c, a) PROVE SequencesGrow'
  <2>1. \A d \in Call, b \in Attempt :
          env'[d][b].seq = env[d][b].seq /\ (Built(d, b)' <=> Built(d, b))
    BY <1>3, EnvelopeApplied DEF Apply, Built
  <2>2. ingested' = ingested
    BY <1>3 DEF Apply
  <2> QED
    BY <2>1, <2>2 DEF SequencesGrow
<1> QED
  BY <1>1, <1>2, <1>3, StepKinds

\* What Horizon shows is on the ledger, among the ingested.
LEMMA ShownIsOnLedger ==
  ASSUME LedgerTypes, LedgerBySequence, NEW c \in Call, NEW a \in Attempt, Shown(c, a)
  PROVE  OnLedger(c, a) /\ env[c][a].seq <= ingested
<1>1. PICK i \in 1 .. ingested : ledger[i] = <<c, a>>
  BY DEF Shown
<1>2. Len(ledger) \in Nat /\ ingested \in 0 .. Len(ledger)
  BY LenProperties DEF LedgerTypes
<1>3. PICK d \in Call, b \in Attempt : OnLedger(d, b) /\ env[d][b].seq = i
  BY <1>2 DEF LedgerBySequence
<1>4. <<d, b>> = <<c, a>>
  BY <1>1, <1>3 DEF LedgerBySequence
<1> QED
  BY <1>2, <1>3, <1>4

\* The ledger keeps what it has.
LEMMA LedgerKeeps ==
  ASSUME LockTypes, CallTypes, LedgerTypes, AttemptsInOrder, [Next]_vars,
         NEW c \in Call, NEW a \in Attempt, OnLedger(c, a)
  PROVE  OnLedger(c, a)' /\ env'[c][a].seq = env[c][a].seq
<1>1. CASE Undisturbed
  BY <1>1 DEF Undisturbed
<1>2. ASSUME NEW d \in Call, Post(d) PROVE OnLedger(c, a)' /\ env'[c][a].seq = env[c][a].seq
  <2>1. d # c \/ a # attempt[d]
    BY <1>2 DEF Post, AttemptsInOrder, InOrder, Current, Unbuilt, OnLedger
  <2>2. env'[c][a] = env[c][a]
    BY <1>2, <2>1, EnvelopePosted
  <2> QED
    BY <2>2 DEF OnLedger
<1>3. ASSUME NEW d \in Call, NEW b \in Attempt, Apply(d, b)
      PROVE  OnLedger(c, a)' /\ env'[c][a].seq = env[c][a].seq
  <2>1. d # c \/ a # b
    BY <1>3 DEF Apply, OnLedger
  <2>2. env'[c][a] = env[c][a]
    BY <1>3, <2>1, EnvelopeApplied
  <2> QED
    BY <2>2 DEF OnLedger
<1> QED
  BY <1>1, <1>2, <1>3, StepKinds

\* Every step keeps returned hashes on the ledger.
LEMMA ReturnedStep ==
  ASSUME LockTypes, CallTypes, LedgerTypes, VerdictFits, AttemptsInOrder, LedgerBySequence,
         ReturnedIsThere, [Next]_vars
  PROVE  ReturnedIsThere'
<1>0. \A c \in Call : attempt[c] \in Attempt
  BY DEF CallTypes
<1>1. ASSUME NEW d \in Call, verdict'[d] = "ok", verdict[d] = "ok",
             returned'[d] = returned[d], attempt'[d] = attempt[d]
      PROVE  returned'[d] = attempt'[d] /\ OnLedger(d, attempt[d])'
  <2>1. returned[d] = attempt[d] /\ OnLedger(d, attempt[d])
    BY <1>1 DEF ReturnedIsThere
  <2> QED
    BY <1>0, <1>1, <2>1, LedgerKeeps DEF OnLedger
<1>2. ASSUME NEW c \in Call,
             verdict' = [verdict EXCEPT ![c] = "error"] \/ verdict' = [verdict EXCEPT ![c] = "open"]
               \/ (verdict' = verdict /\ verdict[c] # "ok"),
             \A d \in Call : d # c => returned'[d] = returned[d] /\ attempt'[d] = attempt[d]
      PROVE  ReturnedIsThere'
  BY <1>1, <1>2 DEF CallTypes, ReturnedIsThere, OnLedger
<1>3. ASSUME NEW c \in Call, ReturnHash(c), UNCHANGED attempt, OnLedger(c, attempt[c])
      PROVE  ReturnedIsThere'
  <2>1. OnLedger(c, attempt[c])'
    BY <1>0, <1>3, LedgerKeeps DEF OnLedger
  <2> QED
    BY <1>1, <1>3, <2>1 DEF ReturnHash, CallTypes, ReturnedIsThere, OnLedger
<1>4. ASSUME NEW c \in Call, Join(c) \/ Invalid(c) \/ Enter(c) \/ LoadAndPost(c) PROVE ReturnedIsThere'
  <2>1. verdict[c] # "ok"
    BY <1>4 DEF Join, Invalid, Enter, LoadAndPost, VerdictFits, Running
  <2> QED
    BY <1>2, <1>4, <2>1 DEF Join, Invalid, Enter, LoadAndPost, ThrowOut
<1>5. ASSUME NEW c \in Call, AnswerPaid(c) PROVE ReturnedIsThere'
  BY <1>3, <1>5 DEF AnswerPaid, Current, OnLedger
<1>6. ASSUME NEW c \in Call,
             AnswerRejected(c) \/ AnswerBadSeq(c) \/ AnswerLost(c) \/ AnswerUnclear(c)
      PROVE ReturnedIsThere'
  <2>1. verdict[c] # "ok"
    BY <1>6 DEF AnswerRejected, AnswerBadSeq, AnswerLost, AnswerUnclear, VerdictFits, Running
  <2> QED
    BY <1>2, <1>6, <2>1 DEF AnswerRejected, AnswerBadSeq, AnswerLost, AnswerUnclear, ThrowOut
<1>7. ASSUME NEW c \in Call, LookUpFound(c) PROVE ReturnedIsThere'
  BY <1>0, <1>3, <1>7, ShownIsOnLedger DEF LookUpFound, Recovered
<1>8. ASSUME NEW c \in Call, LookUpMissed(c) PROVE ReturnedIsThere'
  <2>1. verdict[c] # "ok"
    BY <1>8 DEF LookUpMissed, VerdictFits, Running
  <2> QED
    BY <1>2, <1>8, <2>1 DEF LookUpMissed, ThrowOut, CallTypes
<1>9. ASSUME UNCHANGED <<verdict, returned, attempt>> PROVE ReturnedIsThere'
  BY <1>1, <1>9 DEF ReturnedIsThere, OnLedger
<1>10. ASSUME NEW c \in Call, NEW a \in Attempt, Apply(c, a) PROVE ReturnedIsThere'
  BY <1>9, <1>10 DEF Apply
<1>11. CASE Ingest
  BY <1>9, <1>11 DEF Ingest
<1>12. ASSUME NEW h \in Host, CrashHost(h) PROVE ReturnedIsThere'
  BY <1>9, <1>12 DEF CrashHost
<1>13. CASE UNCHANGED vars
  BY <1>9, <1>13 DEF vars
<1> QED
  BY <1>4, <1>5, <1>6, <1>7, <1>8, <1>10, <1>11, <1>12, <1>13 DEF Next, SubmitPayment, Receive
-----------------------------------------------------------------------------
(* One process that heard the outcome of each envelope *)

\* An answer, once noted, stays.
LEMMA AnswersStay ==
  ASSUME LockTypes, CallTypes, LedgerTypes, AttemptsInOrder, [Next]_vars,
         NEW c \in Call, NEW a \in Attempt, env[c][a].answer # "none"
  PROVE  env'[c][a].answer = env[c][a].answer
<1>1. ASSUME NEW d \in Call, Receive(d) PROVE env'[c][a].answer = env[c][a].answer
  <2>1. pc[d] = "posted"
    BY <1>1, AnswerReceived
  <2>2. c # d \/ a # attempt[d]
    BY <2>1 DEF AttemptsInOrder, InOrder, Current
  <2>3. env'[c][a] = env[c][a]
    BY <1>1, <2>2, AnswerReceived
  <2> QED
    BY <2>3
<1>2. ASSUME NEW d \in Call, LoadAndPost(d) PROVE env'[c][a].answer = env[c][a].answer
  <2>1. CASE Post(d)
    <3>1. c # d \/ a # attempt[d]
      BY <2>1 DEF Post, AttemptsInOrder, InOrder, Current, Unbuilt
    <3>2. env'[c][a] = env[c][a]
      BY <2>1, <3>1, EnvelopePosted
    <3> QED
      BY <3>2
  <2> QED
    BY <1>2, <2>1 DEF LoadAndPost, Post, NextSequence
<1>3. ASSUME NEW d \in Call, NEW b \in Attempt, Apply(d, b)
      PROVE  env'[c][a].answer = env[c][a].answer
  <2>1. CASE d = c /\ b = a
    BY <1>3, <2>1, EnvelopeApplied
  <2>2. CASE d # c \/ b # a
    <3>1. env'[c][a] = env[c][a]
      BY <1>3, <2>2, EnvelopeApplied
    <3> QED
      BY <3>1
  <2> QED
    BY <2>1, <2>2
<1> QED
  BY <1>1, <1>2, <1>3
  DEF Next, SubmitPayment, Join, Invalid, Enter, LookUpFound, LookUpMissed, Ingest, CrashHost, vars

\* A stopped process, a lost answer or a second process is never undone.
LEMMA AloneBefore ==
  ASSUME LockTypes, CallTypes, LedgerTypes, AttemptsInOrder, [Next]_vars, Alone'
  PROVE  Alone
<1>1. UNCHANGED at
  BY AnswerReceived DEF Next, SubmitPayment, Join, Invalid, Enter, LoadAndPost, LookUpFound,
    LookUpMissed, Apply, Ingest, CrashHost, vars
<1>2. ASSUME NEW d \in Call, pc[d] = "crashed" PROVE pc'[d] = "crashed"
  <2>1. ASSUME NEW c \in Call, SubmitPayment(c)
        PROVE  pc[c] # "crashed" /\ \A e \in Call : e # c => pc'[e] = pc[e]
    <3>1. CASE Receive(c)
      <4>1. pc[c] = "posted" /\ (Goto(c, "done") \/ Goto(c, "uncertain") \/ Goto(c, "bad_seq"))
        BY <3>1, AnswerReceived
      <4> QED
        BY <4>1 DEF Goto, LockTypes
    <3>2. CASE ~Receive(c)
      BY <2>1, <3>2 DEF SubmitPayment, Join, Invalid, Enter, LoadAndPost, LookUpFound,
        LookUpMissed, ThrowOut, ReturnHash, Goto, LockTypes
    <3> QED
      BY <3>1, <3>2
  <2>2. ASSUME NEW h \in Host, CrashHost(h) PROVE pc'[d] = "crashed"
    BY <1>2, <2>2 DEF CrashHost, Running
  <2> QED
    BY <1>2, <2>1, <2>2 DEF Next, Apply, Ingest, vars
<1>3. ASSUME NEW c \in Call, NEW a \in Attempt, Unheard(c, a) PROVE Unheard(c, a)'
  <2>1. env'[c][a].answer = env[c][a].answer
    BY <1>3, AnswersStay DEF Unheard
  <2>2. OnLedger(c, a) => OnLedger(c, a)'
    BY LedgerKeeps
  <2> QED
    BY <1>3, <2>1, <2>2 DEF Unheard
<1> QED
  BY <1>1, <1>2, <1>3 DEF Alone

\* Of the calls of one process one at most is past the lock.
LEMMA OneAtWork ==
  ASSUME LockTypes, LockInv, Alone, NEW c \in Call, NEW d \in Call, Working(c), Working(d)
  PROVE  c = d
BY HolderIsHead DEF Alone, HoldsLock

\* Every step keeps Horizon level with the ledger, but for the one in flight.
LEMMA LevelStep ==
  ASSUME LockTypes, LockInv, CallTypes, LedgerTypes, AttemptsInOrder, LedgerBySequence,
         SequencesGrow, LevelWhenAlone, [Next]_vars
  PROVE  LevelWhenAlone'
<1> SUFFICES ASSUME Alone' PROVE Level'
  BY DEF LevelWhenAlone
<1>1. Alone /\ Level
  BY AloneBefore DEF LevelWhenAlone
<1>2. /\ Len(ledger) \in Nat /\ ingested \in 0 .. Len(ledger)
      /\ \A c \in Call : attempt[c] \in Attempt
      /\ \A c \in Call, a \in Attempt : env[c][a].seq \in Nat
  <2>1. \A c \in Call, a \in Attempt : env[c][a] \in Envelope
    BY DEF LedgerTypes
  <2>2. \A c \in Call, a \in Attempt : env[c][a].seq \in Nat
    BY <2>1 DEF Envelope
  <2> QED
    BY <2>2, LenProperties DEF LedgerTypes, CallTypes
<1>3. ASSUME NEW c \in Call, NEW d \in Call, Working(c), pc[d] = "posted" PROVE d = c
  BY <1>1, <1>3, OneAtWork DEF Working
<1>4. ASSUME UNCHANGED <<env, ledger, ingested>>,
             \A d \in Call : pc[d] = "posted" => pc'[d] = "posted" /\ attempt'[d] = attempt[d]
      PROVE  Level'
  BY <1>1, <1>4 DEF Level, InFlight, OnLedger
<1>5. ASSUME NEW c \in Call, Join(c) \/ Invalid(c) \/ Enter(c) PROVE Level'
  BY <1>4, <1>5 DEF Join, Invalid, Enter, ThrowOut, Goto, LockTypes
<1>6. ASSUME NEW c \in Call, LoadAndPost(c) PROVE Level'
  <2>1. CASE Post(c)
    <3>1. /\ \A d \in Call : pc[d] # "posted"
          /\ pc[c] = "loading" /\ pc'[c] = "posted" /\ UNCHANGED <<attempt, ledger, ingested>>
      BY <1>3, <2>1 DEF Post, Goto, LockTypes, Working
    <3>2. \A d \in Call, a \in Attempt : env[d][a].fate # "sent" /\ (OnLedger(d, a) => env[d][a].seq <= ingested)
      BY <1>1, <1>2, <3>1 DEF Level, InFlight
    <3>3. ingested = Len(ledger)
      <4>1. SUFFICES ASSUME ingested < Len(ledger) PROVE FALSE
        BY <1>2
      <4>2. PICK d \in Call, a \in Attempt : OnLedger(d, a) /\ env[d][a].seq = Len(ledger)
        BY <1>2, <4>1 DEF LedgerBySequence
      <4> QED
        BY <1>2, <3>2, <4>1, <4>2
    <3>4. /\ env'[c][attempt[c]].seq = ingested + 1
          /\ env'[c][attempt[c]].fate = "sent" /\ env'[c][attempt[c]].answer = "none"
          /\ \A d \in Call, b \in Attempt : d # c \/ b # attempt[c] => env'[d][b] = env[d][b]
      BY <2>1, EnvelopePosted
    <3>5. ASSUME NEW d \in Call, NEW a \in Attempt
          PROVE  /\ env'[d][a].answer # "bad_seq"
                 /\ env'[d][a].fate = "sent" => InFlight(d, a)' /\ env'[d][a].seq = Len(ledger) + 1
                 /\ ~(OnLedger(d, a)' /\ env'[d][a].seq > ingested)
      <4>1. CASE d = c /\ a = attempt[c]
        BY <3>1, <3>3, <3>4, <4>1 DEF InFlight, OnLedger
      <4>2. CASE d # c \/ a # attempt[c]
        <5>1. env'[d][a] = env[d][a]
          BY <3>4, <4>2
        <5> QED
          BY <1>1, <1>2, <3>2, <5>1 DEF Level, OnLedger
      <4> QED
        BY <4>1, <4>2
    <3> QED
      BY <3>1, <3>5 DEF Level
  <2>2. CASE ThrowOut(c) /\ UNCHANGED <<attempt, env, ledger, ingested>> /\ pc[c] = "loading"
    BY <1>4, <2>2 DEF ThrowOut, Goto, LockTypes
  <2> QED
    BY <1>6, <2>1, <2>2 DEF LoadAndPost, Post, NextSequence
<1>7. ASSUME NEW c \in Call, Receive(c) PROVE Level'
  <2>1. /\ pc[c] = "posted" /\ UNCHANGED <<attempt, ledger, ingested>>
        /\ \A d \in Call, b \in Attempt : d # c \/ b # attempt[c] => env'[d][b] = env[d][b]
        /\ env'[c][attempt[c]].seq = Current(c).seq
        /\ \/ env'[c][attempt[c]].fate = Current(c).fate
           \/ Current(c).fate = "sent" /\ env'[c][attempt[c]].fate = "dropped"
    BY <1>7, AnswerReceived
  <2>2. /\ \A d \in Call : pc[d] = "posted" => d = c
        /\ Current(c).fate \notin {"absent", "dropped"}
    BY <1>3, <2>1 DEF Working, AttemptsInOrder, InOrder
  <2>3. AnswerPaid(c) \/ AnswerRejected(c)
    <3>1. ASSUME AnswerLost(c) \/ AnswerUnclear(c) PROVE FALSE
      <4>1. PICK answer \in {"lost", "unclear"} : Answer(c, answer)
        BY <3>1 DEF AnswerLost, AnswerUnclear
      <4>2. env'[c][attempt[c]].answer \in {"lost", "unclear"}
        BY <4>1, AnswerNoted
      <4> QED
        BY <1>2, <4>2 DEF Alone, Unheard
    <3>2. ASSUME AnswerBadSeq(c) PROVE FALSE
      <4>1. Current(c).seq <= Len(ledger) /\ Answer(c, "bad_seq")
        BY <3>2 DEF AnswerBadSeq
      <4>2. Current(c).fate # "sent"
        BY <1>1, <1>2, <4>1 DEF Level, Current
      <4>3. Current(c).fate \in Fate
        BY <1>2 DEF LedgerTypes, Current, Envelope
      <4>4. Current(c).fate \in {"paid", "unsuccessful"}
        BY <2>2, <4>2, <4>3 DEF Fate
      <4>5. env'[c][attempt[c]].answer = "bad_seq" /\ env'[c][attempt[c]].fate = Current(c).fate
        BY <4>1, AnswerNoted
      <4> QED
        BY <1>2, <4>4, <4>5 DEF Alone, Unheard, OnLedger
    <3> QED
      BY <1>7, <3>1, <3>2 DEF Receive
  <2>4. env'[c][attempt[c]].answer # "bad_seq" /\ env'[c][attempt[c]].fate # "sent"
    <3>1. CASE AnswerPaid(c)
      <4>1. Answer(c, "ok") /\ Current(c).fate = "paid"
        BY <3>1 DEF AnswerPaid
      <4>2. env'[c][attempt[c]].answer = "ok" /\ env'[c][attempt[c]].fate = Current(c).fate
        BY <4>1, AnswerNoted
      <4> QED
        BY <4>1, <4>2
    <3>2. CASE AnswerRejected(c)
      <4>1. /\ env'[c][attempt[c]].answer = "rejected"
            /\ env'[c][attempt[c]].fate =
                 IF Current(c).fate = "sent" THEN "dropped" ELSE Current(c).fate
        BY <3>2, RefusalNoted
      <4> QED
        BY <4>1
    <3> QED
      BY <2>3, <3>1, <3>2
  <2>5. OnLedger(c, attempt[c])' => Current(c).seq <= ingested
    <3>1. ASSUME OnLedger(c, attempt[c])' PROVE Shown(c, attempt[c])
      BY <2>1, <2>3, <3>1 DEF AnswerPaid, AnswerRejected, OnLedger
    <3> QED
      BY <1>2, <3>1, ShownIsOnLedger DEF Current
  <2>6. ASSUME NEW d \in Call, NEW a \in Attempt
        PROVE  /\ env'[d][a].answer # "bad_seq" /\ env'[d][a].fate # "sent"
               /\ ~(OnLedger(d, a)' /\ env'[d][a].seq > ingested)
    <3>1. CASE d = c /\ a = attempt[c]
      BY <1>2, <2>1, <2>4, <2>5, <3>1 DEF Current
    <3>2. CASE d # c \/ a # attempt[c]
      <4>1. env'[d][a] = env[d][a] /\ ~InFlight(d, a)
        BY <2>1, <2>2, <3>2 DEF InFlight
      <4> QED
        BY <1>1, <4>1 DEF Level, OnLedger
    <3> QED
      BY <3>1, <3>2
  <2> QED
    BY <2>1, <2>6 DEF Level
<1>8. ASSUME NEW c \in Call, LookUpFound(c) \/ LookUpMissed(c) PROVE Level'
  <2>1. Current(c).answer \in {"lost", "bad_seq"}
    BY <1>8 DEF LookUpFound, LookUpMissed, AttemptsInOrder, InOrder
  <2> QED
    BY <1>1, <1>2, <2>1 DEF Alone, Unheard, Level, Current
<1>9. ASSUME NEW c \in Call, NEW a \in Attempt, Apply(c, a) PROVE Level'
  <2>1. /\ env[c][a].fate = "sent" /\ env[c][a].seq = Len(ledger) + 1
        /\ UNCHANGED <<pc, attempt, ingested>>
    BY <1>9 DEF Apply
  <2>2. InFlight(c, a) /\ \A d \in Call, b \in Attempt : InFlight(d, b) => d = c /\ b = a
    BY <1>1, <1>3, <2>1 DEF Level, InFlight, Working
  <2>3. /\ env'[c][a].seq = env[c][a].seq /\ env'[c][a].answer = env[c][a].answer
        /\ env'[c][a].fate \in {"paid", "unsuccessful"}
        /\ \A d \in Call, b \in Attempt : d # c \/ b # a => env'[d][b] = env[d][b]
        /\ Len(ledger') = Len(ledger) + 1
    BY <1>9, EnvelopeApplied
  <2>4. ASSUME NEW d \in Call, NEW b \in Attempt
        PROVE  /\ env'[d][b].answer # "bad_seq" /\ env'[d][b].fate # "sent"
               /\ OnLedger(d, b)' /\ env'[d][b].seq > ingested =>
                    InFlight(d, b)' /\ env'[d][b].seq = Len(ledger')
    <3>1. CASE d = c /\ b = a
      BY <1>1, <2>1, <2>2, <2>3, <3>1 DEF Level, InFlight
    <3>2. CASE d # c \/ b # a
      <4>1. env'[d][b] = env[d][b] /\ ~InFlight(d, b)
        BY <2>2, <2>3, <3>2
      <4> QED
        BY <1>1, <4>1 DEF Level, OnLedger
    <3> QED
      BY <3>1, <3>2
  <2> QED
    BY <2>1, <2>4 DEF Level
<1>10. CASE Ingest
  BY <1>1, <1>2, <1>10 DEF Ingest, Level, InFlight, OnLedger
<1>11. ASSUME NEW h \in Host, CrashHost(h) PROVE Level'
  <2>1. \E c \in Call : pc'[c] = "crashed"
    BY <1>11 DEF CrashHost
  <2> QED
    BY <2>1 DEF Alone
<1>12. CASE UNCHANGED vars
  BY <1>4, <1>12 DEF vars
<1> QED
  BY <1>5, <1>6, <1>7, <1>8, <1>9, <1>10, <1>11, <1>12 DEF Next, SubmitPayment
-----------------------------------------------------------------------------
(* The theorems *)

LEMMA InvInit ==
  ASSUME Init
  PROVE  IInv
<1>1. /\ MaxAttempts \in Nat \ {0} /\ 1 \in Attempt
      /\ \A a \in Attempt : a \in Nat /\ ~(a < 1)
      /\ Unbuilt \in Envelope
  BY SubmissionConstants DEF Attempt, Unbuilt, Envelope, Fate
<1>2. \A c \in Call, a \in Attempt : env[c][a] = Unbuilt
  BY DEF Init
<1>3. LockTypes /\ CallTypes /\ LedgerTypes
  BY <1>1, EmptySeq DEF Init, LockTypes, CallTypes, LedgerTypes, Place
<1>4. QueuesHoldRunners /\ WaitersQueue /\ WorkersHold /\ VerdictFits
  BY EmptySeq DEF Init, QueuesHoldRunners, WaitersQueue, WorkersHold, Working, VerdictFits, Running
<1>5. AttemptsInOrder
  BY <1>1, <1>2 DEF Init, AttemptsInOrder, InOrder, Current, Attempt
<1>6. LedgerBySequence /\ SequencesGrow
  BY <1>2, EmptySeq DEF Init, LedgerBySequence, SequencesGrow, OnLedger, Built, Unbuilt
<1>7. ReturnedIsThere /\ LevelWhenAlone
  BY <1>2 DEF Init, ReturnedIsThere, LevelWhenAlone, Level, OnLedger, Unbuilt
<1> QED
  BY <1>3, <1>4, <1>5, <1>6, <1>7, TypesAreTypeOK DEF IInv

LEMMA InvStep ==
  ASSUME IInv, [Next]_vars
  PROVE  IInv'
<1>1. LockTypes /\ CallTypes /\ LedgerTypes /\ LockInv
  BY TypesAreTypeOK DEF IInv, LockInv
<1>2. LockTypes' /\ LockInv'
  BY <1>1, LockStep
<1>3. CallTypes' /\ LedgerTypes'
  BY <1>1, TypesStep
<1>4. TypeOK'
  BY <1>2, <1>3 DEF TypeOK, LockTypes, CallTypes, LedgerTypes, Place, Envelope, Fate
<1>5. VerdictFits' /\ AttemptsInOrder'
  BY <1>1, VerdictStep, AttemptsStep DEF IInv
<1>6. LedgerBySequence' /\ SequencesGrow' /\ ReturnedIsThere'
  BY <1>1, LedgerStep, SequencesStep, ReturnedStep DEF IInv
<1>7. LevelWhenAlone'
  BY <1>1, LevelStep DEF IInv
<1> QED
  BY <1>2, <1>4, <1>5, <1>6, <1>7 DEF IInv, LockInv

\* The inductive invariant of submitPayment, its lock and the ledger holds in
\* every reachable state.
THEOREM Invariance == Spec => []IInv
<1> QED
  BY InvInit, InvStep, PTL DEF Spec

\* The variables keep their types: no attempt beyond SEND_MAX_ATTEMPTS is
\* built, whatever the answers.
THEOREM TypeCorrect == Spec => []TypeOK
<1>1. IInv => TypeOK
  BY DEF IInv
<1> QED
  BY <1>1, Invariance, PTL

\* The comment above accountSubmissionLocks: while one process signs, was told
\* each outcome and never stopped, no envelope loses its sequence number.
THEOREM SerializedCallsNeverCollide == Spec => []SerializedCallsDoNotCollide
<1>1. ASSUME IInv PROVE SerializedCallsDoNotCollide
  BY <1>1 DEF IInv, LevelWhenAlone, Alone, Level, SerializedCallsDoNotCollide
<1> QED
  BY <1>1, Invariance, PTL

\* A call's second payment takes a later sequence number than its first, and
\* comes only after an answer was lost or was tx_bad_seq: envelopes of one
\* sequence number never pay twice.
THEOREM SecondPaymentsFollowMissedLookups == Spec => []SecondPaymentFollowsAMissedLookup
<1>1. ASSUME IInv PROVE SecondPaymentFollowsAMissedLookup
  <2> SUFFICES ASSUME NEW c \in Call, NEW a \in Attempt, NEW b \in Attempt,
                      a < b, OnLedger(c, a), OnLedger(c, b)
               PROVE  env[c][a].answer \in {"lost", "bad_seq"} /\ env[c][a].seq < env[c][b].seq
    BY DEF SecondPaymentFollowsAMissedLookup
  <2>1. Built(c, a) /\ Built(c, b)
    BY DEF OnLedger, Built
  <2>2. attempt[c] \in Nat /\ a \in Nat /\ b \in Nat
    BY <1>1, SubmissionConstants DEF IInv, TypeOK, Attempt
  <2>3. b <= attempt[c]
    BY <1>1, <2>1, <2>2 DEF IInv, AttemptsInOrder, InOrder, Built, Unbuilt
  <2>4. env[c][a].answer \in {"lost", "bad_seq"}
    BY <1>1, <2>2, <2>3 DEF IInv, AttemptsInOrder, InOrder
  <2>5. env[c][a].seq <= env[c][b].seq
    BY <1>1, <2>1 DEF IInv, SequencesGrow
  <2>6. /\ env[c][a].seq \in 1 .. Len(ledger) /\ ledger[env[c][a].seq] = <<c, a>>
        /\ env[c][b].seq \in 1 .. Len(ledger) /\ ledger[env[c][b].seq] = <<c, b>>
    BY <1>1 DEF IInv, LedgerBySequence
  <2>7. env[c][a].seq # env[c][b].seq
    BY <2>2, <2>6
  <2> QED
    BY <2>4, <2>5, <2>6, <2>7
<1> QED
  BY <1>1, Invariance, PTL
-----------------------------------------------------------------------------
(* The contract with submitPayment's caller *)

\* What the contract sees of the ledger.
Told == [c \in Call |-> [a \in Attempt |->
           IF OnLedger(c, a) THEN env[c][a].fate ELSE "absent"]]

\* Only Apply changes it.
LEMMA ToldKept ==
  ASSUME LockTypes, CallTypes, LedgerTypes, AttemptsInOrder, [Next]_vars,
         ~ \E c \in Call, a \in Attempt : Apply(c, a)
  PROVE  Told' = Told
<1>1. ASSUME NEW c \in Call, NEW a \in Attempt
      PROVE  /\ OnLedger(c, a)' <=> OnLedger(c, a)
             /\ OnLedger(c, a) => env'[c][a].fate = env[c][a].fate
  <2>1. CASE Undisturbed
    BY <2>1 DEF Undisturbed
  <2>2. ASSUME NEW d \in Call, Post(d)
        PROVE  /\ OnLedger(c, a)' <=> OnLedger(c, a)
               /\ OnLedger(c, a) => env'[c][a].fate = env[c][a].fate
    <3>1. ~OnLedger(d, attempt[d])
      BY <2>2 DEF Post, AttemptsInOrder, InOrder, Current, Unbuilt, OnLedger
    <3>2. CASE c = d /\ a = attempt[d]
      <4>1. env'[d][attempt[d]].fate = "sent"
        BY <2>2, EnvelopePosted
      <4> QED
        BY <3>1, <3>2, <4>1 DEF OnLedger
    <3>3. CASE c # d \/ a # attempt[d]
      <4>1. env'[c][a] = env[c][a]
        BY <2>2, <3>3, EnvelopePosted
      <4> QED
        BY <4>1 DEF OnLedger
    <3> QED
      BY <3>2, <3>3
  <2> QED
    BY <2>1, <2>2, StepKinds
<1> QED
  BY <1>1 DEF Told, OnLedger

\* An applied envelope is one the contract had not seen.
LEMMA ToldApplied ==
  ASSUME LedgerTypes, NEW c \in Call, NEW a \in Attempt, Apply(c, a)
  PROVE  /\ Told[c][a] = "absent"
         /\ \E f \in {"paid", "unsuccessful"} : Told' = [Told EXCEPT ![c][a] = f]
<1>1. ~OnLedger(c, a)
  BY DEF Apply, OnLedger
<1>2. PICK f \in {"paid", "unsuccessful"} : env'[c][a].fate = f
  BY EnvelopeApplied
<1>3. ASSUME NEW d \in Call, NEW b \in Attempt
      PROVE  Told'[d][b] = IF d = c /\ b = a THEN f ELSE Told[d][b]
  <2>1. CASE d = c /\ b = a
    BY <1>2, <2>1 DEF Told, OnLedger
  <2>2. CASE d # c \/ b # a
    <3>1. env'[d][b] = env[d][b]
      BY <2>2, EnvelopeApplied
    <3> QED
      BY <2>2, <3>1 DEF Told, OnLedger
  <2> QED
    BY <2>1, <2>2
<1>4. /\ Told = [d \in Call |-> [b \in Attempt |-> Told[d][b]]]
      /\ Told' = [d \in Call |-> [b \in Attempt |-> Told'[d][b]]]
  BY DEF Told
<1>5. Told' = [Told EXCEPT ![c][a] = f]
  BY <1>3, <1>4
<1> QED
  BY <1>1, <1>5 DEF Told

\* Every step is a step of the contract or changes nothing it speaks of.
LEMMA ContractStep ==
  ASSUME IInv, [Next]_vars
  PROVE  [Contract!CNext]_(Contract!cvars)
<1>1. LockTypes /\ CallTypes /\ LedgerTypes
  BY TypesAreTypeOK DEF IInv
<1>2. \A c \in Call : attempt[c] \in Attempt /\ attempt[c] \in Nat
  BY <1>1, SubmissionConstants DEF CallTypes, Attempt
<1> DEFINE Changes == Contract!CNext \/ UNCHANGED <<Told, verdict, returned>>
<1>3. ASSUME NEW c \in Call, verdict[c] = "idle", verdict' = [verdict EXCEPT ![c] = "open"],
             UNCHANGED <<Told, returned>>
      PROVE  Changes
  BY <1>3 DEF Contract!CNext, Contract!Begin, Told
<1>4. ASSUME NEW c \in Call, verdict[c] \in {"idle", "open"},
             verdict' = [verdict EXCEPT ![c] = "error"], UNCHANGED <<Told, returned>>
      PROVE  Changes
  BY <1>4 DEF Contract!CNext, Contract!ThrowError, Told
<1>5. ASSUME NEW c \in Call, verdict[c] = "open", OnLedger(c, attempt[c]), ReturnHash(c),
             UNCHANGED Told
      PROVE  Changes
  <2>1. attempt[c] \in Contract!Attempt
    BY <1>2 DEF Attempt, Contract!Attempt
  <2>2. Told[c][attempt[c]] # "absent"
    BY <1>2, <1>5 DEF Told, OnLedger
  <2>3. Contract!ReturnHash(c, attempt[c])
    BY <1>5, <2>2 DEF Contract!ReturnHash, ReturnHash, Told
  <2> QED
    BY <2>1, <2>3 DEF Contract!CNext
<1>6. ASSUME NEW c \in Call, NEW a \in Attempt, Apply(c, a) PROVE Changes
  <2>1. verdict[c] # "idle"
    <3>1. pc[c] # "idle"
      <4>1. SUFFICES ASSUME pc[c] = "idle" PROVE FALSE
        OBVIOUS
      <4>2. attempt[c] = 1 /\ \A b \in Attempt : b > 1 \/ b = 1
        BY <4>1, SubmissionConstants DEF IInv, AttemptsInOrder, InOrder, Attempt
      <4>3. env[c][a] = Unbuilt
        BY <4>1, <4>2 DEF IInv, AttemptsInOrder, InOrder, Current
      <4> QED
        BY <1>6, <4>3 DEF Apply, Unbuilt
    <3> QED
      BY <1>1, <3>1 DEF IInv, VerdictFits, Running, LockTypes, Place
  <2>2. verdict[c] # "ok"
    <3>1. SUFFICES ASSUME verdict[c] = "ok" PROVE FALSE
      OBVIOUS
    <3>2. OnLedger(c, attempt[c]) /\ env[c][a].fate = "sent" /\ env[c][a].seq = Len(ledger) + 1
      BY <1>6, <3>1 DEF IInv, ReturnedIsThere, Apply
    <3>3. a < attempt[c]
      <4>1. a # attempt[c] /\ a \in Nat
        BY <3>2, SubmissionConstants DEF OnLedger, Attempt
      <4>2. ~(a > attempt[c])
        BY <3>2 DEF IInv, AttemptsInOrder, InOrder, Unbuilt
      <4> QED
        BY <1>2, <4>1, <4>2
    <3>4. env[c][a].seq <= env[c][attempt[c]].seq
      BY <1>2, <3>2, <3>3 DEF IInv, SequencesGrow, Built, OnLedger
    <3>5. env[c][attempt[c]].seq \in 1 .. Len(ledger)
      BY <1>2, <3>2 DEF IInv, LedgerBySequence
    <3> QED
      BY <1>1, <3>2, <3>4, <3>5, LenProperties DEF LedgerTypes
  <2>3. verdict[c] \in {"open", "error"}
    BY <1>1, <2>1, <2>2 DEF CallTypes
  <2>4. /\ Told[c][a] = "absent"
        /\ \E f \in {"paid", "unsuccessful"} : Told' = [Told EXCEPT ![c][a] = f]
    BY <1>1, <1>6, ToldApplied
  <2>5. Contract!Included(c, a)
    BY <1>6, <2>3, <2>4 DEF Contract!Included, Apply, Told
  <2> QED
    BY <2>5 DEF Contract!CNext, Contract!Attempt, Attempt
<1>7. ASSUME ~ \E c \in Call, a \in Attempt : Apply(c, a) PROVE Changes
  <2>1. Told' = Told
    BY <1>1, <1>7, ToldKept DEF IInv
  <2>2. ASSUME NEW c \in Call, SubmitPayment(c) PROVE Changes
    <3>1. /\ pc[c] = "idle" => verdict[c] = "idle"
          /\ Running(c) => verdict[c] = "open"
      BY DEF IInv, VerdictFits
    <3>2. CASE Join(c) \/ Invalid(c)
      BY <1>3, <1>4, <2>1, <3>1, <3>2 DEF Join, Invalid
    <3>3. CASE Enter(c) \/ LoadAndPost(c)
      <4>1. verdict[c] = "open"
        BY <3>1, <3>3 DEF Enter, LoadAndPost, Running
      <4> QED
        BY <1>4, <2>1, <3>3, <4>1 DEF Enter, LoadAndPost, ThrowOut
    <3>4. CASE AnswerPaid(c)
      <4>1. verdict[c] = "open" /\ OnLedger(c, attempt[c])
        BY <3>1, <3>4 DEF AnswerPaid, Running, Current, OnLedger
      <4> QED
        BY <1>5, <2>1, <3>4, <4>1 DEF AnswerPaid
    <3>5. CASE AnswerRejected(c) \/ AnswerBadSeq(c) \/ AnswerLost(c) \/ AnswerUnclear(c)
      <4>1. verdict[c] = "open"
        BY <3>1, <3>5 DEF AnswerRejected, AnswerBadSeq, AnswerLost, AnswerUnclear, Running
      <4> QED
        BY <1>4, <2>1, <3>5, <4>1
        DEF AnswerRejected, AnswerBadSeq, AnswerLost, AnswerUnclear, ThrowOut
    <3>6. CASE LookUpFound(c)
      <4>1. verdict[c] = "open" /\ OnLedger(c, attempt[c])
        BY <1>1, <1>2, <3>1, <3>6, ShownIsOnLedger DEF LookUpFound, Running, Recovered, IInv
      <4> QED
        BY <1>5, <2>1, <3>6, <4>1 DEF LookUpFound
    <3>7. CASE LookUpMissed(c)
      <4>1. verdict[c] = "open"
        BY <3>1, <3>7 DEF LookUpMissed, Running
      <4> QED
        BY <1>4, <2>1, <3>7, <4>1 DEF LookUpMissed, ThrowOut
    <3> QED
      BY <2>2, <3>2, <3>3, <3>4, <3>5, <3>6, <3>7 DEF SubmitPayment, Receive
  <2>3. ASSUME UNCHANGED <<verdict, returned>> PROVE Changes
    BY <2>1, <2>3
  <2> QED
    BY <1>7, <2>2, <2>3 DEF Next, Ingest, CrashHost, vars
<1>8. Changes
  BY <1>6, <1>7
<1> QED
  BY <1>8 DEF Contract!cvars, Told

LEMMA ContractInit ==
  ASSUME Init
  PROVE  Contract!CInit
BY DEF Init, Contract!CInit, Contract!Attempt, Attempt, OnLedger, Unbuilt

\* submitPayment keeps what its caller relies on: a returned hash is on the
\* ledger and is the call's only envelope that will still get there.
THEOREM SubmissionKeepsContract == Spec => KeepsContract
<1>1. Init => Contract!CInit
  BY ContractInit
<1>2. IInv /\ [Next]_vars => [Contract!CNext]_(Contract!cvars)
  BY ContractStep
<1> QED
  BY <1>1, <1>2, Invariance, PTL DEF Spec, KeepsContract, Contract!CSpec
=============================================================================
