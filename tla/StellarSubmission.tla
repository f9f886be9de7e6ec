------------------------- MODULE StellarSubmission -------------------------
(***************************************************************************)
(* wallet/stellar.adapter.js submitPayment, for the calls that pay from    *)
(* one source account: the per-account lock of each process, the attempts  *)
(* with a freshly built envelope each, Horizon's answers or their loss,    *)
(* and the ledger, whose sequence numbers admit envelopes one by one.      *)
(***************************************************************************)
EXTENDS Naturals, Sequences

CONSTANTS
  Call,       \* calls of submitPayment for the account
  Host,       \* processes that sign for the account (API server, workers)
  MaxAttempts \* SEND_MAX_ATTEMPTS

ASSUME SubmissionConstants == MaxAttempts \in Nat \ {0}

Attempt == 1 .. MaxAttempts

VARIABLES
  pc,       \* where each call is
  at,       \* the process that runs each call
  attempt,  \* the attempt each call is at
  env,      \* the envelopes: [seq, fate, answer] by call and attempt
  verdict,  \* idle, open, ok or error
  returned, \* the attempt whose hash a call returned; 0 when none
  queue,    \* accountSubmissionLocks of each process: holder first
  ledger,   \* the account's transactions in ledger order
  ingested  \* how many of them Horizon has ingested

vars == <<pc, at, attempt, env, verdict, returned, queue, ledger, ingested>>

Unbuilt == [seq |-> 0, fate |-> "absent", answer |-> "none"]
OnLedger(c, a) == env[c][a].fate \in {"paid", "unsuccessful"}
\* Horizon shows the transaction.
Shown(c, a) == \E i \in 1 .. ingested : ledger[i] = <<c, a>>
Current(c) == env[c][attempt[c]]

Init ==
  /\ pc = [c \in Call |-> "idle"]
  /\ at \in [Call -> Host]
  /\ attempt = [c \in Call |-> 1]
  /\ env = [c \in Call |-> [a \in Attempt |-> Unbuilt]]
  /\ verdict = [c \in Call |-> "idle"]
  /\ returned = [c \in Call |-> 0]
  /\ queue = [h \in Host |-> <<>>]
  /\ ledger = <<>>
  /\ ingested = 0

Goto(c, next) == pc' = [pc EXCEPT ![c] = next]
Answer(c, answer) == env' = [env EXCEPT ![c][attempt[c]].answer = answer]
-----------------------------------------------------------------------------
(* The lock *)

\* withAccountLock: the call's promise goes to the end of the chain.
Join(c) ==
  /\ pc[c] = "idle"
  /\ queue' = [queue EXCEPT ![at[c]] = Append(@, c)]
  /\ verdict' = [verdict EXCEPT ![c] = "open"]
  /\ Goto(c, "waiting")
  /\ UNCHANGED <<at, attempt, env, returned, ledger, ingested>>

\* The destination, the memo or the amount is invalid: thrown before the lock.
Invalid(c) ==
  /\ pc[c] = "idle"
  /\ verdict' = [verdict EXCEPT ![c] = "error"]
  /\ Goto(c, "done")
  /\ UNCHANGED <<at, attempt, env, returned, queue, ledger, ingested>>

\* Mutation: the call does not wait for the promise before it.
HoldsAny(c) == \E i \in 1 .. Len(queue[at[c]]) : queue[at[c]][i] = c

Holds(c) == Head(queue[at[c]]) = c

\* Mutation: the next promise of the chain is released only on success.
UnlockedOnSuccess(c) ==
  IF verdict'[c] = "ok"
  THEN queue' = [queue EXCEPT ![at[c]] = Tail(@)]
  ELSE UNCHANGED queue

\* finally: the holder's promise is kept, and the next of the chain may run.
Unlocked(c) == queue' = [queue EXCEPT ![at[c]] = Tail(@)]

\* An error leaves the locked function and submitPayment: nothing is awaited
\* on the way out.
ThrowOut(c) ==
  /\ verdict' = [verdict EXCEPT ![c] = "error"]
  /\ Unlocked(c)
  /\ Goto(c, "done")

\* return { txHash, explorerUrl } from inside the lock.
ReturnHash(c) ==
  /\ verdict' = [verdict EXCEPT ![c] = "ok"]
  /\ returned' = [returned EXCEPT ![c] = attempt[c]]
  /\ Unlocked(c)
  /\ Goto(c, "done")

\* await currentLock; the destination lookup or the fee lookup may throw.
Enter(c) ==
  /\ pc[c] = "waiting"
  /\ Holds(c)
  /\ \/ Goto(c, "loading") /\ UNCHANGED <<verdict, queue>>
     \/ ThrowOut(c)
  /\ UNCHANGED <<at, attempt, env, returned, ledger, ingested>>

-----------------------------------------------------------------------------
(* One attempt *)

\* loadAccount returns the sequence number Horizon has ingested.
NextSequence == ingested + 1

\* A new envelope is built, signed and posted.  Or loadAccount fails, the
\* reserve is short, or no endpoint is available: thrown with nothing sent.
LoadAndPost(c) ==
  /\ pc[c] = "loading"
  /\ \/ /\ env' = [env EXCEPT ![c][attempt[c]] =
              [seq |-> NextSequence, fate |-> "sent", answer |-> "none"]]
        /\ Goto(c, "posted")
        /\ UNCHANGED <<verdict, queue>>
     \/ ThrowOut(c) /\ UNCHANGED env
  /\ UNCHANGED <<at, attempt, returned, ledger, ingested>>

\* Horizon answers after it ingested the successful transaction.
AnswerPaid(c) ==
  /\ pc[c] = "posted"
  /\ Current(c).fate = "paid"
  /\ Shown(c, attempt[c])
  /\ Answer(c, "ok")
  /\ ReturnHash(c)
  /\ UNCHANGED <<at, attempt, ledger, ingested>>

\* A definitive refusal: the network dropped the envelope, or included it as
\* unsuccessful.
AnswerRejected(c) ==
  /\ pc[c] = "posted"
  /\ \/ Current(c).fate = "sent"
     \/ Current(c).fate = "unsuccessful" /\ Shown(c, attempt[c])
  /\ env' = [env EXCEPT ![c][attempt[c]] =
       [seq |-> @.seq, fate |-> IF @.fate = "sent" THEN "dropped" ELSE @.fate,
        answer |-> "rejected"]]
  /\ ThrowOut(c)
  /\ UNCHANGED <<at, attempt, returned, ledger, ingested>>

\* tx_bad_seq: the ledger has passed the envelope's sequence number, by another
\* transaction or by the envelope itself.
AnswerBadSeq(c) ==
  /\ pc[c] = "posted"
  /\ Current(c).seq <= Len(ledger)
  /\ Answer(c, "bad_seq")
  /\ Goto(c, "bad_seq")
  /\ UNCHANGED <<at, attempt, verdict, returned, queue, ledger, ingested>>

\* No HTTP response: HorizonWriteUncertainError.
AnswerLost(c) ==
  /\ pc[c] = "posted"
  /\ Answer(c, "lost")
  /\ Goto(c, "uncertain")
  /\ UNCHANGED <<at, attempt, verdict, returned, queue, ledger, ingested>>

\* Mutation: such a response is retried with a new envelope.
AnswerUnclearRetried(c) ==
  /\ pc[c] = "posted"
  /\ attempt[c] < MaxAttempts
  /\ Answer(c, "unclear")
  /\ attempt' = [attempt EXCEPT ![c] = @ + 1]
  /\ Goto(c, "loading")
  /\ UNCHANGED <<at, verdict, returned, queue, ledger, ingested>>

\* An HTTP response that does not tell, such as Horizon's 504, or the total
\* time limit: isAmbiguous does not hold, so it is thrown like a refusal.
AnswerUnclear(c) ==
  /\ pc[c] = "posted"
  /\ Answer(c, "unclear")
  /\ ThrowOut(c)
  /\ UNCHANGED <<at, attempt, returned, ledger, ingested>>

\* Mutation: an uncertain envelope's hash is returned without the lookup.
RecoveredUnseen(c) == env[c][attempt[c]].fate # "absent"

\* transactionHash(hash).call() finds the transaction, successful or not.
Recovered(c) == Shown(c, attempt[c])

LookUpFound(c) ==
  /\ pc[c] \in {"uncertain", "bad_seq"}
  /\ Recovered(c)
  /\ ReturnHash(c)
  /\ UNCHANGED <<at, attempt, env, ledger, ingested>>

\* Mutation: one attempt too many.
AnotherAttemptOffByOne(c) == attempt[c] <= MaxAttempts

AnotherAttempt(c) == attempt[c] < MaxAttempts

\* Not found, or the lookup failed: the next attempt builds a new envelope; the
\* last one throws.
LookUpMissed(c) ==
  /\ pc[c] \in {"uncertain", "bad_seq"}
  /\ IF AnotherAttempt(c)
     THEN /\ attempt' = [attempt EXCEPT ![c] = @ + 1]
          /\ Goto(c, "loading")
          /\ UNCHANGED <<verdict, queue>>
     ELSE ThrowOut(c) /\ UNCHANGED attempt
  /\ UNCHANGED <<at, env, returned, ledger, ingested>>

-----------------------------------------------------------------------------
(* The network, Horizon and the processes *)

\* The ledger takes an envelope that carries the next sequence number.
Apply(c, a) ==
  /\ env[c][a].fate = "sent"
  /\ env[c][a].seq = Len(ledger) + 1
  /\ \E fate \in {"paid", "unsuccessful"} : env' = [env EXCEPT ![c][a].fate = fate]
  /\ ledger' = Append(ledger, <<c, a>>)
  /\ UNCHANGED <<pc, at, attempt, verdict, returned, queue, ingested>>

Ingest ==
  /\ ingested < Len(ledger)
  /\ ingested' = ingested + 1
  /\ UNCHANGED <<pc, at, attempt, env, verdict, returned, queue, ledger>>

Running(c) == pc[c] \notin {"idle", "done", "crashed"}

\* A process stops: its calls end unanswered and its lock map is gone.
CrashHost(h) ==
  /\ \E c \in Call : at[c] = h /\ Running(c)
  /\ pc' = [c \in Call |-> IF at[c] = h /\ Running(c) THEN "crashed" ELSE pc[c]]
  /\ queue' = [queue EXCEPT ![h] = <<>>]
  /\ UNCHANGED <<at, attempt, env, verdict, returned, ledger, ingested>>

-----------------------------------------------------------------------------
Receive(c) ==
  \/ AnswerPaid(c) \/ AnswerRejected(c) \/ AnswerBadSeq(c)
  \/ AnswerLost(c) \/ AnswerUnclear(c)

SubmitPayment(c) ==
  \/ Join(c) \/ Invalid(c) \/ Enter(c) \/ LoadAndPost(c) \/ Receive(c)
  \/ LookUpFound(c) \/ LookUpMissed(c)

Next ==
  \/ \E c \in Call : SubmitPayment(c) \/ \E a \in Attempt : Apply(c, a)
  \/ Ingest
  \/ \E h \in Host : CrashHost(h)

Spec == Init /\ [][Next]_vars

\* Every request is answered or times out after 10 s, and timers fire: a call
\* that can go on does.  Neither the network nor Horizon owes anything.
Fairness == \A c \in Call : WF_vars(SubmitPayment(c))
FairSpec == Spec /\ Fairness
-----------------------------------------------------------------------------
(* Properties *)

TypeOK ==
  /\ pc \in [Call -> {"idle", "waiting", "loading", "posted", "uncertain", "bad_seq",
                      "done", "crashed"}]
  /\ at \in [Call -> Host]
  /\ attempt \in [Call -> Attempt]
  /\ env \in [Call -> [Attempt ->
       [seq : Nat,
        fate : {"absent", "sent", "dropped", "paid", "unsuccessful"},
        answer : {"none", "ok", "rejected", "bad_seq", "lost", "unclear"}]]]
  /\ verdict \in [Call -> {"idle", "open", "ok", "error"}]
  /\ returned \in [Call -> 0 .. MaxAttempts]
  /\ queue \in [Host -> Seq(Call)]
  /\ ledger \in Seq(Call \X Attempt)
  /\ ingested \in 0 .. Len(ledger)

\* The ledger has, or may come to have, an envelope that its call was not told
\* the outcome of.
Unheard(c, a) ==
  \/ env[c][a].answer \in {"lost", "unclear"}
  \/ env[c][a].answer = "bad_seq" /\ OnLedger(c, a)

\* The lock, the fresh sequence number and Horizon's answer together do what
\* the comment above accountSubmissionLocks says: while one process signs for
\* the account, it was told the outcome of each of its envelopes, and it never
\* stopped, no envelope loses its sequence number to another one.
SerializedCallsDoNotCollide ==
  (\E c \in Call, a \in Attempt : env[c][a].answer = "bad_seq" /\ ~OnLedger(c, a)) =>
    \/ \E c, d \in Call : at[c] # at[d]
    \/ \E c \in Call : pc[c] = "crashed"
    \/ \E c \in Call, a \in Attempt : Unheard(c, a)

\* Envelopes of a call that were all built from one ingested sequence number
\* cannot pay twice: a second payment of a call needs Horizon to have ingested
\* the first one between the lookup that missed it and the next loadAccount.
SecondPaymentFollowsAMissedLookup ==
  \A c \in Call, a, b \in Attempt :
    a < b /\ OnLedger(c, a) /\ OnLedger(c, b) =>
      env[c][a].answer \in {"lost", "bad_seq"} /\ env[c][a].seq < env[c][b].seq

\* What submitPayment promises its caller, as an abstract specification.
Contract == INSTANCE SubmissionContract WITH
  fate <- [c \in Call |-> [a \in Attempt |->
             IF OnLedger(c, a) THEN env[c][a].fate ELSE "absent"]],
  hash <- returned

KeepsContract == Contract!CSpec

\* A call that joined the lock's queue returns or throws, unless its process
\* stops: no path leaves the lock taken.
EveryCallReturns ==
  \A c \in Call : pc[c] = "waiting" ~> pc[c] \in {"done", "crashed"}
=============================================================================
