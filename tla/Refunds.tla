------------------------------ MODULE Refunds ------------------------------
(***************************************************************************)
(* Refunds of one successful payment: executeRefund as operators call it   *)
(* (payment/payment.orchestrator.js), and what reconciler sweeps and       *)
(* operatorResolveStuckPayment make of its row (payment.reconciler.js).    *)
(* Nothing keeps two requests apart: each reads what was refunded so far,  *)
(* writes a row of its own and pays.                                       *)
(* No name is one of PaymentLifecycle: PaymentLifecycleProofs extends      *)
(* both.                                                                   *)
(***************************************************************************)
EXTENDS Naturals, FiniteSets, FiniteSetsExt

CONSTANTS
  Requests,  \* how many calls of executeRefund there may be
  Amount,    \* the amount of the payment
  Incoming,  \* amounts of other payments the customer received lately
  Envelopes, \* envelopes one submission may put on the ledger (SEND_MAX_ATTEMPTS)
  Scenes     \* what may happen: calls, faults (processes that stop, failure
             \* writes that fail, answers of Stellar that are lost), and retries of
             \* failed refunds by operators

\* The refunds asked for, one by each call and numbered in the order in which the
\* calls read the payment.  A call that creates a row names it, its envelopes and
\* their hashes.
Refund == 1..Requests

ASSUME RefundConstants ==
  /\ Requests \in Nat
  /\ Amount \in Nat \ {0} /\ Incoming \subseteq 1..Amount
  /\ Envelopes \in Nat \ {0}
  /\ Scenes \subseteq [calls : 0..Requests, faults : Nat, retries : Nat]

VARIABLES
  scene,    \* one of Scenes
  refund,   \* the refund's Transaction: status, and whose txHash it has
  listed,   \* the refunds in the payment's metadata
  posted,   \* refund.settled entries of each refund
  ledger,   \* the Stellar ledger: how many of each refund's envelopes it paid,
            \* and how many it took without paying
  place,    \* where each call is
  want,     \* the amount it refunds
  snap,     \* the refunds listed when it read the payment
  unseen,   \* refunds under way, or not a success, when it looked for them
  faults, retries \* how often each happened so far

call == <<place, want, snap>>
refunding == <<scene, refund, listed, posted, ledger, call, unseen, faults, retries>>

RefundInit ==
  /\ scene \in Scenes
  /\ refund = [r \in Refund |-> [status |-> "none", hash |-> "none"]]
  /\ listed = {}
  /\ posted = [r \in Refund |-> 0]
  /\ ledger = [r \in Refund |-> [paid |-> 0, unsuccessful |-> 0]]
  /\ place = [r \in Refund |-> "idle"]
  /\ want = [r \in Refund |-> 0]
  /\ snap = [r \in Refund |-> {}]
  /\ unseen = [r \in Refund |-> {}]
  /\ faults = 0 /\ retries = 0

Fault == faults < scene.faults /\ faults' = faults + 1
Walks(r, from, to) == place[r] = from /\ place' = [place EXCEPT ![r] = to]
PutRefund(r, status, hash) == refund' = [refund EXCEPT ![r] = [status |-> status, hash |-> hash]]
\* The units that refunds amount to.
Total(refunds) == Cardinality({u \in refunds \X (1..Amount) : u[2] <= want[u[1]]})
Settled == {r \in Refund : refund[r].status = "success"}
-----------------------------------------------------------------------------
(* executeRefund *)

\* The payment is read, and with it the refunds its metadata lists.
ReadPayment(r, amount) ==
  /\ r <= scene.calls /\ Walks(r, "idle", "check")
  /\ \A earlier \in 1..(r - 1) : place[earlier] # "idle"
  /\ want' = [want EXCEPT ![r] = amount]
  /\ snap' = [snap EXCEPT ![r] = listed]
  /\ UNCHANGED <<scene, refund, listed, posted, ledger, unseen, faults, retries>>

\* Mutation: the metadata is trusted.
AlreadyListed(r) == Total(snap[r])
\* The larger of what the metadata lists and what the refunds' rows say.
AlreadyRefunded(r) == Max({Total(snap[r]), Total(Settled)})

Looked == {r \in Refund : place[r] \notin {"idle", "check"}}

CheckRefundable(r) ==
  /\ Walks(r, "check", IF want[r] + AlreadyRefunded(r) > Amount THEN "over" ELSE "create")
  /\ unseen' = [unseen EXCEPT ![r] = Looked \ Settled]
  /\ UNCHANGED <<scene, refund, listed, posted, ledger, want, snap, faults, retries>>

\* The recipient's wallet must be ours.
CreateRow(r) ==
  /\ \/ Walks(r, "create", "submit") /\ PutRefund(r, "processing", "none")
     \/ Walks(r, "create", "over") /\ UNCHANGED refund
  /\ UNCHANGED <<scene, listed, posted, ledger, want, snap, unseen, faults, retries>>

\* The submission, as SubmissionContract has it: the ledger may include envelopes
\* whatever the call hears of them, a hash that is returned is on the ledger, and
\* nothing follows it.  Another envelope is built after an answer that was lost or
\* unclear.  An inclusion after the call threw or stopped differs from one before
\* it only in when sweeps may see it, and they may see it at any time.
Included(r) == ledger[r].paid + ledger[r].unsuccessful > 0
IncludeRefund(r) ==
  /\ place[r] = "submit"
  /\ ledger[r].paid + ledger[r].unsuccessful < Envelopes
  /\ \/ ledger' = [ledger EXCEPT ![r].paid = @ + 1]
     \/ ledger' = [ledger EXCEPT ![r].unsuccessful = @ + 1]
  /\ IF Included(r) THEN Fault ELSE UNCHANGED faults
  /\ UNCHANGED <<scene, refund, listed, posted, call, unseen, retries>>

Submit(r) ==
  /\ \/ Included(r) /\ Walks(r, "submit", "settle")
     \/ Walks(r, "submit", "failing")
  /\ UNCHANGED <<scene, refund, listed, posted, ledger, want, snap, unseen, faults, retries>>

\* Mutation: the journal is posted beside the transaction, not in it.
SettledBeside(r) ==
  /\ posted' = [posted EXCEPT ![r] = @ + 1]
  /\ IF refund[r].status = "processing"
     THEN PutRefund(r, "success", "own") /\ listed' = snap[r] \cup {r}
     ELSE UNCHANGED <<refund, listed>>
\* transitionPaymentState, the payment's metadata as it was read with this
\* refund added, and the journal.
SettledTogether(r) ==
  /\ refund[r].status = "processing"
  /\ PutRefund(r, "success", "own")
  /\ listed' = snap[r] \cup {r}
  /\ posted' = [posted EXCEPT ![r] = @ + 1]

\* One database transaction; a sweep may have settled the row before it.
Settle(r) ==
  /\ \/ Walks(r, "settle", "over") /\ SettledTogether(r)
     \/ Walks(r, "settle", "failing") /\ UNCHANGED <<refund, listed, posted>>
  /\ UNCHANGED <<scene, ledger, want, snap, unseen, faults, retries>>

\* The catch; its own error is swallowed.
MarkRefundFailed(r) ==
  /\ Walks(r, "failing", "over")
  /\ \/ refund[r].status = "processing" /\ PutRefund(r, "failed", refund[r].hash) /\ UNCHANGED faults
     \/ refund[r].status # "processing" /\ UNCHANGED <<refund, faults>>
     \/ Fault /\ UNCHANGED refund
  /\ UNCHANGED <<scene, listed, posted, ledger, want, snap, unseen, retries>>

\* The process of the call stops.
CallStops(r) ==
  /\ place[r] \notin {"idle", "over"} /\ Walks(r, place[r], "over") /\ Fault
  /\ UNCHANGED <<scene, refund, listed, posted, ledger, want, snap, unseen, retries>>
-----------------------------------------------------------------------------
(* Sweeps and operators *)

\* A payment in the customer's history with the refund's amount: the refund's
\* own, or that of another refund or any other the customer received.
Matches(r, hash) ==
  \/ hash = "own" /\ ledger[r].paid > 0
  \/ hash = "other" /\ \/ want[r] \in Incoming
                       \/ \E q \in Refund \ {r} : ledger[q].paid > 0 /\ want[q] = want[r]

\* A sweep meets a refund as any other row without a hash, and what it decided
\* is written if the row is still processing.  The ages it asks for are left
\* out: any time may pass between two steps.
SweepConfirms(r) ==
  /\ refund[r].status = "processing"
  /\ \E hash \in {"own", "other"} : Matches(r, hash) /\ PutRefund(r, "success", hash)
  /\ UNCHANGED <<scene, listed, posted, ledger, call, unseen, faults, retries>>

\* Horizon may not show the payment yet.
SweepGivesUp(r) ==
  /\ refund[r].status = "processing"
  /\ PutRefund(r, "failed", "none")
  /\ UNCHANGED <<scene, listed, posted, ledger, call, unseen, faults, retries>>

\* A retry sets the row back; nobody submits it again.  The matrix admits no other
\* action of an operator for the statuses a refund has.
OperatorRetries(r) ==
  /\ refund[r].status = "failed" /\ retries < scene.retries /\ retries' = retries + 1
  /\ PutRefund(r, "processing", refund[r].hash)
  /\ UNCHANGED <<scene, listed, posted, ledger, call, unseen, faults>>
-----------------------------------------------------------------------------
Step(r) ==
  CheckRefundable(r) \/ CreateRow(r) \/ Submit(r) \/ Settle(r) \/ MarkRefundFailed(r)

RefundNext ==
  \E r \in Refund :
    \/ \E amount \in 1..Amount : ReadPayment(r, amount)
    \/ Step(r) \/ IncludeRefund(r) \/ CallStops(r)
    \/ SweepConfirms(r) \/ SweepGivesUp(r) \/ OperatorRetries(r)

RefundSpec == RefundInit /\ [][RefundNext]_refunding
-----------------------------------------------------------------------------
(* Properties *)

RefundStatus == {"none", "processing", "success", "failed"}

RefundTypeOK ==
  /\ scene \in Scenes
  /\ refund \in [Refund -> [status : RefundStatus, hash : {"none", "own", "other"}]]
  /\ listed \in SUBSET Refund
  /\ posted \in [Refund -> Nat]
  /\ ledger \in [Refund -> [paid : 0..Envelopes, unsuccessful : 0..Envelopes]]
  /\ place \in [Refund -> {"idle", "check", "create", "submit", "settle", "failing", "over"}]
  /\ want \in [Refund -> 0..Amount]
  /\ snap \in [Refund -> SUBSET Refund] /\ unseen \in [Refund -> SUBSET Refund]
  /\ faults \in 0..scene.faults /\ retries \in 0..scene.retries

PaidBack == {r \in Refund : ledger[r].paid > 0}

\* The units that the customer got back: refund, which of its paid envelopes, unit.
GivenBack ==
  {g \in PaidBack \X (1..Envelopes) \X (1..Amount) :
     g[2] <= ledger[g[1]].paid /\ g[3] <= want[g[1]]}
\* Those that a submission paid again.
PaidAgain == {g \in GivenBack : g[2] > 1}

\* The customer gets back more than he paid for two reasons only: the submission
\* of one call paid more than once (SecondPaymentFollowsAMissedLookup of
\* StellarSubmission says when), or a request could not see another's money: it
\* was under way, or its row was no success yet, when the request looked for
\* earlier refunds.  Without the second reason what is given back exceeds the
\* payment by no more than what was paid again.
OverRefundExplained ==
  Cardinality(GivenBack) > Amount + Cardinality(PaidAgain) =>
    \E r \in PaidBack : unseen[r] \cap PaidBack # {}

\* The journal has a refund at most once, and only when an envelope of it is on
\* the ledger and its row is a success with the hash of one, whatever sweeps and
\* operators did to the row while it was being paid.
JournalFollowsTheRow ==
  \A r \in Refund :
    posted[r] > 0 =>
      /\ posted[r] = 1
      /\ Included(r)
      /\ refund[r] = [status |-> "success", hash |-> "own"]
=============================================================================
