----------------------------- MODULE KycProfile -----------------------------
(***************************************************************************)
(* The KYC profile of one user and all that writes it: the customer who    *)
(* starts a verification and Smile ID's callbacks (compliance.service.js), *)
(* operators who review it and approve each other's overrides              *)
(* (compliance.controller.js, kyc.transitions.js), and the sanctions       *)
(* screening of payments.  Reads and writes are separate calls of the      *)
(* database; only the page an operator saw is compared by updatedAt.       *)
(***************************************************************************)
EXTENDS Naturals, Sequences

CONSTANTS
  Operator,  \* administrators who review profiles
  Customer,  \* requests to start a verification
  Delivery,  \* deliveries of Smile ID's callbacks at once
  Payment,   \* payments that are checked
  Scene,     \* a profile, who is there and, as bounds, what they do
  None       \* no target, no approval

Actor == Operator \cup Customer \cup Delivery \cup Payment
Field == {"status", "sanctions", "custody", "tier", "risk"}

\* The transitions of kyc.transitions.js.
Follows == [
  status |-> [not_started |-> {"pending"}, pending |-> {"approved", "rejected", "review"},
              review |-> {"approved", "rejected", "pending"},
              approved |-> {"review"}, rejected |-> {"review"}],
  sanctions |-> [not_screened |-> {"cleared", "review", "blocked"},
                 review |-> {"cleared", "blocked"},
                 cleared |-> {"review"}, blocked |-> {"review"}],
  custody |-> [not_reviewed |-> {"approved", "review", "denied"},
               review |-> {"approved", "denied"},
               approved |-> {"review"}, denied |-> {"review"}]]

Profile == [status : DOMAIN Follows.status, sanctions : DOMAIN Follows.sanctions,
            custody : DOMAIN Follows.custody, tier : 0..3, risk : 0..100]

\* profile, screened: as the run begins; actors: who takes part; requests: what
\* operators may ask for; reviews: requests that are accepted; faults: crashes
\* and failed calls.
Age == {"never", "recent", "aged", "old"}
ASSUME Scenes ==
  \A s \in Scene :
    /\ s.profile \in Profile /\ s.screened \in Age /\ s.actors \subseteq Actor
    /\ s.profile.sanctions = "not_screened" => s.screened = "never"
    /\ \A request \in s.requests : DOMAIN request \subseteq Field
    /\ s.reviews \in Nat /\ s.faults \in Nat
ASSUME Names ==
  /\ Operator \cap (Customer \cup Delivery \cup Payment) = {}
  /\ Customer \cap (Delivery \cup Payment) = {} /\ Delivery \cap Payment = {}
  /\ None \notin Nat /\ None \notin Profile

VARIABLES
  scene,
  profile,   \* the KycProfile row
  screened,  \* age of sanctionsScreenedAt: recent (24 hours), aged (72), old
  user,      \* User.kycTier and User.riskScore
  approvals, \* KycApproval rows
  pc,        \* where each actor is
  fresh,     \* the profile is as the actor read it
  target,    \* what an operator's request is about to write
  deciding,  \* the approval it decides
  answer,    \* Smile ID's answers
  owed,      \* verifications it has accepted and not answered
  handled,   \* KycWebhookEvent: answers that were processed
  event,     \* the answer a delivery carries, and the risk score it read
  reviews, faults, \* how often each happened so far
  split,     \* a write of the tier came between two writes of another
  abandoned  \* 'pending' was written and no submission follows

smile == <<answer, owed, handled, event>>
review == <<approvals, target, deciding, reviews>>
vars == <<scene, profile, screened, user, pc, fresh, review, smile, faults, split, abandoned>>

Init ==
  /\ scene \in Scene
  /\ profile = scene.profile /\ screened = scene.screened
  /\ user = [tier |-> profile.tier, risk |-> profile.risk]
  /\ approvals = <<>>
  /\ pc = [a \in Actor |-> IF a \in scene.actors THEN "idle" ELSE "over"]
  /\ fresh = [a \in Actor |-> FALSE]
  /\ target = [o \in Operator |-> None]
  /\ deciding = [o \in Operator |-> None]
  /\ answer = <<>> /\ owed = 0 /\ handled = {}
  /\ event = [d \in Delivery |-> [id |-> None, risk |-> 0]]
  /\ reviews = 0 /\ faults = 0
  /\ split = FALSE /\ abandoned = FALSE

Fault == faults < scene.faults /\ faults' = faults + 1
Walks(a, from, to) == pc[a] = from /\ pc' = [pc EXCEPT ![a] = to]
Reads(a) == fresh' = [fresh EXCEPT ![a] = TRUE]
\* Any write moves updatedAt.
Write(new) == profile' = new /\ fresh' = [a \in Actor |-> FALSE]
Copying == {o \in Operator : pc[o] = "copy"}
-----------------------------------------------------------------------------
(* validateTransition and isHighImpactOverride *)

Valid(from, to) ==
  /\ \A f \in DOMAIN Follows : to[f] = from[f] \/ to[f] \in Follows[f][from[f]]
  /\ to.tier \in 0..3 /\ to.risk \in 0..100

\* What is not asked for stays.
Target(request) ==
  [f \in Field |-> IF f \in DOMAIN request THEN request[f] ELSE profile[f]]

Apart(m, n) == IF m < n THEN n - m ELSE m - n
HighImpact(from, to) ==
  \/ from.sanctions = "blocked" /\ to.sanctions # "review"
  \/ from.custody = "denied" /\ to.custody # "review"
  \/ Apart(from.tier, to.tier) > 1
  \/ Apart(from.risk, to.risk) > 30
-----------------------------------------------------------------------------
(* reviewKyc and approveOverride *)

OpenPage(o) ==
  /\ Walks(o, "idle", "page") /\ Reads(o)
  /\ UNCHANGED <<scene, profile, screened, user, review, smile, faults, split, abandoned>>

\* A stale page and a transition that is not allowed are refused, an override
\* waits for another operator, and the rest is applied.
Review(o, request) ==
  LET to == Target(request) IN
  /\ pc[o] = "page" /\ reviews < scene.reviews
  /\ IF ~fresh[o] \/ ~Valid(profile, to)
     THEN Walks(o, "page", "idle") /\ UNCHANGED review
     ELSE /\ reviews' = reviews + 1
          /\ UNCHANGED deciding
          /\ IF HighImpact(profile, to)
             THEN /\ Walks(o, "page", "idle")
                  /\ approvals' = Append(approvals, [by |-> o, to |-> to, status |-> "pending"])
                  /\ UNCHANGED target
             ELSE /\ Walks(o, "page", "apply")
                  /\ target' = [target EXCEPT ![o] = to]
                  /\ UNCHANGED approvals
  /\ UNCHANGED <<scene, profile, screened, user, fresh, smile, faults, split, abandoned>>

\* Mutation: an operator may approve an override of their own.
MayDecideOwn(o, k) == approvals[k].status = "pending"
MayDecide(o, k) == approvals[k].status = "pending" /\ approvals[k].by # o

\* An override is validated again, and superseded if it does not fit any more.
DecideOverride(o, k) ==
  /\ MayDecide(o, k)
  /\ IF Valid(profile, approvals[k].to)
     THEN /\ Walks(o, "idle", "apply") /\ Reads(o)
          /\ target' = [target EXCEPT ![o] = approvals[k].to]
          /\ deciding' = [deciding EXCEPT ![o] = k]
          /\ UNCHANGED approvals
     ELSE /\ pc[o] = "idle"
          /\ approvals' = [approvals EXCEPT ![k].status = "superseded"]
          /\ UNCHANGED <<pc, fresh, target, deciding>>
  /\ UNCHANGED <<scene, profile, screened, user, reviews, smile, faults, split, abandoned>>

Stamp(to) == IF to.sanctions = "not_screened" THEN "never" ELSE "recent"

\* All five fields are written, whatever the profile says by now.
ApplyReview(o) ==
  /\ Walks(o, "apply", "copy")
  /\ Write(target[o])
  /\ screened' = Stamp(target[o])
  /\ split' = (split \/ Copying # {})
  /\ abandoned' = (abandoned \/ (target[o].status = "pending" /\ profile.status # "pending"))
  /\ UNCHANGED <<scene, user, review, smile, faults>>

\* Mutation: the user's copy is left to the callbacks.
UserForgotten(o) == user
UserFrom(o) == [tier |-> target[o].tier, risk |-> target[o].risk]

CopyToUser(o) ==
  /\ Walks(o, "copy", IF deciding[o] = None THEN "idle" ELSE "mark")
  /\ user' = UserFrom(o)
  /\ target' = [target EXCEPT ![o] = None]
  /\ UNCHANGED <<scene, profile, screened, fresh, approvals, deciding, reviews, smile,
                 faults, split, abandoned>>

MarkApproved(o) ==
  /\ Walks(o, "mark", "idle")
  /\ approvals' = [approvals EXCEPT ![deciding[o]].status = "approved"]
  /\ deciding' = [deciding EXCEPT ![o] = None]
  /\ UNCHANGED <<scene, profile, screened, user, fresh, target, reviews, smile, faults, split, abandoned>>

ReviewStops(o) ==
  /\ pc[o] \in {"apply", "copy", "mark"} /\ Walks(o, pc[o], "idle") /\ Fault
  /\ split' = (split \/ pc[o] = "copy")
  /\ target' = [target EXCEPT ![o] = None]
  /\ deciding' = [deciding EXCEPT ![o] = None]
  /\ UNCHANGED <<scene, profile, screened, user, fresh, approvals, reviews, smile, abandoned>>
-----------------------------------------------------------------------------
(* startKycVerification *)

\* A verification that is pending is not submitted again.  One that an operator made
\* pending and that has no provider reference yet would be; that is left out here.
ReadForStart(c) ==
  /\ Walks(c, "idle", IF profile.status = "pending" THEN "over" ELSE "begin")
  /\ UNCHANGED <<scene, profile, screened, user, fresh, review, smile, faults, split, abandoned>>

BeginVerification(c) ==
  /\ Walks(c, "begin", "submit")
  /\ Write([profile EXCEPT !.status = "pending"])
  /\ UNCHANGED <<scene, screened, user, review, smile, faults, split, abandoned>>

\* A submission that fails may have reached Smile ID.
Submit(c) ==
  /\ \/ Walks(c, "submit", "over") /\ owed' = owed + 1 /\ UNCHANGED faults
     \/ Walks(c, "submit", "unsure") /\ owed' \in {owed, owed + 1} /\ Fault
  /\ UNCHANGED <<scene, profile, screened, user, fresh, review, answer, handled, event, split, abandoned>>

\* Mutation: a failed submission leaves the profile pending.
UnsurePending == "pending"
UnsureStatus == "review"

\* Whatever a callback has decided by now.
MarkForRecovery(c) ==
  /\ Walks(c, "unsure", "over")
  /\ Write([profile EXCEPT !.status = UnsureStatus])
  /\ UNCHANGED <<scene, screened, user, review, smile, faults, split, abandoned>>

StartStops(c) ==
  /\ pc[c] \in {"submit", "unsure"} /\ Walks(c, pc[c], "over") /\ Fault
  /\ abandoned' = TRUE
  /\ UNCHANGED <<scene, profile, screened, user, fresh, review, smile, split>>
-----------------------------------------------------------------------------
(* processSmileIdCallback, syncKycAndRiskState *)

SmileAnswers ==
  /\ owed > 0 /\ owed' = owed - 1
  /\ \E status \in {"approved", "rejected", "review"} : answer' = Append(answer, status)
  /\ UNCHANGED <<scene, profile, screened, user, pc, fresh, review, handled, event,
                 faults, split, abandoned>>

Deliver(d, e) ==
  /\ Walks(d, "idle", "commit")
  /\ event' = [event EXCEPT ![d] = [id |-> e, risk |-> profile.risk]]
  /\ UNCHANGED <<scene, profile, screened, user, fresh, review, answer, owed, handled,
                 faults, split, abandoned>>
DeliverNew(d) == \E e \in DOMAIN answer \ handled : Deliver(d, e)
DeliverAgain(d) == \E e \in handled : Deliver(d, e)

Decided(d) ==
  LET status == answer[event[d].id] IN
  [profile EXCEPT
     !.status = status,
     !.tier = IF status = "approved" THEN 1 ELSE 0,
     !.risk = IF status = "approved" \/ event[d].risk > 50 THEN event[d].risk ELSE 50]

\* One transaction: an answer that was processed before rolls it back.
CommitAnswer(d) ==
  /\ Walks(d, "commit", "idle")
  /\ IF event[d].id \in handled
     THEN UNCHANGED <<profile, user, fresh, handled, split>>
     ELSE /\ handled' = handled \cup {event[d].id}
          /\ Write(Decided(d))
          /\ user' = [tier |-> Decided(d).tier, risk |-> Decided(d).risk]
          /\ split' = (split \/ Copying # {})
  /\ event' = [event EXCEPT ![d] = [id |-> None, risk |-> 0]]
  /\ UNCHANGED <<scene, screened, review, answer, owed, faults, abandoned>>

AnswerFails(d) ==
  /\ Walks(d, "commit", "idle") /\ Fault
  /\ event' = [event EXCEPT ![d] = [id |-> None, risk |-> 0]]
  /\ UNCHANGED <<scene, profile, screened, user, fresh, review, answer, owed, handled, split, abandoned>>
-----------------------------------------------------------------------------
(* enforceTransactionPolicy and screenSanctions, in the payment's transaction *)

\* Mutation: only the screening asks for sanctions.
MaySendUnscreened == profile.status = "approved" /\ profile.custody \notin {"denied", "review"}
MaySend ==
  /\ profile.status = "approved"
  /\ profile.custody \notin {"denied", "review"}
  /\ profile.sanctions \notin {"blocked", "review"}

CheckPolicy(p) ==
  /\ IF MaySend THEN Walks(p, "idle", "screen") /\ Reads(p)
                ELSE Walks(p, "idle", "refused") /\ UNCHANGED fresh
  /\ UNCHANGED <<scene, profile, screened, user, review, smile, faults, split, abandoned>>

\* The profile is read again.  A recent result is taken as it is; of an older
\* one it is remembered whether it will do while the provider is unavailable.
ReadScreening(p) ==
  /\ Walks(p, "screen",
       IF screened = "recent" /\ profile.sanctions \notin {"review", "blocked"} THEN "passed"
       ELSE IF profile.sanctions = "cleared" /\ screened = "aged" THEN "askLenient" ELSE "ask")
  /\ UNCHANGED <<scene, profile, screened, user, fresh, review, smile, faults, split, abandoned>>

\* Only a clear result is committed: a hit throws, and the payment's transaction
\* takes the result and its audit entry back, as does a later failure in it.
Screen(p) ==
  /\ pc[p] \in {"ask", "askLenient"}
  /\ \/ /\ Walks(p, pc[p], "passed")
        /\ Write([profile EXCEPT !.sanctions = "cleared"])
        /\ screened' = "recent"
     \/ Walks(p, pc[p], "refused") /\ UNCHANGED <<profile, screened, fresh>>
     \/ pc[p] = "askLenient" /\ Walks(p, pc[p], "passed") /\ UNCHANGED <<profile, screened, fresh>>
  /\ UNCHANGED <<scene, user, review, smile, faults, split, abandoned>>

ScreeningAges ==
  /\ \/ screened = "recent" /\ screened' = "aged"
     \/ screened = "aged" /\ screened' = "old"
  /\ \E p \in Payment : pc[p] # "over"
  /\ UNCHANGED <<scene, profile, user, pc, fresh, review, smile, faults, split, abandoned>>
-----------------------------------------------------------------------------
Start(c) == ReadForStart(c) \/ BeginVerification(c) \/ Submit(c) \/ MarkForRecovery(c)

Next ==
  \/ \E o \in Operator :
       \/ OpenPage(o) \/ \E request \in scene.requests : Review(o, request)
       \/ \E k \in DOMAIN approvals : DecideOverride(o, k)
       \/ ApplyReview(o) \/ CopyToUser(o) \/ MarkApproved(o) \/ ReviewStops(o)
  \/ \E c \in Customer : Start(c) \/ StartStops(c)
  \/ SmileAnswers
  \/ \E d \in Delivery : DeliverNew(d) \/ DeliverAgain(d) \/ CommitAnswer(d) \/ AnswerFails(d)
  \/ \E p \in Payment : CheckPolicy(p) \/ ReadScreening(p) \/ Screen(p)
  \/ ScreeningAges

Spec == Init /\ [][Next]_vars

\* Requests run to their end; Smile ID answers what it accepted, and repeats
\* an answer until it is acknowledged.
Fairness ==
  /\ \A c \in Customer : WF_vars(Start(c))
  /\ WF_vars(SmileAnswers)
  /\ \A d \in Delivery : SF_vars(DeliverNew(d)) /\ WF_vars(CommitAnswer(d))
FairSpec == Spec /\ Fairness
-----------------------------------------------------------------------------
Approval == [by : Operator, to : Profile, status : {"pending", "approved", "superseded"}]
Answer == {"approved", "rejected", "review"}
Place == {"idle", "over", "page", "apply", "copy", "mark", "begin", "submit", "unsure",
          "commit", "screen", "ask", "askLenient", "passed", "refused"}

\* The columns have the values kyc.transitions.js allows, whichever writer put
\* them there, and what was never screened has no time of a screening.
TypeOK ==
  /\ profile \in Profile /\ screened \in Age
  /\ profile.sanctions = "not_screened" => screened = "never"
  /\ scene \in Scene
  /\ user \in [tier : 0..3, risk : 0..100]
  /\ approvals \in Seq(Approval)
  /\ target \in [Operator -> Profile \cup {None}]
  /\ deciding \in [Operator -> Nat \cup {None}]
  /\ pc \in [Actor -> Place] /\ fresh \in [Actor -> BOOLEAN]
  /\ answer \in Seq(Answer) /\ owed \in Nat /\ handled \subseteq DOMAIN answer
  /\ event \in [Delivery -> [id : Nat \cup {None}, risk : 0..100]]
  /\ reviews \in Nat /\ faults \in Nat /\ split \in BOOLEAN /\ abandoned \in BOOLEAN

\* Maker-checker: what an operator's request writes is an override of what it
\* read only if another operator asked for it.  (It may turn into one when the
\* profile changes between that read and the write.)
OverridesTakeTwo ==
  [][\A o \in Operator :
       pc[o] = "apply" /\ pc'[o] = "copy" /\ fresh[o] /\ HighImpact(profile, profile') =>
         deciding[o] # None /\ approvals[deciding[o]].by # o]_vars

\* A sanctions block ends by an operator's request or by somebody who read the
\* profile before it was there.
BlocksAreKept ==
  [][profile.sanctions = "blocked" /\ profile'.sanctions # "blocked" =>
       \E a \in Actor : pc'[a] # pc[a] /\ (a \in Operator \/ ~fresh[a])]_vars

\* Between requests the user's copy of tier and risk score is the profile's,
\* unless a request stopped between its two writes or two of them overlapped.
CopiesAgree ==
  Copying = {} /\ ~split => user = [tier |-> profile.tier, risk |-> profile.risk]

\* A pending verification is decided, or handed to the operators when it could
\* not be submitted, unless its request stopped on the way or an operator made
\* it pending without a submission.
PendingIsDecided ==
  profile.status = "pending" ~> (profile.status # "pending" \/ abandoned)
=============================================================================
