-------------------------- MODULE KycProfileProofs --------------------------
(***************************************************************************)
(* Proofs that hold for any number of operators, customers, deliveries and *)
(* payments and any bounds.  Maker-checker rests on what an operator's     *)
(* request has in hand between its read and its write; that User agrees    *)
(* with KycProfile rests on what a request has in hand between two writes. *)
(***************************************************************************)
EXTENDS KycProfile, SequenceTheorems, TLAPS

\* What a request is about to write, to copy or to mark, and what a delivery
\* carries, is there.
InHand ==
  /\ \A o \in Operator :
       /\ pc[o] \in {"apply", "copy"} => target[o] \in Profile
       /\ pc[o] = "mark" => deciding[o] # None
       /\ deciding[o] # None =>
            deciding[o] \in DOMAIN approvals /\ approvals[deciding[o]].by # o
  /\ \A d \in Delivery : pc[d] = "commit" => event[d].id \in DOMAIN answer

\* A request of one operator alone is no override of what it read.
AloneIsMinor ==
  \A o \in Operator :
    pc[o] = "apply" /\ deciding[o] = None /\ fresh[o] => ~HighImpact(profile, target[o])

\* A payment that is being screened has not seen a block.
NoBlockSeen ==
  \A p \in Payment :
    pc[p] \in {"screen", "ask", "askLenient"} /\ fresh[p] => profile.sanctions # "blocked"

\* Unless it was split, a request between its writes knows what the profile says.
CopyIsKnown ==
  split \/
    /\ \A o \in Copying : profile.tier = target[o].tier /\ profile.risk = target[o].risk
    /\ \A o, p \in Copying : o = p

RowTypes ==
  /\ profile \in Profile /\ screened \in Age /\ scene \in Scene
  /\ profile.sanctions = "not_screened" => screened = "never"
  /\ user \in [tier : 0..3, risk : 0..100]
ReviewTypes ==
  /\ approvals \in Seq(Approval)
  /\ target \in [Operator -> Profile \cup {None}]
  /\ deciding \in [Operator -> Nat \cup {None}]
ActorTypes == pc \in [Actor -> Place] /\ fresh \in [Actor -> BOOLEAN]
SmileTypes ==
  /\ answer \in Seq(Answer) /\ owed \in Nat /\ handled \subseteq DOMAIN answer
  /\ event \in [Delivery -> [id : Nat \cup {None}, risk : 0..100]]
CountTypes ==
  reviews \in Nat /\ faults \in Nat /\ split \in BOOLEAN /\ abandoned \in BOOLEAN

Types == RowTypes /\ ReviewTypes /\ ActorTypes /\ SmileTypes /\ CountTypes
IInv == Types /\ InHand /\ AloneIsMinor /\ NoBlockSeen /\ CopyIsKnown /\ CopiesAgree
-----------------------------------------------------------------------------
(* Types *)

LEMMA TypesAreTypeOK == Types <=> TypeOK
  BY DEF Types, TypeOK, RowTypes, ReviewTypes, ActorTypes, SmileTypes, CountTypes

\* The transitions lead to values of their columns.
LEMMA ValidTarget ==
  ASSUME profile \in Profile, NEW request, Valid(profile, Target(request))
  PROVE  Target(request) \in Profile
<1> DEFINE to == Target(request)
<1>1. DOMAIN to = Field /\ to.tier \in 0..3 /\ to.risk \in 0..100
  BY DEF Valid, Target, Field
<1>2. to.status \in DOMAIN Follows.status
  BY DEF Valid, Follows, Profile
<1>3. to.sanctions \in DOMAIN Follows.sanctions
  BY DEF Valid, Follows, Profile
<1>4. to.custody \in DOMAIN Follows.custody
  BY DEF Valid, Follows, Profile
<1>5. to = [status |-> to.status, sanctions |-> to.sanctions, custody |-> to.custody,
            tier |-> to.tier, risk |-> to.risk]
  BY DEF Target, Field
<1>6. QED
  BY <1>1, <1>2, <1>3, <1>4, <1>5 DEF Profile

\* What a callback decides is a profile.
LEMMA DecidedType ==
  ASSUME Types, InHand, NEW d \in Delivery, pc[d] = "commit"
  PROVE  Decided(d) \in Profile
<1>1. answer[event[d].id] \in Answer /\ event[d].risk \in 0..100
  BY DEF Types, SmileTypes, InHand
<1> DEFINE status == answer[event[d].id]
           tier == IF status = "approved" THEN 1 ELSE 0
           risk == IF status = "approved" \/ event[d].risk > 50 THEN event[d].risk ELSE 50
<1>2. status \in DOMAIN Follows.status /\ tier \in 0..3 /\ risk \in 0..100
  BY <1>1 DEF Answer, Follows
<1>3. Decided(d) = [profile EXCEPT !.status = status, !.tier = tier, !.risk = risk]
  BY DEF Decided
<1> HIDE DEF status, tier, risk
<1>4. QED
  BY <1>2, <1>3 DEF Types, RowTypes, Profile

\* An approval that is there is one.
LEMMA ApprovalType ==
  ASSUME Types, NEW k \in DOMAIN approvals
  PROVE  k \in Nat /\ approvals[k] \in Approval /\ approvals[k].to \in Profile
<1>1. approvals \in Seq(Approval) /\ k \in 1..Len(approvals)
  BY DEF Types, ReviewTypes
<1>2. k \in Nat /\ approvals[k] \in Approval
  BY <1>1
<1>3. approvals[k].to \in Profile
  BY <1>2 DEF Approval
<1>4. QED
  BY <1>2, <1>3

\* Marking an approval leaves the others as they are.
LEMMA MarkedType ==
  ASSUME Types, NEW k \in DOMAIN approvals, NEW mark \in {"approved", "superseded"}
  PROVE  [approvals EXCEPT ![k].status = mark] \in Seq(Approval)
<1>1. approvals \in Seq(Approval) /\ k \in 1..Len(approvals)
  BY DEF Types, ReviewTypes
<1>2. approvals[k] \in Approval
  BY ApprovalType
<1>3. [approvals[k] EXCEPT !.status = mark] \in Approval
  BY <1>2 DEF Approval
<1>4. [approvals EXCEPT ![k] = [approvals[k] EXCEPT !.status = mark]] \in Seq(Approval)
  BY <1>1, <1>3, ExceptSeq
<1>5. QED
  BY <1>4

LEMMA InitHolds == Init => IInv
<1> SUFFICES ASSUME Init PROVE IInv
  OBVIOUS
<1>1. RowTypes
  BY Scenes DEF Init, RowTypes, Profile
<1>2. ReviewTypes
  BY DEF Init, ReviewTypes
<1>3. SmileTypes
  BY DEF Init, SmileTypes
<1>4. CountTypes
  BY DEF Init, CountTypes
<1>5. ActorTypes
  BY DEF Init, ActorTypes, Place
<1>6. InHand /\ AloneIsMinor
  BY Names DEF Init, InHand, AloneIsMinor, Actor
<1>7. CopyIsKnown /\ CopiesAgree /\ NoBlockSeen
  BY DEF Init, CopyIsKnown, CopiesAgree, NoBlockSeen, Copying, Actor
<1>8. QED
  BY <1>1, <1>2, <1>3, <1>4, <1>5, <1>6, <1>7 DEF IInv, Types

\* Every write of the profile and of the user writes values of their columns.
LEMMA RowNext ==
  Types /\ InHand /\ [Next]_vars => RowTypes'
<1> SUFFICES ASSUME Types, InHand, [Next]_vars
             PROVE  RowTypes'
  OBVIOUS
<1> USE DEF Types, InHand, RowTypes
<1>1. ASSUME NEW o \in Operator, ApplyReview(o) PROVE RowTypes'
  BY <1>1 DEF ApplyReview, Walks, Write, Stamp, Age, review, smile
<1>2. ASSUME NEW o \in Operator, CopyToUser(o) PROVE RowTypes'
  BY <1>2 DEF CopyToUser, Walks, UserFrom, Copying, Profile, review, smile
<1>3. ASSUME NEW c \in Customer, BeginVerification(c) PROVE RowTypes'
  BY <1>3 DEF BeginVerification, Walks, Write, Profile, Follows, review, smile
<1>4. ASSUME NEW c \in Customer, MarkForRecovery(c) PROVE RowTypes'
  BY <1>4 DEF MarkForRecovery, Walks, Write, UnsureStatus, Profile, Follows, review, smile
<1>5. ASSUME NEW d \in Delivery, CommitAnswer(d) PROVE RowTypes'
  <2>1. CASE event[d].id \in handled
    BY <1>5, <2>1 DEF CommitAnswer, review
  <2>2. CASE event[d].id \notin handled
    <3>1. Decided(d) \in Profile /\ Decided(d).sanctions = profile.sanctions
      BY <1>5, DecidedType DEF CommitAnswer, Walks, Decided, Profile
    <3>2. profile' = Decided(d) /\ user' = [tier |-> Decided(d).tier, risk |-> Decided(d).risk]
          /\ UNCHANGED <<scene, screened>>
      BY <1>5, <2>2 DEF CommitAnswer, Write
    <3>3. QED
      BY <3>1, <3>2 DEF Profile
  <2>3. QED
    BY <2>1, <2>2
<1>6. ASSUME NEW p \in Payment, Screen(p) PROVE RowTypes'
  BY <1>6 DEF Screen, Walks, Write, Profile, Follows, Age, review, smile
<1>7. CASE ScreeningAges
  BY <1>7 DEF ScreeningAges, Age, review, smile
<1>8. CASE UNCHANGED <<profile, screened, scene, user>>
  BY <1>8
<1>9. QED
  BY <1>1, <1>2, <1>3, <1>4, <1>5, <1>6, <1>7, <1>8 DEF Next, Start,
     vars, review, smile, Walks, Fault, Deliver, Reads, OpenPage, Review, DecideOverride, MarkApproved, ReviewStops, ReadForStart, Submit, StartStops, SmileAnswers, DeliverNew, DeliverAgain, AnswerFails, CheckPolicy, ReadScreening

\* Approvals and targets are profiles.
LEMMA ReviewNext ==
  Types /\ InHand /\ [Next]_vars => ReviewTypes'
<1> SUFFICES ASSUME Types, InHand, [Next]_vars
             PROVE  ReviewTypes'
  OBVIOUS
<1> USE DEF Types, InHand, ReviewTypes
<1>1. ASSUME NEW o \in Operator, NEW request \in scene.requests, Review(o, request) PROVE ReviewTypes'
  <2>1. CASE UNCHANGED <<approvals, target, deciding>>
    BY <2>1
  <2>2. CASE ~UNCHANGED <<approvals, target, deciding>>
    <3>1. Valid(profile, Target(request)) /\ deciding' = deciding
      BY <1>1, <2>2 DEF Review, review
    <3>2. Target(request) \in Profile
      BY <3>1, ValidTarget DEF RowTypes
    <3>3. CASE HighImpact(profile, Target(request))
      <4>1. approvals' = Append(approvals, [by |-> o, to |-> Target(request), status |-> "pending"])
            /\ target' = target
        BY <1>1, <2>2, <3>3 DEF Review, review
      <4>2. QED
        BY <3>1, <3>2, <4>1 DEF Approval
    <3>4. CASE ~HighImpact(profile, Target(request))
      <4>1. approvals' = approvals /\ target' = [target EXCEPT ![o] = Target(request)]
        BY <1>1, <2>2, <3>4 DEF Review, review
      <4>2. QED
        BY <3>1, <3>2, <4>1
    <3>5. QED
      BY <3>3, <3>4
  <2>3. QED
    BY <2>1, <2>2
<1>2. ASSUME NEW o \in Operator, NEW k \in DOMAIN approvals, DecideOverride(o, k) PROVE ReviewTypes'
  <2>1. k \in Nat /\ approvals[k].to \in Profile
    BY ApprovalType
  <2>2. CASE Valid(profile, approvals[k].to)
    <3>1. /\ approvals' = approvals /\ target' = [target EXCEPT ![o] = approvals[k].to]
          /\ deciding' = [deciding EXCEPT ![o] = k]
      BY <1>2, <2>2 DEF DecideOverride
    <3>2. QED
      BY <2>1, <3>1
  <2>3. CASE ~Valid(profile, approvals[k].to)
    <3>1. /\ approvals' = [approvals EXCEPT ![k].status = "superseded"]
          /\ UNCHANGED <<target, deciding>>
      BY <1>2, <2>3 DEF DecideOverride
    <3>2. QED
      BY <3>1, MarkedType
  <2>4. QED
    BY <2>2, <2>3
<1>3. ASSUME NEW o \in Operator, CopyToUser(o) PROVE ReviewTypes'
  BY <1>3 DEF CopyToUser, Walks, UserFrom, review, smile
<1>4. ASSUME NEW o \in Operator, MarkApproved(o) PROVE ReviewTypes'
  BY <1>4, MarkedType DEF MarkApproved, Walks, review, smile
<1>5. ASSUME NEW o \in Operator, ReviewStops(o) PROVE ReviewTypes'
  BY <1>5 DEF ReviewStops, Walks, Fault, review, smile
<1>6. CASE UNCHANGED <<approvals, target, deciding>>
  BY <1>6
<1>7. QED
  BY <1>1, <1>2, <1>3, <1>4, <1>5, <1>6 DEF Next, Start,
     vars, review, smile, Walks, Fault, Deliver, Reads, OpenPage, ApplyReview, ReadForStart, BeginVerification, Submit, MarkForRecovery, StartStops, SmileAnswers, DeliverNew, DeliverAgain, CommitAnswer, AnswerFails, CheckPolicy, ReadScreening, Screen, ScreeningAges

\* Every actor is somewhere.
LEMMA ActorNext ==
  Types /\ InHand /\ [Next]_vars => ActorTypes'
<1> SUFFICES ASSUME Types, InHand, [Next]_vars
             PROVE  ActorTypes'
  OBVIOUS
<1> USE DEF Types, ActorTypes, Actor, Place
<1>1. ASSUME NEW o \in Operator, OpenPage(o) PROVE ActorTypes'
  BY <1>1 DEF OpenPage, Walks, Reads, review, smile
<1>2. ASSUME NEW o \in Operator, NEW request \in scene.requests, Review(o, request) PROVE ActorTypes'
  BY <1>2 DEF Review, Walks, review, smile
<1>3. ASSUME NEW o \in Operator, NEW k \in DOMAIN approvals, DecideOverride(o, k) PROVE ActorTypes'
  BY <1>3 DEF DecideOverride, MayDecide, Walks, Reads, review, smile
<1>4. ASSUME NEW o \in Operator, ApplyReview(o) PROVE ActorTypes'
  BY <1>4 DEF ApplyReview, Walks, Write, Stamp, review, smile
<1>5. ASSUME NEW o \in Operator, CopyToUser(o) PROVE ActorTypes'
  BY <1>5 DEF CopyToUser, Walks, UserFrom, review, smile
<1>6. ASSUME NEW o \in Operator, MarkApproved(o) PROVE ActorTypes'
  BY <1>6 DEF MarkApproved, Walks, review, smile
<1>7. ASSUME NEW o \in Operator, ReviewStops(o) PROVE ActorTypes'
  BY <1>7 DEF ReviewStops, Walks, Fault, review, smile
<1>8. ASSUME NEW c \in Customer, ReadForStart(c) PROVE ActorTypes'
  BY <1>8 DEF ReadForStart, Walks, review, smile
<1>9. ASSUME NEW c \in Customer, BeginVerification(c) PROVE ActorTypes'
  BY <1>9 DEF BeginVerification, Walks, Write, review, smile
<1>10. ASSUME NEW c \in Customer, Submit(c) PROVE ActorTypes'
  BY <1>10 DEF Submit, Walks, Fault, review, smile
<1>11. ASSUME NEW c \in Customer, MarkForRecovery(c) PROVE ActorTypes'
  BY <1>11 DEF MarkForRecovery, Walks, Write, UnsureStatus, review, smile
<1>12. ASSUME NEW c \in Customer, StartStops(c) PROVE ActorTypes'
  BY <1>12 DEF StartStops, Walks, Fault, review, smile
<1>13. CASE SmileAnswers
  BY <1>13 DEF SmileAnswers, review, smile
<1>14. ASSUME NEW d \in Delivery, DeliverNew(d) PROVE ActorTypes'
  BY <1>14 DEF DeliverNew, Deliver, Walks, review, smile
<1>15. ASSUME NEW d \in Delivery, DeliverAgain(d) PROVE ActorTypes'
  BY <1>15 DEF DeliverAgain, Deliver, Walks, review, smile
<1>16. ASSUME NEW d \in Delivery, CommitAnswer(d) PROVE ActorTypes'
  BY <1>16 DEF CommitAnswer, Walks, Write, review, smile
<1>17. ASSUME NEW d \in Delivery, AnswerFails(d) PROVE ActorTypes'
  BY <1>17 DEF AnswerFails, Walks, Fault, review, smile
<1>18. ASSUME NEW p \in Payment, CheckPolicy(p) PROVE ActorTypes'
  BY <1>18 DEF CheckPolicy, Walks, Reads, review, smile
<1>19. ASSUME NEW p \in Payment, ReadScreening(p) PROVE ActorTypes'
  BY <1>19 DEF ReadScreening, Walks, review, smile
<1>20. ASSUME NEW p \in Payment, Screen(p) PROVE ActorTypes'
  BY <1>20 DEF Screen, Walks, Write, review, smile
<1>21. CASE ScreeningAges
  BY <1>21 DEF ScreeningAges, review, smile
<1>22. CASE UNCHANGED vars
  BY <1>22 DEF vars, review, smile
<1>23. QED
  BY <1>1, <1>2, <1>3, <1>4, <1>5, <1>6, <1>7, <1>8, <1>9, <1>10, <1>11, <1>12, <1>13, <1>14, <1>15, <1>16, <1>17, <1>18, <1>19, <1>20, <1>21, <1>22 DEF Next, Start

\* Answers are processed only once they are there.
LEMMA SmileNext ==
  Types /\ InHand /\ [Next]_vars => SmileTypes'
<1> SUFFICES ASSUME Types, InHand, [Next]_vars
             PROVE  SmileTypes'
  OBVIOUS
<1> USE DEF Types, InHand, SmileTypes, RowTypes
<1>1. ASSUME NEW c \in Customer, Submit(c) PROVE SmileTypes'
  BY <1>1 DEF Submit, Walks, Fault, review, smile
<1>2. CASE SmileAnswers
  BY <1>2 DEF SmileAnswers, Answer, review, smile
<1>3. ASSUME NEW d \in Delivery, DeliverNew(d) PROVE SmileTypes'
  BY <1>3 DEF DeliverNew, Deliver, Walks, Profile, review, smile
<1>4. ASSUME NEW d \in Delivery, DeliverAgain(d) PROVE SmileTypes'
  BY <1>4 DEF DeliverAgain, Deliver, Walks, Profile, review, smile
<1>5. ASSUME NEW d \in Delivery, CommitAnswer(d) PROVE SmileTypes'
  BY <1>5 DEF CommitAnswer, Walks, Write, review, smile
<1>6. ASSUME NEW d \in Delivery, AnswerFails(d) PROVE SmileTypes'
  BY <1>6 DEF AnswerFails, Walks, Fault, review, smile
<1>7. CASE UNCHANGED <<answer, owed, handled, event>>
  BY <1>7
<1>8. QED
  BY <1>1, <1>2, <1>3, <1>4, <1>5, <1>6, <1>7 DEF Next, Start,
     vars, review, smile, Walks, Fault, Deliver, Reads, OpenPage, Review, DecideOverride, ApplyReview, CopyToUser, MarkApproved, ReviewStops, ReadForStart, BeginVerification, MarkForRecovery, StartStops, CheckPolicy, ReadScreening, Screen, ScreeningAges

\* Counters count and flags are flags.
LEMMA CountNext ==
  Types /\ InHand /\ [Next]_vars => CountTypes'
<1> SUFFICES ASSUME Types, InHand, [Next]_vars
             PROVE  CountTypes'
  OBVIOUS
<1> USE DEF Types, CountTypes
<1>1. ASSUME NEW o \in Operator, OpenPage(o) PROVE CountTypes'
  BY <1>1 DEF OpenPage, Walks, Reads, review, smile
<1>2. ASSUME NEW o \in Operator, NEW request \in scene.requests, Review(o, request) PROVE CountTypes'
  BY <1>2 DEF Review, Walks, review, smile
<1>3. ASSUME NEW o \in Operator, NEW k \in DOMAIN approvals, DecideOverride(o, k) PROVE CountTypes'
  BY <1>3 DEF DecideOverride, MayDecide, Walks, Reads, review, smile
<1>4. ASSUME NEW o \in Operator, ApplyReview(o) PROVE CountTypes'
  BY <1>4 DEF ApplyReview, Walks, Write, Stamp, review, smile
<1>5. ASSUME NEW o \in Operator, CopyToUser(o) PROVE CountTypes'
  BY <1>5 DEF CopyToUser, Walks, UserFrom, review, smile
<1>6. ASSUME NEW o \in Operator, MarkApproved(o) PROVE CountTypes'
  BY <1>6 DEF MarkApproved, Walks, review, smile
<1>7. ASSUME NEW o \in Operator, ReviewStops(o) PROVE CountTypes'
  BY <1>7 DEF ReviewStops, Walks, Fault, review, smile
<1>8. ASSUME NEW c \in Customer, ReadForStart(c) PROVE CountTypes'
  BY <1>8 DEF ReadForStart, Walks, review, smile
<1>9. ASSUME NEW c \in Customer, BeginVerification(c) PROVE CountTypes'
  BY <1>9 DEF BeginVerification, Walks, Write, review, smile
<1>10. ASSUME NEW c \in Customer, Submit(c) PROVE CountTypes'
  BY <1>10 DEF Submit, Walks, Fault, review, smile
<1>11. ASSUME NEW c \in Customer, MarkForRecovery(c) PROVE CountTypes'
  BY <1>11 DEF MarkForRecovery, Walks, Write, UnsureStatus, review, smile
<1>12. ASSUME NEW c \in Customer, StartStops(c) PROVE CountTypes'
  BY <1>12 DEF StartStops, Walks, Fault, review, smile
<1>13. CASE SmileAnswers
  BY <1>13 DEF SmileAnswers, review, smile
<1>14. ASSUME NEW d \in Delivery, DeliverNew(d) PROVE CountTypes'
  BY <1>14 DEF DeliverNew, Deliver, Walks, review, smile
<1>15. ASSUME NEW d \in Delivery, DeliverAgain(d) PROVE CountTypes'
  BY <1>15 DEF DeliverAgain, Deliver, Walks, review, smile
<1>16. ASSUME NEW d \in Delivery, CommitAnswer(d) PROVE CountTypes'
  BY <1>16 DEF CommitAnswer, Walks, Write, review, smile
<1>17. ASSUME NEW d \in Delivery, AnswerFails(d) PROVE CountTypes'
  BY <1>17 DEF AnswerFails, Walks, Fault, review, smile
<1>18. ASSUME NEW p \in Payment, CheckPolicy(p) PROVE CountTypes'
  BY <1>18 DEF CheckPolicy, Walks, Reads, review, smile
<1>19. ASSUME NEW p \in Payment, ReadScreening(p) PROVE CountTypes'
  BY <1>19 DEF ReadScreening, Walks, review, smile
<1>20. ASSUME NEW p \in Payment, Screen(p) PROVE CountTypes'
  BY <1>20 DEF Screen, Walks, Write, review, smile
<1>21. CASE ScreeningAges
  BY <1>21 DEF ScreeningAges, review, smile
<1>22. CASE UNCHANGED vars
  BY <1>22 DEF vars, review, smile
<1>23. QED
  BY <1>1, <1>2, <1>3, <1>4, <1>5, <1>6, <1>7, <1>8, <1>9, <1>10, <1>11, <1>12, <1>13, <1>14, <1>15, <1>16, <1>17, <1>18, <1>19, <1>20, <1>21, <1>22 DEF Next, Start
-----------------------------------------------------------------------------
(* What requests have in hand *)

\* What is in hand is taken and given back with the step that needs it.
LEMMA InHandNext ==
  Types /\ InHand /\ [Next]_vars => InHand'
<1> SUFFICES ASSUME Types, InHand, [Next]_vars
             PROVE  InHand'
  OBVIOUS
<1> USE DEF Types, InHand, ReviewTypes, ActorTypes, SmileTypes, Actor, Place
<1>1. ASSUME NEW o \in Operator, OpenPage(o) PROVE InHand'
  BY <1>1 DEF OpenPage, Walks, Reads, review, smile
<1>2. ASSUME NEW o \in Operator, NEW request \in scene.requests, Review(o, request) PROVE InHand'
  <2>1. CASE ~fresh[o] \/ ~Valid(profile, Target(request))
    BY <1>2, <2>1 DEF Review, Walks, review, smile
  <2>2. CASE fresh[o] /\ Valid(profile, Target(request))
    <3>1. Valid(profile, Target(request)) /\ UNCHANGED <<deciding, event, answer>>
      BY <1>2, <2>2 DEF Review, review, smile
    <3>2. Target(request) \in Profile
      BY <3>1, ValidTarget DEF RowTypes
    <3>3. CASE HighImpact(profile, Target(request))
      <4>1. /\ approvals' = Append(approvals, [by |-> o, to |-> Target(request), status |-> "pending"])
            /\ target' = target /\ pc' = [pc EXCEPT ![o] = "idle"]
        BY <1>2, <2>2, <3>3 DEF Review, Walks, review
      <4>2. \A k \in DOMAIN approvals : k \in DOMAIN approvals' /\ approvals'[k] = approvals[k]
        BY <4>1
      <4>3. QED
        BY <3>1, <4>1, <4>2
    <3>4. CASE ~HighImpact(profile, Target(request))
      <4>1. /\ approvals' = approvals /\ target' = [target EXCEPT ![o] = Target(request)]
            /\ pc' = [pc EXCEPT ![o] = "apply"]
        BY <1>2, <2>2, <3>4 DEF Review, Walks, review
      <4>2. QED
        BY <3>1, <3>2, <4>1
    <3>5. QED
      BY <3>3, <3>4
  <2>3. QED
    BY <2>1, <2>2
<1>3. ASSUME NEW o \in Operator, NEW k \in DOMAIN approvals, DecideOverride(o, k) PROVE InHand'
  <2>1. k \in Nat /\ approvals[k].to \in Profile /\ approvals[k].by # o
    BY <1>3, ApprovalType DEF DecideOverride, MayDecide
  <2>2. CASE Valid(profile, approvals[k].to)
    <3>1. /\ approvals' = approvals /\ target' = [target EXCEPT ![o] = approvals[k].to]
          /\ deciding' = [deciding EXCEPT ![o] = k] /\ pc' = [pc EXCEPT ![o] = "apply"]
          /\ UNCHANGED <<event, answer>>
      BY <1>3, <2>2 DEF DecideOverride, Walks, smile
    <3>2. QED
      BY <2>1, <3>1, Names
  <2>3. CASE ~Valid(profile, approvals[k].to)
    <3>1. /\ approvals' = [approvals EXCEPT ![k].status = "superseded"]
          /\ UNCHANGED <<pc, target, deciding, event, answer>>
      BY <1>3, <2>3 DEF DecideOverride, smile
    <3>2. DOMAIN approvals' = DOMAIN approvals
      BY <3>1
    <3>3. \A j \in DOMAIN approvals : approvals'[j].by = approvals[j].by
      BY <3>1 DEF Approval
    <3>4. QED
      BY <3>1, <3>2, <3>3
  <2>4. QED
    BY <2>2, <2>3
<1>4. ASSUME NEW o \in Operator, ApplyReview(o) PROVE InHand'
  BY <1>4 DEF ApplyReview, Walks, Write, Stamp, review, smile
<1>5. ASSUME NEW o \in Operator, CopyToUser(o) PROVE InHand'
  BY <1>5 DEF CopyToUser, Walks, UserFrom, review, smile
<1>6. ASSUME NEW o \in Operator, MarkApproved(o) PROVE InHand'
  BY <1>6 DEF MarkApproved, Walks, Approval, review, smile
<1>7. ASSUME NEW o \in Operator, ReviewStops(o) PROVE InHand'
  BY <1>7 DEF ReviewStops, Walks, Fault, review, smile
<1>8. ASSUME NEW c \in Customer, ReadForStart(c) PROVE InHand'
  BY <1>8 DEF ReadForStart, Walks, review, smile
<1>9. ASSUME NEW c \in Customer, BeginVerification(c) PROVE InHand'
  BY <1>9 DEF BeginVerification, Walks, Write, review, smile
<1>10. ASSUME NEW c \in Customer, Submit(c) PROVE InHand'
  BY <1>10 DEF Submit, Walks, Fault, review, smile
<1>11. ASSUME NEW c \in Customer, MarkForRecovery(c) PROVE InHand'
  BY <1>11 DEF MarkForRecovery, Walks, Write, UnsureStatus, review, smile
<1>12. ASSUME NEW c \in Customer, StartStops(c) PROVE InHand'
  BY <1>12 DEF StartStops, Walks, Fault, review, smile
<1>13. CASE SmileAnswers
  BY <1>13 DEF SmileAnswers, review, smile
<1>14. ASSUME NEW d \in Delivery, DeliverNew(d) PROVE InHand'
  BY <1>14 DEF DeliverNew, Deliver, Walks, review, smile
<1>15. ASSUME NEW d \in Delivery, DeliverAgain(d) PROVE InHand'
  BY <1>15 DEF DeliverAgain, Deliver, Walks, review, smile
<1>16. ASSUME NEW d \in Delivery, CommitAnswer(d) PROVE InHand'
  BY <1>16 DEF CommitAnswer, Walks, Write, review, smile
<1>17. ASSUME NEW d \in Delivery, AnswerFails(d) PROVE InHand'
  BY <1>17 DEF AnswerFails, Walks, Fault, review, smile
<1>18. ASSUME NEW p \in Payment, CheckPolicy(p) PROVE InHand'
  BY <1>18 DEF CheckPolicy, Walks, Reads, review, smile
<1>19. ASSUME NEW p \in Payment, ReadScreening(p) PROVE InHand'
  BY <1>19 DEF ReadScreening, Walks, review, smile
<1>20. ASSUME NEW p \in Payment, Screen(p) PROVE InHand'
  BY <1>20 DEF Screen, Walks, Write, review, smile
<1>21. CASE ScreeningAges
  BY <1>21 DEF ScreeningAges, review, smile
<1>22. CASE UNCHANGED vars
  BY <1>22 DEF vars, review, smile
<1>23. QED
  BY <1>1, <1>2, <1>3, <1>4, <1>5, <1>6, <1>7, <1>8, <1>9, <1>10, <1>11, <1>12, <1>13, <1>14, <1>15, <1>16, <1>17, <1>18, <1>19, <1>20, <1>21, <1>22 DEF Next, Start

\* A request that goes on alone was compared with what it read.
LEMMA AloneNext ==
  Types /\ InHand /\ AloneIsMinor /\ [Next]_vars => AloneIsMinor'
<1> SUFFICES ASSUME Types, InHand, AloneIsMinor, [Next]_vars
             PROVE  AloneIsMinor'
  OBVIOUS
<1> USE DEF Types, InHand, AloneIsMinor, ActorTypes, Actor, ReviewTypes
<1>1. ASSUME NEW o \in Operator, OpenPage(o) PROVE AloneIsMinor'
  BY <1>1 DEF OpenPage, Walks, Reads, review, smile
<1>2. ASSUME NEW o \in Operator, NEW request \in scene.requests, Review(o, request) PROVE AloneIsMinor'
  BY <1>2 DEF Review, Walks, review, smile
<1>3. ASSUME NEW o \in Operator, NEW k \in DOMAIN approvals, DecideOverride(o, k) PROVE AloneIsMinor'
  <2>1. CASE Valid(profile, approvals[k].to)
    <3>1. /\ target' = [target EXCEPT ![o] = approvals[k].to] /\ profile' = profile
          /\ deciding' = [deciding EXCEPT ![o] = k] /\ pc' = [pc EXCEPT ![o] = "apply"]
          /\ fresh' = [fresh EXCEPT ![o] = TRUE]
      BY <1>3, <2>1 DEF DecideOverride, Walks, Reads
    <3>2. deciding'[o] # None
      BY <3>1, Names
    <3>3. QED
      BY <3>1, <3>2
  <2>2. CASE ~Valid(profile, approvals[k].to)
    BY <1>3, <2>2 DEF DecideOverride
  <2>3. QED
    BY <2>1, <2>2
<1>4. ASSUME NEW o \in Operator, ApplyReview(o) PROVE AloneIsMinor'
  BY <1>4 DEF ApplyReview, Walks, Write, Stamp, review, smile
<1>5. ASSUME NEW o \in Operator, CopyToUser(o) PROVE AloneIsMinor'
  BY <1>5 DEF CopyToUser, Walks, UserFrom, review, smile
<1>6. ASSUME NEW o \in Operator, MarkApproved(o) PROVE AloneIsMinor'
  BY <1>6 DEF MarkApproved, Walks, review, smile
<1>7. ASSUME NEW o \in Operator, ReviewStops(o) PROVE AloneIsMinor'
  BY <1>7 DEF ReviewStops, Walks, Fault, review, smile
<1>8. ASSUME NEW c \in Customer, ReadForStart(c) PROVE AloneIsMinor'
  BY <1>8 DEF ReadForStart, Walks, review, smile
<1>9. ASSUME NEW c \in Customer, BeginVerification(c) PROVE AloneIsMinor'
  BY <1>9 DEF BeginVerification, Walks, Write, review, smile
<1>10. ASSUME NEW c \in Customer, Submit(c) PROVE AloneIsMinor'
  BY <1>10 DEF Submit, Walks, Fault, review, smile
<1>11. ASSUME NEW c \in Customer, MarkForRecovery(c) PROVE AloneIsMinor'
  BY <1>11 DEF MarkForRecovery, Walks, Write, UnsureStatus, review, smile
<1>12. ASSUME NEW c \in Customer, StartStops(c) PROVE AloneIsMinor'
  BY <1>12 DEF StartStops, Walks, Fault, review, smile
<1>13. CASE SmileAnswers
  BY <1>13 DEF SmileAnswers, review, smile
<1>14. ASSUME NEW d \in Delivery, DeliverNew(d) PROVE AloneIsMinor'
  BY <1>14 DEF DeliverNew, Deliver, Walks, review, smile
<1>15. ASSUME NEW d \in Delivery, DeliverAgain(d) PROVE AloneIsMinor'
  BY <1>15 DEF DeliverAgain, Deliver, Walks, review, smile
<1>16. ASSUME NEW d \in Delivery, CommitAnswer(d) PROVE AloneIsMinor'
  BY <1>16 DEF CommitAnswer, Walks, Write, review, smile
<1>17. ASSUME NEW d \in Delivery, AnswerFails(d) PROVE AloneIsMinor'
  BY <1>17 DEF AnswerFails, Walks, Fault, review, smile
<1>18. ASSUME NEW p \in Payment, CheckPolicy(p) PROVE AloneIsMinor'
  BY <1>18 DEF CheckPolicy, Walks, Reads, review, smile
<1>19. ASSUME NEW p \in Payment, ReadScreening(p) PROVE AloneIsMinor'
  BY <1>19 DEF ReadScreening, Walks, review, smile
<1>20. ASSUME NEW p \in Payment, Screen(p) PROVE AloneIsMinor'
  BY <1>20 DEF Screen, Walks, Write, review, smile
<1>21. CASE ScreeningAges
  BY <1>21 DEF ScreeningAges, review, smile
<1>22. CASE UNCHANGED vars
  BY <1>22 DEF vars, review, smile
<1>23. QED
  BY <1>1, <1>2, <1>3, <1>4, <1>5, <1>6, <1>7, <1>8, <1>9, <1>10, <1>11, <1>12, <1>13, <1>14, <1>15, <1>16, <1>17, <1>18, <1>19, <1>20, <1>21, <1>22 DEF Next, Start

\* A write of the profile is news to every payment, and a payment that looks at
\* it is not screened if it is blocked.
LEMMA NoBlockNext ==
  Types /\ NoBlockSeen /\ [Next]_vars => NoBlockSeen'
<1> SUFFICES ASSUME Types, NoBlockSeen, [Next]_vars
             PROVE  NoBlockSeen'
  OBVIOUS
<1> USE DEF Types, NoBlockSeen, ActorTypes, Actor
<1>1. CASE \A a \in Actor : fresh'[a] = FALSE
  BY <1>1
<1>2. ASSUME NEW p \in Payment, CheckPolicy(p) PROVE NoBlockSeen'
  BY <1>2 DEF CheckPolicy, MaySend, Walks, Reads
<1>3. ASSUME NEW p \in Payment, ReadScreening(p) PROVE NoBlockSeen'
  BY <1>3 DEF ReadScreening, Walks
<1>4. ASSUME NEW p \in Payment, Screen(p) PROVE NoBlockSeen'
  BY <1>1, <1>4 DEF Screen, Walks, Write
<1>5. ASSUME profile' = profile,
             \A p \in Payment : pc'[p] = pc[p] /\ fresh'[p] = fresh[p]
      PROVE  NoBlockSeen'
  BY <1>5
<1>6. ASSUME NEW o \in Operator,
             OpenPage(o) \/ (\E request \in scene.requests : Review(o, request))
               \/ (\E k \in DOMAIN approvals : DecideOverride(o, k))
               \/ CopyToUser(o) \/ MarkApproved(o) \/ ReviewStops(o)
      PROVE  NoBlockSeen'
  <2>1. profile' = profile /\ \A p \in Payment : p # o
    BY <1>6, Names DEF OpenPage, Review, DecideOverride, CopyToUser, MarkApproved, ReviewStops, Walks
  <2>2. \A a \in Actor : a # o => pc'[a] = pc[a] /\ fresh'[a] = fresh[a]
    BY <1>6 DEF OpenPage, Review, DecideOverride, CopyToUser, MarkApproved, ReviewStops, Walks, Reads
  <2>3. QED
    BY <1>5, <2>1, <2>2
<1>7. ASSUME NEW c \in Customer, ReadForStart(c) \/ Submit(c) \/ StartStops(c)
      PROVE  NoBlockSeen'
  BY <1>5, <1>7, Names DEF ReadForStart, Submit, StartStops, Walks
<1>8. ASSUME NEW d \in Delivery, DeliverNew(d) \/ DeliverAgain(d) \/ AnswerFails(d)
      PROVE  NoBlockSeen'
  BY <1>5, <1>8, Names DEF DeliverNew, DeliverAgain, Deliver, AnswerFails, Walks
<1>9. ASSUME NEW o \in Operator, ApplyReview(o) PROVE NoBlockSeen'
  BY <1>1, <1>9 DEF ApplyReview, Write
<1>10. ASSUME NEW c \in Customer, BeginVerification(c) \/ MarkForRecovery(c) PROVE NoBlockSeen'
  BY <1>1, <1>10 DEF BeginVerification, MarkForRecovery, Write
<1>11. ASSUME NEW d \in Delivery, CommitAnswer(d) PROVE NoBlockSeen'
  BY <1>1, <1>5, <1>11, Names DEF CommitAnswer, Walks, Write
<1>12. CASE SmileAnswers \/ ScreeningAges \/ UNCHANGED vars
  BY <1>5, <1>12 DEF SmileAnswers, ScreeningAges, vars
<1>13. QED
  BY <1>2, <1>3, <1>4, <1>6, <1>7, <1>8, <1>9, <1>10, <1>11, <1>12 DEF Next, Start

\* A write of the tier between two writes of another request splits it.
LEMMA CopyKnownNext ==
  Types /\ InHand /\ CopyIsKnown /\ [Next]_vars => CopyIsKnown'
<1> SUFFICES ASSUME Types, InHand, CopyIsKnown, [Next]_vars
             PROVE  CopyIsKnown'
  OBVIOUS
<1> USE DEF Types, InHand, CopyIsKnown, Copying, ActorTypes, Actor, ReviewTypes, RowTypes, Profile
<1>1. ASSUME NEW o \in Operator, OpenPage(o) PROVE CopyIsKnown'
  BY <1>1 DEF OpenPage, Walks, Reads, review, smile
<1>2. ASSUME NEW o \in Operator, NEW request \in scene.requests, Review(o, request) PROVE CopyIsKnown'
  BY <1>2 DEF Review, Walks, review, smile
<1>3. ASSUME NEW o \in Operator, NEW k \in DOMAIN approvals, DecideOverride(o, k) PROVE CopyIsKnown'
  BY <1>3 DEF DecideOverride, MayDecide, Walks, Reads, review, smile
<1>4. ASSUME NEW o \in Operator, ApplyReview(o) PROVE CopyIsKnown'
  BY <1>4 DEF ApplyReview, Walks, Write, Stamp, review, smile
<1>5. ASSUME NEW o \in Operator, CopyToUser(o) PROVE CopyIsKnown'
  BY <1>5 DEF CopyToUser, Walks, UserFrom, review, smile
<1>6. ASSUME NEW o \in Operator, MarkApproved(o) PROVE CopyIsKnown'
  BY <1>6 DEF MarkApproved, Walks, review, smile
<1>7. ASSUME NEW o \in Operator, ReviewStops(o) PROVE CopyIsKnown'
  BY <1>7 DEF ReviewStops, Walks, Fault, review, smile
<1>8. ASSUME NEW c \in Customer, ReadForStart(c) PROVE CopyIsKnown'
  BY <1>8 DEF ReadForStart, Walks, review, smile
<1>9. ASSUME NEW c \in Customer, BeginVerification(c) PROVE CopyIsKnown'
  BY <1>9 DEF BeginVerification, Walks, Write, review, smile
<1>10. ASSUME NEW c \in Customer, Submit(c) PROVE CopyIsKnown'
  BY <1>10 DEF Submit, Walks, Fault, review, smile
<1>11. ASSUME NEW c \in Customer, MarkForRecovery(c) PROVE CopyIsKnown'
  BY <1>11 DEF MarkForRecovery, Walks, Write, UnsureStatus, review, smile
<1>12. ASSUME NEW c \in Customer, StartStops(c) PROVE CopyIsKnown'
  BY <1>12 DEF StartStops, Walks, Fault, review, smile
<1>13. CASE SmileAnswers
  BY <1>13 DEF SmileAnswers, review, smile
<1>14. ASSUME NEW d \in Delivery, DeliverNew(d) PROVE CopyIsKnown'
  BY <1>14 DEF DeliverNew, Deliver, Walks, review, smile
<1>15. ASSUME NEW d \in Delivery, DeliverAgain(d) PROVE CopyIsKnown'
  BY <1>15 DEF DeliverAgain, Deliver, Walks, review, smile
<1>16. ASSUME NEW d \in Delivery, CommitAnswer(d) PROVE CopyIsKnown'
  BY <1>16 DEF CommitAnswer, Walks, Write, review, smile
<1>17. ASSUME NEW d \in Delivery, AnswerFails(d) PROVE CopyIsKnown'
  BY <1>17 DEF AnswerFails, Walks, Fault, review, smile
<1>18. ASSUME NEW p \in Payment, CheckPolicy(p) PROVE CopyIsKnown'
  BY <1>18 DEF CheckPolicy, Walks, Reads, review, smile
<1>19. ASSUME NEW p \in Payment, ReadScreening(p) PROVE CopyIsKnown'
  BY <1>19 DEF ReadScreening, Walks, review, smile
<1>20. ASSUME NEW p \in Payment, Screen(p) PROVE CopyIsKnown'
  BY <1>20 DEF Screen, Walks, Write, review, smile
<1>21. CASE ScreeningAges
  BY <1>21 DEF ScreeningAges, review, smile
<1>22. CASE UNCHANGED vars
  BY <1>22 DEF vars, review, smile
<1>23. QED
  BY <1>1, <1>2, <1>3, <1>4, <1>5, <1>6, <1>7, <1>8, <1>9, <1>10, <1>11, <1>12, <1>13, <1>14, <1>15, <1>16, <1>17, <1>18, <1>19, <1>20, <1>21, <1>22 DEF Next, Start

\* The second write of a request makes the user's copy the profile's.
LEMMA CopiesNext ==
  Types /\ InHand /\ CopyIsKnown /\ CopiesAgree /\ [Next]_vars => CopiesAgree'
<1> SUFFICES ASSUME Types, InHand, CopyIsKnown, CopiesAgree, [Next]_vars
             PROVE  CopiesAgree'
  OBVIOUS
<1> USE DEF Types, InHand, CopyIsKnown, CopiesAgree, Copying, ActorTypes, Actor, ReviewTypes, RowTypes, Profile
<1>1. ASSUME NEW o \in Operator, OpenPage(o) PROVE CopiesAgree'
  BY <1>1 DEF OpenPage, Walks, Reads, review, smile
<1>2. ASSUME NEW o \in Operator, NEW request \in scene.requests, Review(o, request) PROVE CopiesAgree'
  BY <1>2 DEF Review, Walks, review, smile
<1>3. ASSUME NEW o \in Operator, NEW k \in DOMAIN approvals, DecideOverride(o, k) PROVE CopiesAgree'
  BY <1>3 DEF DecideOverride, MayDecide, Walks, Reads, review, smile
<1>4. ASSUME NEW o \in Operator, ApplyReview(o) PROVE CopiesAgree'
  BY <1>4 DEF ApplyReview, Walks, Write, Stamp, review, smile
<1>5. ASSUME NEW o \in Operator, CopyToUser(o) PROVE CopiesAgree'
  BY <1>5 DEF CopyToUser, Walks, UserFrom, review, smile
<1>6. ASSUME NEW o \in Operator, MarkApproved(o) PROVE CopiesAgree'
  BY <1>6 DEF MarkApproved, Walks, review, smile
<1>7. ASSUME NEW o \in Operator, ReviewStops(o) PROVE CopiesAgree'
  BY <1>7 DEF ReviewStops, Walks, Fault, review, smile
<1>8. ASSUME NEW c \in Customer, ReadForStart(c) PROVE CopiesAgree'
  BY <1>8 DEF ReadForStart, Walks, review, smile
<1>9. ASSUME NEW c \in Customer, BeginVerification(c) PROVE CopiesAgree'
  BY <1>9 DEF BeginVerification, Walks, Write, review, smile
<1>10. ASSUME NEW c \in Customer, Submit(c) PROVE CopiesAgree'
  BY <1>10 DEF Submit, Walks, Fault, review, smile
<1>11. ASSUME NEW c \in Customer, MarkForRecovery(c) PROVE CopiesAgree'
  BY <1>11 DEF MarkForRecovery, Walks, Write, UnsureStatus, review, smile
<1>12. ASSUME NEW c \in Customer, StartStops(c) PROVE CopiesAgree'
  BY <1>12 DEF StartStops, Walks, Fault, review, smile
<1>13. CASE SmileAnswers
  BY <1>13 DEF SmileAnswers, review, smile
<1>14. ASSUME NEW d \in Delivery, DeliverNew(d) PROVE CopiesAgree'
  BY <1>14 DEF DeliverNew, Deliver, Walks, review, smile
<1>15. ASSUME NEW d \in Delivery, DeliverAgain(d) PROVE CopiesAgree'
  BY <1>15 DEF DeliverAgain, Deliver, Walks, review, smile
<1>16. ASSUME NEW d \in Delivery, CommitAnswer(d) PROVE CopiesAgree'
  BY <1>16 DEF CommitAnswer, Walks, Write, review, smile
<1>17. ASSUME NEW d \in Delivery, AnswerFails(d) PROVE CopiesAgree'
  BY <1>17 DEF AnswerFails, Walks, Fault, review, smile
<1>18. ASSUME NEW p \in Payment, CheckPolicy(p) PROVE CopiesAgree'
  BY <1>18 DEF CheckPolicy, Walks, Reads, review, smile
<1>19. ASSUME NEW p \in Payment, ReadScreening(p) PROVE CopiesAgree'
  BY <1>19 DEF ReadScreening, Walks, review, smile
<1>20. ASSUME NEW p \in Payment, Screen(p) PROVE CopiesAgree'
  BY <1>20 DEF Screen, Walks, Write, review, smile
<1>21. CASE ScreeningAges
  BY <1>21 DEF ScreeningAges, review, smile
<1>22. CASE UNCHANGED vars
  BY <1>22 DEF vars, review, smile
<1>23. QED
  BY <1>1, <1>2, <1>3, <1>4, <1>5, <1>6, <1>7, <1>8, <1>9, <1>10, <1>11, <1>12, <1>13, <1>14, <1>15, <1>16, <1>17, <1>18, <1>19, <1>20, <1>21, <1>22 DEF Next, Start
-----------------------------------------------------------------------------
(* The theorems *)

LEMMA Invariance == IInv /\ [Next]_vars => IInv'
  BY RowNext, ReviewNext, ActorNext, SmileNext, CountNext, InHandNext, AloneNext,
     NoBlockNext, CopyKnownNext, CopiesNext
     DEF IInv, Types

LEMMA Inductive == Spec => []IInv
  BY InitHolds, Invariance, PTL DEF Spec

\* The columns of the profile keep to kyc.transitions.js, whoever writes them.
THEOREM TypeCorrect == Spec => []TypeOK
<1>1. IInv => TypeOK
  BY TypesAreTypeOK DEF IInv
<1>2. QED
  BY <1>1, Inductive, PTL

\* User.kycTier and User.riskScore follow the profile (syncKycAndRiskState and
\* the two updates of reviewKyc).
THEOREM CopiesStayTogether == Spec => []CopiesAgree
<1>1. IInv => CopiesAgree
  BY DEF IInv
<1>2. QED
  BY <1>1, Inductive, PTL

\* No operator overrides alone what the request read (makerCheckerRequired).
THEOREM TwoForAnOverride == Spec => OverridesTakeTwo
<1> DEFINE Taken ==
      \A o \in Operator :
        pc[o] = "apply" /\ pc'[o] = "copy" /\ fresh[o] /\ HighImpact(profile, profile') =>
          deciding[o] # None /\ approvals[deciding[o]].by # o
<1>1. ASSUME IInv, [Next]_vars, NEW o \in Operator, pc[o] = "apply", pc'[o] = "copy"
      PROVE  ApplyReview(o)
  <2> USE DEF IInv, Types, ActorTypes, Actor
  <2>1. CASE Next
    BY <1>1, <2>1, Names DEF Next, Start, OpenPage, Review, DecideOverride, ApplyReview, CopyToUser,
       MarkApproved, ReviewStops, ReadForStart, BeginVerification, Submit, MarkForRecovery, StartStops,
       SmileAnswers, DeliverNew, DeliverAgain, Deliver, CommitAnswer, AnswerFails, CheckPolicy,
       ReadScreening, Screen, ScreeningAges, Walks
  <2>2. CASE UNCHANGED vars
    BY <1>1, <2>2 DEF vars
  <2>3. QED
    BY <1>1, <2>1, <2>2
<1>2. IInv /\ [Next]_vars => Taken
  <2> SUFFICES ASSUME IInv, [Next]_vars, NEW o \in Operator, pc[o] = "apply", pc'[o] = "copy",
                      fresh[o], HighImpact(profile, profile')
               PROVE  deciding[o] # None /\ approvals[deciding[o]].by # o
    OBVIOUS
  <2>1. profile' = target[o]
    BY <1>1 DEF ApplyReview, Write
  <2>2. deciding[o] # None
    BY <2>1 DEF IInv, AloneIsMinor
  <2>3. QED
    BY <2>2 DEF IInv, InHand
<1>3. IInv /\ [Next]_vars => [Taken]_vars
  BY <1>2
<1> HIDE DEF Taken
<1>4. Spec => [][Taken]_vars
  BY <1>3, Inductive, PTL DEF Spec
<1>5. QED
  BY <1>4 DEF OverridesTakeTwo, Taken

\* No payment and no callback lifts a sanctions block it could have seen
\* (enforceTransactionPolicy before screenSanctions).
THEOREM BlocksStay == Spec => BlocksAreKept
<1> DEFINE Lifted == profile.sanctions = "blocked" /\ profile'.sanctions # "blocked"
           By(a) == pc'[a] # pc[a] /\ (a \in Operator \/ ~fresh[a])
<1>1. ASSUME IInv, [Next]_vars, Lifted PROVE \E a \in Actor : By(a)
  <2> USE DEF IInv, Types, RowTypes, ActorTypes, Actor, Profile
  <2>1. ASSUME NEW o \in Operator, ApplyReview(o) PROVE By(o)
    BY <1>1, <2>1 DEF ApplyReview, Walks
  <2>2. ASSUME NEW p \in Payment, Screen(p) PROVE By(p)
    BY <1>1, <2>2 DEF Screen, Walks, NoBlockSeen
  <2>3. ASSUME NEW c \in Customer, BeginVerification(c) \/ MarkForRecovery(c) PROVE FALSE
    BY <1>1, <2>3 DEF BeginVerification, MarkForRecovery, Write
  <2>4. ASSUME NEW d \in Delivery, CommitAnswer(d) PROVE FALSE
    <3>1. Decided(d).sanctions = profile.sanctions
      BY DEF Decided
    <3>2. QED
      BY <1>1, <2>4, <3>1 DEF CommitAnswer, Write
  <2>5. ASSUME profile' = profile PROVE FALSE
    BY <1>1, <2>5
  <2>6. QED
    BY <1>1, <2>1, <2>2, <2>3, <2>4, <2>5 DEF Next, Start, vars, OpenPage, Review, DecideOverride,
       CopyToUser, MarkApproved, ReviewStops, ReadForStart, Submit, StartStops, SmileAnswers,
       DeliverNew, DeliverAgain, Deliver, AnswerFails, CheckPolicy, ReadScreening, ScreeningAges
<1>2. IInv /\ [Next]_vars => (Lifted => \E a \in Actor : By(a))
  BY <1>1
<1>3. IInv /\ [Next]_vars => [Lifted => \E a \in Actor : By(a)]_vars
  BY <1>2
<1> HIDE DEF Lifted, By
<1>4. Spec => [][Lifted => \E a \in Actor : By(a)]_vars
  BY <1>3, Inductive, PTL DEF Spec
<1>5. QED
  BY <1>4 DEF BlocksAreKept, Lifted, By
=============================================================================
