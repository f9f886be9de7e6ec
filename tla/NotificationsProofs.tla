------------------------- MODULE NotificationsProofs -------------------------
(***************************************************************************)
(* Proofs about Notifications for any number of senders, drains, calls,    *)
(* attempts and reports: types, how often Meta accepts a notification, and *)
(* that the status of its row does not go back.  A durable notification    *)
(* rests on its row's claim, which is taken once and by one sender.        *)
(***************************************************************************)
EXTENDS Notifications, FiniteSetTheorems, SequenceTheorems, TLAPS

\* Where a sender has the right to call Meta, or an outcome to record.
Sending == {"call", "attach", "unknown", "refused", "busy"}

\* Each call made, as a pair of its sender and its number.
CallsOf(n) == {c \in Sender \X (1 .. MaxCalls) : c[2] <= n[c[1]]}

\* Senders that make no further call.
Beyond(p) == {s \in scene.senders : p[s] \notin {"start", "claim", "call"}}

SendersFit ==
  /\ \A s \in Sender : /\ s \notin scene.senders => pc[s] = "over"
                       /\ pc[s] \in {"start", "claim"} => calls[s] = 0
                       /\ pc[s] = "call" => calls[s] < MaxCalls
                       /\ pc[s] = "attach" => got[s] \in 1 .. Len(meta)
  /\ Len(meta) <= Cardinality(CallsOf(calls))

\* A sender's last call is accepted at most once; the others are in doubt.
AcceptedPerSender == Len(meta) <= doubts + Cardinality(Beyond(pc))

\* The row of a durable notification is claimed by one sender, once.
ClaimedOnce ==
  scene.durable =>
    /\ row[Shared].status \in {"none", "queued"} =>
         Len(meta) = 0 /\ row[Shared].id = None /\ \A s \in Sender : pc[s] \notin Sending
    /\ \A s \in Sender : pc[s] \in Sending => row[Shared].status = "sending" /\ row[Shared].id = None
    /\ \A s, t \in Sender : pc[s] \in Sending /\ pc[t] \in Sending => s = t

\* That sender's calls but the last are in doubt.
AcceptedOnce ==
  scene.durable => /\ Len(meta) <= doubts + 1
                   /\ \A s \in Sender : pc[s] = "call" => Len(meta) <= doubts

\* A sender of any other notification has not written its row yet.
OwnRowsWait ==
  ~scene.durable =>
    \A s \in Sender : pc[s] # "over" => row[s].status = "none" /\ row[s].id = None

\* A drain in a handler has its report; one that is about to write has a row Meta
\* gave an id, and a report that is not behind what it read.
DrainFits(d) ==
  /\ dpc[d] # "idle" => event[d] \in Report
  /\ dpc[d] = "apply" => /\ target[d] \in Row /\ row[target[d]].id # None
                         /\ Rank(event[d][2]) >= Rank(snap[d].status)
DrainsFit == \A d \in Drain : DrainFits(d)

IInv ==
  /\ TypeOK
  /\ SendersFit /\ AcceptedPerSender
  /\ ClaimedOnce /\ AcceptedOnce /\ OwnRowsWait
  /\ DrainsFit
-----------------------------------------------------------------------------
(* Counting calls and senders *)

LEMMA Constants == /\ MaxCalls \in Nat \ {0} /\ IsFiniteSet(Sender)
                   /\ Cardinality(Sender) \in Nat
                   /\ Shared \notin Sender /\ None \notin Sender \cup {Shared} \cup Nat
BY Bounds, Names, FS_CardinalityType

LEMMA CallsAreFinite ==
  ASSUME NEW n
  PROVE  /\ IsFiniteSet(CallsOf(n)) /\ Cardinality(CallsOf(n)) \in Nat
         /\ Cardinality(CallsOf(n)) <= MaxCalls * Cardinality(Sender)
<1> DEFINE all == Sender \X (1 .. MaxCalls)
<1>1. IsFiniteSet(1 .. MaxCalls) /\ Cardinality(1 .. MaxCalls) = MaxCalls
  BY Constants, FS_Interval
<1>2. IsFiniteSet(all) /\ Cardinality(all) = Cardinality(Sender) * MaxCalls
  BY <1>1, Constants, FS_Product
<1>3. CallsOf(n) \in SUBSET all
  BY DEF CallsOf
<1>4. Cardinality(Sender) * MaxCalls = MaxCalls * Cardinality(Sender)
  BY Constants
<1> HIDE DEF all
<1>5. IsFiniteSet(CallsOf(n)) /\ Cardinality(CallsOf(n)) <= Cardinality(all)
  BY <1>2, <1>3, FS_Subset
<1> QED
  BY <1>2, <1>4, <1>5, FS_CardinalityType

\* A call more is one more.
LEMMA OneMoreCall ==
  ASSUME NEW n \in [Sender -> 0 .. MaxCalls], NEW s \in Sender, n[s] < MaxCalls
  PROVE  Cardinality(CallsOf([n EXCEPT ![s] = @ + 1])) = Cardinality(CallsOf(n)) + 1
<1> DEFINE new == <<s, n[s] + 1>>
<1>1. new \notin CallsOf(n)
  BY DEF CallsOf
<1>2. CallsOf([n EXCEPT ![s] = @ + 1]) = CallsOf(n) \cup {new}
  BY Constants DEF CallsOf
<1> QED
  BY <1>1, <1>2, CallsAreFinite, FS_AddElement

LEMMA SendersAreFinite ==
  ASSUME scene \in Scene, NEW p
  PROVE  /\ scene.senders \in SUBSET Sender /\ IsFiniteSet(scene.senders)
         /\ IsFiniteSet(Beyond(p))
         /\ Cardinality(Beyond(p)) \in Nat /\ Cardinality(scene.senders) \in Nat
         /\ Cardinality(Beyond(p)) <= Cardinality(scene.senders)
<1>1. scene.senders \in SUBSET Sender
  BY Scenes
<1>2. IsFiniteSet(scene.senders)
  BY <1>1, Constants, FS_Subset
<1>3. Beyond(p) \in SUBSET scene.senders
  BY DEF Beyond
<1>4. IsFiniteSet(Beyond(p)) /\ Cardinality(Beyond(p)) <= Cardinality(scene.senders)
  BY <1>2, <1>3, FS_Subset
<1> QED
  BY <1>1, <1>2, <1>4, FS_CardinalityType
-----------------------------------------------------------------------------
(* Types, in parts *)

Place == {"start", "claim", "call", "attach", "unknown", "refused", "busy", "over"}
Message == [last : {"accepted"} \cup Status, clock : Nat]
InboxRow == [state : {"none", "posted", "pending", "processing", "failed", "dead_letter",
                      "processed"}, tries : Nat, time : Nat]
SenderTypes ==
  pc \in [Sender -> Place] /\ calls \in [Sender -> 0 .. MaxCalls] /\ got \in [Sender -> Id \cup {None}]
DrainTypes ==
  /\ dpc \in [Drain -> {"idle", "record", "match", "apply", "mark"}]
  /\ event \in [Drain -> Report \cup {None}] /\ target \in [Drain -> Row \cup {None}]
  /\ snap \in [Drain -> RowType]
BoundTypes == refusals \in 0 .. scene.refusals /\ faults \in 0 .. scene.faults /\ doubts \in Nat
Types ==
  /\ scene \in Scene /\ row \in [Row -> RowType] /\ SenderTypes /\ meta \in Seq(Message)
  /\ inbox \in [Report -> InboxRow] /\ seen \in SUBSET Report
  /\ DrainTypes /\ BoundTypes

LEMMA TypesAreTypeOK == TypeOK <=> Types
BY DEF TypeOK, Types, SenderTypes, DrainTypes, BoundTypes, Place, Message, InboxRow

\* The scene's bounds are numbers, and do not change.
LEMMA SceneFacts ==
  ASSUME scene \in Scene
  PROVE  scene.durable \in BOOLEAN /\ scene.refusals \in Nat /\ scene.faults \in Nat
BY Scenes

LEMMA SceneStays == ASSUME [Next]_vars PROVE UNCHANGED scene
BY DEF Next, vars, sending, draining, bounds, SendStep, Reserve, SkipReserve, ClaimForSend,
  MetaAccepts, Attach, MetaDoesNotAnswer, MetaRefuses, MetaIsBusy, RecordFailure, SenderStops,
  ReconcileUnresolved, MetaReports, Ingest, Replay, DrainStep, ClaimEvent, RecordEvent, MatchRow,
  ApplyStatus, MarkProcessed, HandlerFails, DrainStops

LEMMA MetaLength == ASSUME Types PROVE Len(meta) \in Nat
BY LenProperties DEF Types

\* What a call to Meta does: it leaves its row alone, and Meta accepts it, or is in
\* doubt about it, at most once.
CallStep(s) ==
  /\ pc[s] = "call" /\ UNCHANGED <<scene, row>>
  /\ calls' = [calls EXCEPT ![s] = @ + 1]
  /\ \E next \in Sending :
       /\ pc' = [pc EXCEPT ![s] = next]
       /\ next = "call" => calls[s] + 1 < MaxCalls
       /\ \/ Len(meta') = Len(meta) /\ doubts' = doubts
          \/ Len(meta') = Len(meta) + 1 /\ doubts' = doubts + 1
          \/ Len(meta') = Len(meta) + 1 /\ doubts' = doubts /\ next # "call"
       /\ \/ got' = [got EXCEPT ![s] = Len(meta')] /\ Len(meta') = Len(meta) + 1
          \/ got' = got /\ next # "attach"

LEMMA AcceptGrows ==
  ASSUME Types, Accept
  PROVE  meta' \in Seq(Message) /\ Len(meta') = Len(meta) + 1
<1>1. [last |-> "accepted", clock |-> 0] \in Message
  BY DEF Message
<1> QED
  BY <1>1, AppendProperties DEF Types, Accept

LEMMA CallsAreSteps ==
  ASSUME Types, SendersFit, NEW s \in Sender,
         MetaAccepts(s) \/ MetaDoesNotAnswer(s) \/ MetaRefuses(s) \/ MetaIsBusy(s)
  PROVE  CallStep(s) /\ meta' \in Seq(Message)
<1>1. meta \in Seq(Message) /\ calls \in [Sender -> 0 .. MaxCalls] /\ MaxCalls \in Nat \ {0}
  BY Constants DEF Types, SenderTypes
<1>2. CASE MetaAccepts(s)
  <2>1. meta' \in Seq(Message) /\ Len(meta') = Len(meta) + 1
    BY <1>2, AcceptGrows DEF MetaAccepts
  <2> QED
    BY <1>2, <2>1 DEF MetaAccepts, CallStep, Called, Goto, Sending
<1>3. CASE MetaDoesNotAnswer(s)
  <2>1. meta' \in Seq(Message) /\ (Len(meta') = Len(meta) + 1 \/ Len(meta') = Len(meta))
    BY <1>1, <1>3, AcceptGrows DEF MetaDoesNotAnswer
  <2> QED
    BY <1>3, <2>1 DEF MetaDoesNotAnswer, CallStep, Called, Goto, Sending
<1>4. CASE MetaRefuses(s)
  BY <1>1, <1>4 DEF MetaRefuses, CallStep, Called, Goto, Sending
<1>5. CASE MetaIsBusy(s)
  <2>1. /\ meta' \in Seq(Message)
        /\ \/ Len(meta') = Len(meta) + 1 /\ doubts' = doubts + 1
           \/ Len(meta') = Len(meta) /\ doubts' = doubts
    BY <1>1, <1>5, AcceptGrows DEF MetaIsBusy
  <2>2. PICK next \in IF MayRetry(calls'[s]) THEN {"call", "unknown"} ELSE {"busy"} :
          pc' = [pc EXCEPT ![s] = next]
    BY <1>5 DEF MetaIsBusy, Goto
  <2>3. calls' = [calls EXCEPT ![s] = @ + 1] /\ calls'[s] = calls[s] + 1
    BY <1>1, <1>5 DEF MetaIsBusy, Called
  <2>4. next \in {"call", "unknown", "busy"} /\ (next = "call" => calls[s] + 1 < MaxCalls)
    BY <2>2, <2>3 DEF MayRetry
  <2> QED
    BY <1>5, <2>1, <2>2, <2>3, <2>4 DEF MetaIsBusy, CallStep, Sending
<1> QED
  BY <1>2, <1>3, <1>4, <1>5

\* Where a sender goes between its calls.
OtherMove(s) ==
  /\ UNCHANGED <<calls, got, doubts>> /\ Len(meta') = Len(meta) /\ meta' \in Seq(Message)
  /\ \/ pc[s] = "start" /\ pc' = [pc EXCEPT ![s] = "claim"]
     \/ pc[s] \in {"start", "claim"} /\ pc' = [pc EXCEPT ![s] = "call"]
     \/ pc[s] # "over" /\ pc' = [pc EXCEPT ![s] = "over"]

\* Time of the last report, or of the sender's clock.
LEMMA ClockMoves ==
  ASSUME meta \in Seq(Message), NEW i \in 1 .. Len(meta), NEW message \in Message,
         meta' = [meta EXCEPT ![i] = message]
  PROVE  meta' \in Seq(Message) /\ Len(meta') = Len(meta)
BY ExceptSeq

LEMMA AttachStep ==
  ASSUME Types, SendersFit, NEW s \in Sender, Attach(s)
  PROVE  /\ OtherMove(s) /\ pc[s] = "attach"
         /\ \E now \in Nat : row' = [row EXCEPT ![RowOf(s)] =
              [status |-> IF scene.durable THEN "sent" ELSE "queued", id |-> got[s], stamp |-> now + 1]]
<1>1. meta \in Seq(Message) /\ pc[s] = "attach" /\ got[s] \in 1 .. Len(meta)
  BY DEF Types, SendersFit, Attach
<1>2. meta[got[s]] \in Message
  BY <1>1, ElementOfSeq
<1>3. PICK now \in {meta[got[s]].clock, meta[got[s]].clock + 1} :
        /\ meta' = [meta EXCEPT ![got[s]].clock = now]
        /\ row' = [row EXCEPT ![RowOf(s)] =
             [status |-> IF scene.durable THEN "sent" ELSE "queued", id |-> got[s], stamp |-> now + 1]]
  BY DEF Attach
<1>4. now \in Nat
  BY <1>2 DEF Message
<1> DEFINE message == [meta[got[s]] EXCEPT !.clock = now]
<1>5. message \in Message /\ meta' = [meta EXCEPT ![got[s]] = message]
  BY <1>2, <1>3, <1>4 DEF Message
<1> HIDE DEF message
<1>6. meta' \in Seq(Message) /\ Len(meta') = Len(meta)
  BY <1>1, <1>5, ClockMoves
<1> QED
  BY <1>1, <1>3, <1>4, <1>6 DEF Attach, OtherMove, Goto

\* Steps that are not a sender's.
SendersWait ==
  UNCHANGED <<pc, calls, got, doubts>> /\ Len(meta') = Len(meta) /\ meta' \in Seq(Message)

LEMMA ReportMoves ==
  ASSUME Types, NEW i \in Id, NEW st \in Status, MetaReports(i, st)
  PROVE  SendersWait /\ \E now \in Nat :
           inbox' = [inbox EXCEPT ![<<i, st>>] = [state |-> "posted", tries |-> 0, time |-> now]]
<1>1. meta \in Seq(Message) /\ i \in 1 .. Len(meta) /\ UNCHANGED <<pc, calls, got, doubts>>
  BY MetaLength DEF Types, MetaReports, sending, Id
<1>2. meta[i] \in Message
  BY <1>1, ElementOfSeq
<1>3. PICK now \in {meta[i].clock, meta[i].clock + 1} :
        /\ meta' = [meta EXCEPT ![i] = [last |-> st, clock |-> now]]
        /\ inbox' = [inbox EXCEPT ![<<i, st>>] = [state |-> "posted", tries |-> 0, time |-> now]]
  BY DEF MetaReports
<1>4. now \in Nat /\ [last |-> st, clock |-> now] \in Message
  BY <1>2 DEF Message
<1>5. meta' \in Seq(Message) /\ Len(meta') = Len(meta)
  BY <1>1, <1>3, <1>4, ClockMoves
<1> QED
  BY <1>1, <1>3, <1>4, <1>5 DEF SendersWait

LEMMA SendersMove ==
  ASSUME Types, SendersFit, [Next]_vars
  PROVE  \/ \E s \in Sender : CallStep(s) /\ meta' \in Seq(Message)
         \/ \E s \in Sender : OtherMove(s)
         \/ SendersWait
<1> USE DEF SendersWait
<1>t. meta \in Seq(Message) /\ UNCHANGED scene
  BY SceneStays DEF Types
<1>1. ASSUME NEW s \in Sender,
             MetaAccepts(s) \/ MetaDoesNotAnswer(s) \/ MetaRefuses(s) \/ MetaIsBusy(s)
      PROVE  CallStep(s) /\ meta' \in Seq(Message)
  BY <1>1, CallsAreSteps
<1>2. ASSUME NEW s \in Sender, Attach(s) PROVE OtherMove(s)
  BY <1>2, AttachStep
<1>3. ASSUME NEW s \in Sender,
             Reserve(s) \/ SkipReserve(s) \/ ClaimForSend(s) \/ RecordFailure(s) \/ SenderStops(s)
      PROVE  OtherMove(s)
  BY <1>t, <1>3 DEF OtherMove, Goto, Reserve, SkipReserve, ClaimForSend, RecordFailure, SenderStops
<1>4. ASSUME NEW i \in Id, NEW st \in Status, MetaReports(i, st) PROVE SendersWait
  BY <1>4, ReportMoves
<1>5. ASSUME NEW d \in Drain, DrainStep(d) \/ HandlerFails(d) \/ DrainStops(d) PROVE SendersWait
  BY <1>t, <1>5 DEF DrainStep, ClaimEvent, RecordEvent, MatchRow, ApplyStatus, MarkProcessed,
    HandlerFails, DrainStops, sending
<1>6. ASSUME NEW e \in Report, Ingest(e) \/ Replay(e) PROVE SendersWait
  BY <1>t, <1>6 DEF Ingest, Replay, sending
<1>7. CASE ReconcileUnresolved \/ UNCHANGED vars
  BY <1>t, <1>7 DEF ReconcileUnresolved, vars, sending
<1> QED
  BY <1>1, <1>2, <1>3, <1>4, <1>5, <1>6, <1>7 DEF Next, SendStep

LEMMA BeyondGrows ==
  ASSUME scene \in Scene, NEW p, NEW q, Beyond(p) \subseteq Beyond(q)
  PROVE  Cardinality(Beyond(p)) <= Cardinality(Beyond(q))
BY SendersAreFinite, FS_Subset

\* What senders do keeps their types, their bounds and what Meta accepted of them.
LEMMA SendersStep ==
  ASSUME Types, SendersFit, AcceptedPerSender, [Next]_vars
  PROVE  /\ SenderTypes' /\ meta' \in Seq(Message) /\ doubts' \in Nat
         /\ SendersFit' /\ AcceptedPerSender'
<1>c. /\ pc \in [Sender -> Place] /\ calls \in [Sender -> 0 .. MaxCalls]
      /\ got \in [Sender -> Id \cup {None}] /\ MaxCalls \in Nat /\ doubts \in Nat /\ Len(meta) \in Nat
  BY Constants, MetaLength DEF Types, SenderTypes, BoundTypes
<1>s. scene \in Scene /\ UNCHANGED scene
  BY SceneStays DEF Types
<1>b. /\ Cardinality(Beyond(pc)) \in Nat /\ Cardinality(Beyond(pc')) \in Nat
      /\ Beyond(pc)' = Beyond(pc')
  BY <1>s, SendersAreFinite DEF Beyond
<1>1. ASSUME NEW s \in Sender, CallStep(s), meta' \in Seq(Message)
      PROVE  SenderTypes' /\ doubts' \in Nat /\ SendersFit' /\ AcceptedPerSender'
  <2>1. /\ pc[s] = "call" /\ s \in scene.senders /\ calls[s] < MaxCalls /\ calls[s] \in Nat
        /\ calls' = [calls EXCEPT ![s] = @ + 1]
    BY <1>1, <1>c DEF CallStep, SendersFit
  <2>2. PICK next \in Sending :
          /\ pc' = [pc EXCEPT ![s] = next]
          /\ next = "call" => calls[s] + 1 < MaxCalls
          /\ \/ Len(meta') = Len(meta) /\ doubts' = doubts
             \/ Len(meta') = Len(meta) + 1 /\ doubts' = doubts + 1
             \/ Len(meta') = Len(meta) + 1 /\ doubts' = doubts /\ next # "call"
          /\ \/ got' = [got EXCEPT ![s] = Len(meta')] /\ Len(meta') = Len(meta) + 1
             \/ got' = got /\ next # "attach"
    BY <1>1 DEF CallStep
  <2>3. /\ Cardinality(CallsOf(calls')) = Cardinality(CallsOf(calls)) + 1
        /\ Cardinality(CallsOf(calls')) <= MaxCalls * Cardinality(Sender)
        /\ Cardinality(CallsOf(calls)) \in Nat
    BY <1>c, <2>1, OneMoreCall, CallsAreFinite
  <2>4. Len(meta') <= Cardinality(CallsOf(calls')) /\ Len(meta') \in Nat
    BY <1>c, <2>2, <2>3 DEF SendersFit
  <2>5. MaxCalls * Cardinality(Sender) \in Nat
    BY Constants
  <2>6. got' \in [Sender -> Id \cup {None}]
    <3>1. Len(meta') = Len(meta) + 1 => Len(meta') \in Id
      BY <1>c, <2>3, <2>4, <2>5 DEF Id
    <3> QED
      BY <1>c, <2>2, <3>1
  <2>7. calls' \in [Sender -> 0 .. MaxCalls] /\ pc' \in [Sender -> Place] /\ doubts' \in Nat
    BY <1>c, <2>1, <2>2 DEF Place, Sending
  <2>8. SendersFit'
    <3>1. \A t \in Sender : /\ t \notin scene.senders => pc'[t] = "over"
                            /\ pc'[t] \in {"start", "claim"} => calls'[t] = 0
                            /\ pc'[t] = "call" => calls'[t] < MaxCalls
      BY <1>c, <2>1, <2>2 DEF SendersFit, Sending
    <3>2. \A t \in Sender : pc'[t] = "attach" => got'[t] \in 1 .. Len(meta')
      BY <1>c, <2>1, <2>2, <2>4 DEF SendersFit
    <3> QED
      BY <1>s, <2>4, <3>1, <3>2 DEF SendersFit, CallsOf
  <2>9. AcceptedPerSender'
    <3>1. CASE Beyond(pc) \subseteq Beyond(pc') /\ (Len(meta') = Len(meta) + 1 => doubts' = doubts + 1)
                /\ doubts' >= doubts
      <4>1. Cardinality(Beyond(pc)) <= Cardinality(Beyond(pc'))
        BY <1>s, <3>1, BeyondGrows
      <4>2. Len(meta') - doubts' <= Len(meta) - doubts /\ doubts' \in Nat /\ Len(meta') \in Nat
        BY <1>c, <2>2, <3>1
      <4> QED
        BY <1>b, <1>c, <4>1, <4>2 DEF AcceptedPerSender
    <3>2. CASE next # "call"
      <4>1. Beyond(pc') = Beyond(pc) \cup {s} /\ s \notin Beyond(pc)
        BY <1>c, <2>1, <2>2, <3>2 DEF Beyond, Sending
      <4>2. Cardinality(Beyond(pc')) = Cardinality(Beyond(pc)) + 1
        BY <1>s, <4>1, SendersAreFinite, FS_AddElement
      <4> QED
        BY <1>b, <1>c, <2>2, <4>2 DEF AcceptedPerSender
    <3>3. Beyond(pc) \subseteq Beyond(pc')
      BY <1>c, <2>1, <2>2 DEF Beyond
    <3>4. next = "call" => (Len(meta') = Len(meta) + 1 => doubts' = doubts + 1) /\ doubts' >= doubts
      BY <1>c, <2>2
    <3> QED
      BY <3>1, <3>2, <3>3, <3>4
  <2> QED
    BY <2>6, <2>7, <2>8, <2>9 DEF SenderTypes
<1>2. ASSUME NEW s \in Sender, OtherMove(s)
      PROVE  SenderTypes' /\ doubts' \in Nat /\ SendersFit' /\ AcceptedPerSender'
  <2>1. UNCHANGED <<calls, got, doubts>> /\ Len(meta') = Len(meta)
    BY <1>2 DEF OtherMove
  <2>2. pc' \in [Sender -> Place] /\ \A t \in Sender : t # s => pc'[t] = pc[t]
    BY <1>2, <1>c DEF OtherMove, Place
  <2>3. SenderTypes' /\ doubts' \in Nat
    BY <1>c, <2>1, <2>2 DEF SenderTypes
  <2>4. Beyond(pc) \subseteq Beyond(pc')
    <3>1. pc[s] \in {"start", "claim"} \/ pc'[s] = "over"
      BY <1>2, <1>c DEF OtherMove
    <3>2. scene.senders \in SUBSET Sender
      BY <1>s, SendersAreFinite
    <3> QED
      BY <2>2, <3>1, <3>2 DEF Beyond
  <2>5. AcceptedPerSender'
    BY <1>b, <1>c, <1>s, <2>1, <2>4, BeyondGrows DEF AcceptedPerSender
  <2>6. /\ s \notin scene.senders => pc'[s] = "over"
        /\ pc'[s] \in {"start", "claim"} => calls[s] = 0
        /\ pc'[s] = "call" => calls[s] < MaxCalls
        /\ pc'[s] # "attach"
    BY <1>2, <1>c, Constants DEF OtherMove, SendersFit
  <2>7. SendersFit'
    BY <1>s, <2>1, <2>2, <2>6 DEF SendersFit, CallsOf
  <2> QED
    BY <2>3, <2>5, <2>7
<1>3. ASSUME SendersWait
      PROVE  SenderTypes' /\ doubts' \in Nat /\ SendersFit' /\ AcceptedPerSender'
  BY <1>3, <1>c, <1>s DEF SendersWait, SenderTypes, SendersFit, CallsOf, AcceptedPerSender, Beyond
<1>4. meta' \in Seq(Message)
  BY SendersMove DEF OtherMove, SendersWait
<1> QED
  BY <1>1, <1>2, <1>3, <1>4, SendersMove
-----------------------------------------------------------------------------
(* The other variables' types *)

LEMMA StatusWritten ==
  ASSUME NEW old \in RowType, NEW status \in Status, NEW time \in Nat
  PROVE  /\ [status |-> status, id |-> old.id, stamp |-> time] \in RowType
         /\ [[old EXCEPT !.status = status] EXCEPT !.stamp = time] =
              [status |-> status, id |-> old.id, stamp |-> time]
<1>1. old = [status |-> old.status, id |-> old.id, stamp |-> old.stamp] /\ old.id \in Id \cup {None}
  BY DEF RowType
<1> DEFINE between == [old EXCEPT !.status = status]
<1>2. between = [status |-> status, id |-> old.id, stamp |-> old.stamp]
  BY <1>1
<1> HIDE DEF between
<1>3. [between EXCEPT !.stamp = time] = [status |-> status, id |-> old.id, stamp |-> time]
  BY <1>2
<1> QED
  BY <1>1, <1>3 DEF RowType, between

\* What a drain writes: its report's status, to a row that has an id.
LEMMA AppliedReport ==
  ASSUME Types, DrainsFit, NEW d \in Drain, ApplyStatus(d)
  PROVE  /\ target[d] \in Row /\ row[target[d]].id # None /\ dpc[d] = "apply"
         /\ Rank(event[d][2]) >= Rank(snap[d].status)
         /\ \E new \in RowType : /\ new.status = event[d][2] /\ new.status \in Status
                                /\ new.id = row[target[d]].id
                                /\ row' = [row EXCEPT ![target[d]] = new]
<1>1. event[d] \in Report /\ target[d] \in Row /\ dpc[d] = "apply"
  BY DEF ApplyStatus, Walks, DrainsFit, DrainFits
<1>2. event[d][2] \in Status /\ inbox[event[d]].time \in Nat /\ row[target[d]] \in RowType
  BY <1>1 DEF Types, Report, InboxRow
<1> DEFINE new == [status |-> event[d][2], id |-> row[target[d]].id, stamp |-> inbox[event[d]].time]
<1>3. /\ new \in RowType /\ new.status = event[d][2] /\ new.id = row[target[d]].id
      /\ [[row[target[d]] EXCEPT !.status = event[d][2]] EXCEPT !.stamp = inbox[event[d]].time] = new
  BY <1>2, StatusWritten
<1>4. row' = [row EXCEPT ![target[d]] =
                [[row[target[d]] EXCEPT !.status = event[d][2]] EXCEPT !.stamp = inbox[event[d]].time]]
  BY <1>1 DEF ApplyStatus, Types
<1> HIDE DEF new
<1>5. row' = [row EXCEPT ![target[d]] = new]
  BY <1>3, <1>4
<1> QED
  BY <1>1, <1>2, <1>3, <1>5 DEF DrainsFit, DrainFits

LEMMA RowTypes ==
  ASSUME Types, SendersFit, DrainsFit, [Next]_vars
  PROVE  row' \in [Row -> RowType]
<1>1. row \in [Row -> RowType] /\ got \in [Sender -> Id \cup {None}] /\ Shared \in Row
      /\ \A s \in Sender : RowOf(s) \in Row
  BY DEF Types, SenderTypes, Row, RowOf
<1>2. ASSUME NEW s \in Sender, Attach(s) PROVE row' \in [Row -> RowType]
  <2>1. PICK now \in Nat : row' = [row EXCEPT ![RowOf(s)] =
          [status |-> IF scene.durable THEN "sent" ELSE "queued", id |-> got[s], stamp |-> now + 1]]
    BY <1>2, AttachStep
  <2>2. [status |-> IF scene.durable THEN "sent" ELSE "queued", id |-> got[s], stamp |-> now + 1]
          \in RowType
    BY <1>1 DEF RowType, Status
  <2> QED
    BY <1>1, <2>1, <2>2
<1>3. ASSUME NEW s \in Sender, Reserve(s) \/ ClaimForSend(s) PROVE row' \in [Row -> RowType]
  BY <1>1, <1>3 DEF Reserve, ClaimForSend, RowType
<1>4. ASSUME NEW s \in Sender, RecordFailure(s) PROVE row' \in [Row -> RowType]
  <2>1. \/ UNCHANGED row
        \/ \E failed \in {"failed", "unknown"} : row' = [row EXCEPT ![RowOf(s)].status = failed]
    BY <1>4 DEF RecordFailure
  <2> QED
    BY <1>1, <2>1 DEF RowType, Status
<1>5. CASE ReconcileUnresolved
  BY <1>1, <1>5 DEF ReconcileUnresolved, RowType
<1>6. ASSUME NEW d \in Drain, ApplyStatus(d) PROVE row' \in [Row -> RowType]
  <2>1. PICK new \in RowType : row' = [row EXCEPT ![target[d]] = new]
    BY <1>6, AppliedReport
  <2> QED
    BY <1>1, <2>1
<1>7. CASE UNCHANGED row
  BY <1>1, <1>7
<1> QED
  BY <1>2, <1>3, <1>4, <1>5, <1>6, <1>7 DEF Next, vars, SendStep, SkipReserve, MetaAccepts,
    MetaDoesNotAnswer, MetaRefuses, MetaIsBusy, SenderStops, MetaReports, Ingest, Replay,
    DrainStep, ClaimEvent, RecordEvent, MatchRow, MarkProcessed, HandlerFails, DrainStops

LEMMA InboxTypes ==
  ASSUME Types, DrainsFit, [Next]_vars
  PROVE  inbox' \in [Report -> InboxRow] /\ seen' \in SUBSET Report
<1>1. inbox \in [Report -> InboxRow] /\ seen \in SUBSET Report
  BY DEF Types
<1>2. ASSUME NEW i \in Id, NEW st \in Status, MetaReports(i, st)
      PROVE  inbox' \in [Report -> InboxRow] /\ seen' \in SUBSET Report
  <2>1. PICK now \in Nat :
          inbox' = [inbox EXCEPT ![<<i, st>>] = [state |-> "posted", tries |-> 0, time |-> now]]
    BY <1>2, ReportMoves
  <2>2. [state |-> "posted", tries |-> 0, time |-> now] \in InboxRow
    BY DEF InboxRow
  <2> QED
    BY <1>1, <1>2, <2>1, <2>2 DEF MetaReports
<1>3. ASSUME NEW e, NEW state \in {"pending", "processed", "dead_letter", "failed"},
             InboxState(e, state)
      PROVE  inbox' \in [Report -> InboxRow]
  BY <1>1, <1>3 DEF InboxState, InboxRow
<1>4. ASSUME NEW e \in Report, Ingest(e) \/ Replay(e)
      PROVE  inbox' \in [Report -> InboxRow] /\ seen' \in SUBSET Report
  BY <1>1, <1>3, <1>4 DEF Ingest, Replay, InboxRow
<1>5. ASSUME NEW d \in Drain, DrainStep(d) \/ HandlerFails(d) \/ DrainStops(d)
      PROVE  inbox' \in [Report -> InboxRow] /\ seen' \in SUBSET Report
  <2>1. ASSUME NEW e \in Report, ClaimEvent(d, e)
        PROVE  inbox' \in [Report -> InboxRow] /\ seen' \in SUBSET Report
    BY <1>1, <2>1 DEF ClaimEvent, InboxRow
  <2>2. ASSUME RecordEvent(d)
        PROVE  inbox' \in [Report -> InboxRow] /\ seen' \in SUBSET Report
    BY <1>1, <2>2 DEF RecordEvent, Walks, DrainsFit, DrainFits
  <2>3. ASSUME MarkProcessed(d) \/ HandlerFails(d)
        PROVE  inbox' \in [Report -> InboxRow] /\ seen' \in SUBSET Report
    BY <1>1, <1>3, <2>3 DEF MarkProcessed, HandlerFails
  <2>4. ASSUME MatchRow(d) \/ ApplyStatus(d) \/ DrainStops(d)
        PROVE  inbox' \in [Report -> InboxRow] /\ seen' \in SUBSET Report
    BY <1>1, <2>4 DEF MatchRow, ApplyStatus, DrainStops
  <2> QED
    BY <1>5, <2>1, <2>2, <2>3, <2>4 DEF DrainStep
<1>6. CASE UNCHANGED <<inbox, seen>>
  BY <1>1, <1>6
<1> QED
  BY <1>2, <1>4, <1>5, <1>6 DEF Next, vars, SendStep, Reserve, SkipReserve, ClaimForSend,
    MetaAccepts, MetaDoesNotAnswer, MetaRefuses, MetaIsBusy, Attach, RecordFailure, SenderStops,
    ReconcileUnresolved

LEMMA BoundsStep ==
  ASSUME Types, [Next]_vars
  PROVE  refusals' \in 0 .. scene.refusals /\ faults' \in 0 .. scene.faults
<1>1. /\ refusals \in 0 .. scene.refusals /\ faults \in 0 .. scene.faults
      /\ scene.refusals \in Nat /\ scene.faults \in Nat
  BY SceneFacts DEF Types, BoundTypes
<1>2. \/ UNCHANGED bounds
      \/ Refusal /\ UNCHANGED faults
      \/ Fault /\ UNCHANGED refusals
  BY DEF Next, vars, bounds, SendStep, Reserve, SkipReserve, ClaimForSend,
    MetaAccepts, MetaDoesNotAnswer, MetaRefuses, MetaIsBusy, Attach, RecordFailure, SenderStops,
    ReconcileUnresolved, MetaReports, Ingest, Replay, DrainStep, ClaimEvent, RecordEvent, MatchRow,
    ApplyStatus, MarkProcessed, HandlerFails, DrainStops
<1> QED
  BY <1>1, <1>2 DEF bounds, Refusal, Fault
-----------------------------------------------------------------------------
(* What drains hold *)

\* A row that has Meta's id keeps one.
IdsStay == \A r \in Row : row[r].id # None => row'[r].id # None

LEMMA IdsStayStep ==
  ASSUME Types, SendersFit, DrainsFit, [Next]_vars
  PROVE  IdsStay
<1>1. row \in [Row -> RowType] /\ \A s \in Sender : RowOf(s) \in Row
  BY DEF Types, Row, RowOf
<1>2. ASSUME NEW s \in Sender, Attach(s) PROVE IdsStay
  <2>1. PICK now \in Nat : row' = [row EXCEPT ![RowOf(s)] =
          [status |-> IF scene.durable THEN "sent" ELSE "queued", id |-> got[s], stamp |-> now + 1]]
    BY <1>2, AttachStep
  <2>2. got[s] # None
    BY <1>2, MetaLength, Constants DEF Attach, SendersFit
  <2> QED
    BY <1>1, <2>1, <2>2 DEF IdsStay
<1>3. ASSUME NEW r \in Row, NEW status, row' = [row EXCEPT ![r].status = status] PROVE IdsStay
  BY <1>1, <1>3 DEF IdsStay, RowType
<1>4. ASSUME NEW s \in Sender, Reserve(s) \/ ClaimForSend(s) \/ RecordFailure(s) PROVE IdsStay
  <2>1. Shared \in Row
    BY DEF Row
  <2>2. CASE UNCHANGED row
    BY <2>2 DEF IdsStay
  <2>3. CASE Reserve(s)
    BY <1>3, <2>1, <2>2, <2>3 DEF Reserve
  <2>4. CASE ClaimForSend(s)
    BY <1>3, <2>1, <2>2, <2>4 DEF ClaimForSend
  <2>5. CASE RecordFailure(s)
    BY <1>1, <1>3, <2>2, <2>5 DEF RecordFailure
  <2> QED
    BY <1>4, <2>2, <2>3, <2>4, <2>5
<1>5. ASSUME NEW d \in Drain, ApplyStatus(d) PROVE IdsStay
  <2>1. PICK new \in RowType : new.id = row[target[d]].id /\ row' = [row EXCEPT ![target[d]] = new]
    BY <1>5, AppliedReport
  <2> QED
    BY <1>1, <2>1 DEF IdsStay
<1>6. CASE UNCHANGED row
  BY <1>6 DEF IdsStay
<1>7. CASE ReconcileUnresolved
  BY <1>3, <1>7 DEF ReconcileUnresolved, Row
<1> QED
  BY <1>2, <1>4, <1>5, <1>6, <1>7 DEF Next, vars, SendStep, SkipReserve, MetaAccepts,
    MetaDoesNotAnswer, MetaRefuses, MetaIsBusy, SenderStops, MetaReports, Ingest, Replay,
    DrainStep, ClaimEvent, RecordEvent, MatchRow, MarkProcessed, HandlerFails, DrainStops

\* One drain moves, and fits where it comes to.
DrainGoes(d, place, e, r, read) ==
  /\ dpc' = [dpc EXCEPT ![d] = place] /\ event' = [event EXCEPT ![d] = e]
  /\ target' = [target EXCEPT ![d] = r] /\ snap' = [snap EXCEPT ![d] = read]

LEMMA DrainsStay ==
  ASSUME Types, DrainsFit, IdsStay, UNCHANGED draining
  PROVE  DrainTypes' /\ DrainsFit'
<1>1. DrainTypes'
  BY DEF Types, DrainTypes, draining
<1>2. ASSUME NEW d \in Drain PROVE DrainFits(d)'
  BY <1>2 DEF DrainsFit, DrainFits, IdsStay, draining
<1> QED
  BY <1>1, <1>2 DEF DrainsFit

LEMMA DrainMoves ==
  ASSUME Types, DrainsFit, IdsStay, NEW d \in Drain,
         NEW place \in {"idle", "record", "match", "apply", "mark"},
         NEW e \in Report \cup {None}, NEW r \in Row \cup {None}, NEW read \in RowType,
         DrainGoes(d, place, e, r, read),
         place # "idle" => e \in Report,
         place = "apply" => r \in Row /\ row'[r].id # None /\ Rank(e[2]) >= Rank(read.status)
  PROVE  DrainTypes' /\ DrainsFit'
<1>1. /\ dpc \in [Drain -> {"idle", "record", "match", "apply", "mark"}]
      /\ event \in [Drain -> Report \cup {None}] /\ target \in [Drain -> Row \cup {None}]
      /\ snap \in [Drain -> RowType]
  BY DEF Types, DrainTypes
<1>2. DrainTypes'
  BY <1>1 DEF DrainTypes, DrainGoes
<1>3. ASSUME NEW other \in Drain PROVE DrainFits(other)'
  <2>1. CASE other = d
    BY <1>1, <2>1 DEF DrainFits, DrainGoes
  <2>2. CASE other # d
    <3>1. /\ dpc'[other] = dpc[other] /\ event'[other] = event[other]
          /\ target'[other] = target[other] /\ snap'[other] = snap[other]
      BY <1>1, <2>2 DEF DrainGoes
    <3> QED
      BY <3>1 DEF DrainsFit, DrainFits, IdsStay
  <2> QED
    BY <2>1, <2>2
<1> QED
  BY <1>2, <1>3 DEF DrainsFit

LEMMA DrainsStep ==
  ASSUME Types, SendersFit, DrainsFit, [Next]_vars
  PROVE  DrainTypes' /\ DrainsFit'
<1>i. IdsStay
  BY IdsStayStep
<1>t. /\ dpc \in [Drain -> {"idle", "record", "match", "apply", "mark"}]
      /\ event \in [Drain -> Report \cup {None}] /\ target \in [Drain -> Row \cup {None}]
      /\ snap \in [Drain -> RowType] /\ row \in [Row -> RowType] /\ Empty \in RowType
  BY DEF Types, DrainTypes, Empty, RowType
<1>1. ASSUME NEW d \in Drain, NEW e \in Report, ClaimEvent(d, e) PROVE DrainTypes' /\ DrainsFit'
  <2>1. DrainGoes(d, "record", e, target[d], snap[d])
    BY <1>1, <1>t DEF ClaimEvent, Walks, DrainGoes
  <2> QED
    BY <1>i, <1>t, <2>1, DrainMoves
<1>2. ASSUME NEW d \in Drain, RecordEvent(d) PROVE DrainTypes' /\ DrainsFit'
  <2>1. /\ event[d] \in Report
        /\ \E place \in {"mark", "match"} : DrainGoes(d, place, event[d], target[d], snap[d])
    BY <1>2, <1>t DEF RecordEvent, Walks, DrainGoes, DrainsFit, DrainFits
  <2> QED
    BY <1>i, <1>t, <2>1, DrainMoves
<1>3. ASSUME NEW d \in Drain, MatchRow(d) PROVE DrainTypes' /\ DrainsFit'
  <2>1. event[d] \in Report /\ event[d][1] \in Id /\ UNCHANGED row
    BY <1>3 DEF MatchRow, DrainsFit, DrainFits, Report
  <2>2. CASE Walks(d, "match", "mark") /\ UNCHANGED <<target, snap>>
    <3>1. DrainGoes(d, "mark", event[d], target[d], snap[d])
      BY <1>3, <1>t, <2>2 DEF MatchRow, Walks, DrainGoes
    <3> QED
      BY <1>i, <1>t, <2>1, <3>1, DrainMoves
  <2>3. ASSUME NEW r \in Row, row[r].id = event[d][1],
               Walks(d, "match", IF Applies(event[d], row[r]) THEN "apply" ELSE "mark"),
               target' = [target EXCEPT ![d] = r], snap' = [snap EXCEPT ![d] = row[r]]
        PROVE  DrainTypes' /\ DrainsFit'
    <3>1. row'[r].id # None
      BY <2>1, <2>3, Constants DEF Id
    <3>2. PICK place \in {"apply", "mark"} :
            /\ DrainGoes(d, place, event[d], r, row[r])
            /\ place = "apply" => Applies(event[d], row[r])
      BY <1>3, <1>t, <2>3 DEF MatchRow, Walks, DrainGoes
    <3>3. place = "apply" => Rank(event[d][2]) >= Rank(row[r].status)
      BY <3>2 DEF Applies
    <3>4. row[r] \in RowType
      BY <1>t
    <3> QED
      BY <1>i, <2>1, <3>1, <3>2, <3>3, <3>4, DrainMoves
  <2> QED
    BY <1>3, <2>2, <2>3 DEF MatchRow
<1>4. ASSUME NEW d \in Drain, ApplyStatus(d) PROVE DrainTypes' /\ DrainsFit'
  <2>1. event[d] \in Report /\ DrainGoes(d, "mark", event[d], target[d], snap[d])
    BY <1>4, <1>t DEF ApplyStatus, Walks, DrainGoes, DrainsFit, DrainFits
  <2> QED
    BY <1>i, <1>t, <2>1, DrainMoves
<1>5. ASSUME NEW d \in Drain, LetGo(d) PROVE DrainTypes' /\ DrainsFit'
  <2>1. DrainGoes(d, "idle", None, None, Empty)
    BY <1>5 DEF LetGo, DrainGoes
  <2> QED
    BY <1>i, <1>t, <2>1, DrainMoves
<1>6. CASE UNCHANGED draining
  BY <1>i, <1>6, DrainsStay
<1> QED
  BY <1>1, <1>2, <1>3, <1>4, <1>5, <1>6 DEF Next, vars, SendStep, Reserve, SkipReserve, ClaimForSend,
    MetaAccepts, MetaDoesNotAnswer, MetaRefuses, MetaIsBusy, Attach, RecordFailure, SenderStops,
    ReconcileUnresolved, MetaReports, Ingest, Replay, DrainStep, MarkProcessed, HandlerFails, DrainStops
-----------------------------------------------------------------------------
(* The rows *)

\* A step after which no other sender may call Meta, and which leaves the shared row as
\* it is, queues it, or settles it when no call is under way.
ClaimKept ==
  /\ Len(meta') = Len(meta) /\ doubts' = doubts
  /\ \A s \in Sender : pc'[s] \in Sending => pc'[s] = pc[s]
  /\ \/ row'[Shared] = row[Shared]
     \/ /\ row[Shared].status = "none" /\ row'[Shared].status = "queued"
        /\ row'[Shared].id = row[Shared].id
     \/ row'[Shared].status \notin {"none", "queued"} /\ \A s \in Sender : pc'[s] \notin Sending

LEMMA ClaimKeeps ==
  ASSUME Types, ClaimedOnce, AcceptedOnce, UNCHANGED scene, ClaimKept
  PROVE  ClaimedOnce' /\ AcceptedOnce'
<1>1. ClaimedOnce'
  BY DEF ClaimedOnce, ClaimKept
<1>2. AcceptedOnce'
  BY DEF AcceptedOnce, ClaimKept, Sending
<1> QED
  BY <1>1, <1>2

LEMMA ClaimStep ==
  ASSUME Types, SendersFit, DrainsFit, ClaimedOnce, AcceptedOnce, scene.durable, [Next]_vars
  PROVE  ClaimedOnce' /\ AcceptedOnce'
<1>t. /\ row \in [Row -> RowType] /\ Shared \in Row /\ pc \in [Sender -> Place]
      /\ Len(meta) \in Nat /\ doubts \in Nat /\ UNCHANGED scene
  BY SceneStays, MetaLength DEF Types, Row, SenderTypes, BoundTypes
<1>k. ASSUME ClaimKept PROVE ClaimedOnce' /\ AcceptedOnce'
  BY <1>k, <1>t, ClaimKeeps
<1>s. \A s \in Sender : RowOf(s) = Shared
  BY DEF RowOf
<1>a. ASSUME NEW s \in Sender, pc[s] \in Sending
      PROVE  /\ row[Shared].status = "sending" /\ row[Shared].id = None
             /\ \A other \in Sender : pc[other] \in Sending => other = s
  BY <1>a DEF ClaimedOnce
<1>1. ASSUME NEW s \in Sender, Reserve(s) PROVE ClaimKept
  BY <1>1, <1>t DEF Reserve, Goto, ClaimKept, Sending, RowType
<1>2. ASSUME NEW s \in Sender, ClaimForSend(s) PROVE ClaimedOnce' /\ AcceptedOnce'
  <2>1. CASE Claimable
    <3>1. /\ row' = [row EXCEPT ![Shared].status = "sending"] /\ pc' = [pc EXCEPT ![s] = "call"]
          /\ UNCHANGED <<meta, doubts>>
      BY <1>2, <2>1 DEF ClaimForSend, Goto
    <3>2. Len(meta) = 0 /\ row[Shared].id = None /\ \A other \in Sender : pc[other] \notin Sending
      BY <2>1 DEF Claimable, ClaimedOnce
    <3>3. row'[Shared].status = "sending" /\ row'[Shared].id = None
      BY <1>t, <3>1, <3>2 DEF RowType
    <3>4. ClaimedOnce'
      BY <1>t, <3>1, <3>2, <3>3 DEF ClaimedOnce, Sending
    <3> QED
      BY <1>t, <3>1, <3>2, <3>4 DEF AcceptedOnce
  <2>2. CASE ~Claimable
    <3>1. ClaimKept
      BY <1>2, <1>t, <2>2 DEF ClaimForSend, Goto, ClaimKept, Sending
    <3> QED
      BY <1>k, <3>1
  <2> QED
    BY <2>1, <2>2
<1>3. ASSUME NEW s \in Sender, CallStep(s) PROVE ClaimedOnce' /\ AcceptedOnce'
  <2>1. /\ pc[s] = "call" /\ pc[s] \in Sending /\ row' = row /\ Len(meta) <= doubts
        /\ row[Shared].status = "sending"
    BY <1>3, <1>a DEF CallStep, AcceptedOnce, Sending
  <2>2. PICK next \in Sending :
          /\ pc' = [pc EXCEPT ![s] = next]
          /\ \/ Len(meta') = Len(meta) /\ doubts' = doubts
             \/ Len(meta') = Len(meta) + 1 /\ doubts' = doubts + 1
             \/ Len(meta') = Len(meta) + 1 /\ doubts' = doubts /\ next # "call"
    BY <1>3 DEF CallStep
  <2>3. \A other \in Sender : pc'[other] \in Sending => other = s
    BY <1>a, <1>t, <2>1, <2>2
  <2>4. ClaimedOnce'
    BY <1>a, <1>t, <2>1, <2>3 DEF ClaimedOnce
  <2>5. Len(meta') <= doubts' + 1 /\ (next = "call" => Len(meta') <= doubts')
    BY <1>t, <2>1, <2>2
  <2>6. AcceptedOnce'
    BY <1>t, <2>2, <2>3, <2>5 DEF AcceptedOnce, Sending
  <2> QED
    BY <2>4, <2>6
<1>4. ASSUME NEW s \in Sender, Attach(s) PROVE ClaimKept
  <2>1. PICK now \in Nat : row' = [row EXCEPT ![Shared] =
          [status |-> "sent", id |-> got[s], stamp |-> now + 1]]
    BY <1>4, <1>s, AttachStep
  <2>2. /\ pc[s] \in Sending /\ pc' = [pc EXCEPT ![s] = "over"] /\ doubts' = doubts
        /\ Len(meta') = Len(meta)
    BY <1>4, AttachStep DEF OtherMove, Sending
  <2>3. \A other \in Sender : pc'[other] \notin Sending
    BY <1>a, <1>t, <2>2 DEF Sending
  <2> QED
    BY <1>t, <2>1, <2>2, <2>3 DEF ClaimKept
<1>5. ASSUME NEW s \in Sender, RecordFailure(s) PROVE ClaimKept
  <2>1. pc[s] \in Sending /\ pc' = [pc EXCEPT ![s] = "over"] /\ UNCHANGED <<meta, doubts>>
    BY <1>5 DEF RecordFailure, Goto, Sending
  <2>2. \A other \in Sender : pc'[other] \notin Sending
    BY <1>a, <1>t, <2>1 DEF Sending
  <2>3. \/ row' = row
        \/ row' = [row EXCEPT ![Shared].status = "failed"]
        \/ row' = [row EXCEPT ![Shared].status = "unknown"]
    BY <1>5, <1>s DEF RecordFailure
  <2>4. row'[Shared].status \notin {"none", "queued"}
    BY <1>a, <1>t, <2>1, <2>3 DEF RowType
  <2> QED
    BY <2>1, <2>2, <2>4 DEF ClaimKept
<1>6. ASSUME NEW s \in Sender, SkipReserve(s) \/ SenderStops(s) PROVE ClaimKept
  BY <1>6, <1>t DEF SkipReserve, SenderStops, Goto, ClaimKept, Sending
<1>7. CASE ReconcileUnresolved
  <2>1. ClaimKept
    BY <1>7, <1>t DEF ReconcileUnresolved, ClaimKept, Sending, sending, RowType
  <2> QED
    BY <1>k, <2>1
<1>8. ASSUME NEW d \in Drain, ApplyStatus(d) PROVE ClaimKept
  <2>1. PICK new \in RowType : new.status \in Status /\ row' = [row EXCEPT ![target[d]] = new]
    BY <1>8, AppliedReport
  <2>2. target[d] \in Row /\ row[target[d]].id # None /\ UNCHANGED <<pc, meta, doubts>>
    BY <1>8, AppliedReport DEF ApplyStatus, sending
  <2>3. CASE target[d] = Shared
    <3>1. \A s \in Sender : pc[s] \notin Sending
      BY <1>a, <2>2, <2>3
    <3> QED
      BY <1>t, <2>1, <2>2, <2>3, <3>1 DEF ClaimKept, Status
  <2>4. CASE target[d] # Shared
    BY <1>t, <2>1, <2>2, <2>4 DEF ClaimKept
  <2> QED
    BY <2>3, <2>4
<1>9. CASE SendersWait /\ UNCHANGED row
  <2>1. ClaimKept
    BY <1>9 DEF SendersWait, ClaimKept
  <2> QED
    BY <1>k, <2>1
<1>10. ASSUME NEW i \in Id, NEW st \in Status, MetaReports(i, st) PROVE SendersWait /\ UNCHANGED row
  BY <1>10, ReportMoves DEF MetaReports
<1>11. CASE \/ \E e \in Report : Ingest(e) \/ Replay(e)
            \/ \E d \in Drain : \/ \E e \in Report : ClaimEvent(d, e)
                                \/ RecordEvent(d) \/ MatchRow(d) \/ MarkProcessed(d)
                                \/ HandlerFails(d) \/ DrainStops(d)
            \/ UNCHANGED vars
  <2>1. UNCHANGED <<meta, pc, calls, got, row, doubts>>
    BY <1>11 DEF Ingest, Replay, ClaimEvent, RecordEvent, MatchRow, MarkProcessed, HandlerFails,
      DrainStops, vars, sending
  <2>2. SendersWait /\ UNCHANGED row
    BY <2>1 DEF Types, SendersWait
  <2> QED
    BY <1>9, <2>2
<1>12. ASSUME NEW s \in Sender, SendStep(s) PROVE ClaimedOnce' /\ AcceptedOnce'
  BY <1>12, <1>k, <1>1, <1>2, <1>3, <1>4, <1>5, <1>6, CallsAreSteps DEF SendStep
<1> QED
  BY <1>k, <1>6, <1>7, <1>8, <1>9, <1>10, <1>11, <1>12 DEF Next, DrainStep

\* A row of a sender's own is written when that sender ends, and by drains after that.
LEMMA OwnRowsStep ==
  ASSUME Types, SendersFit, DrainsFit, OwnRowsWait, ~scene.durable, [Next]_vars
  PROVE  OwnRowsWait'
<1>t. /\ row \in [Row -> RowType] /\ Shared \in Row /\ pc \in [Sender -> Place]
      /\ Sender \subseteq Row /\ Shared \notin Sender /\ UNCHANGED scene
  BY SceneStays, Constants DEF Types, Row, SenderTypes
<1>s. \A s \in Sender : RowOf(s) = s
  BY DEF RowOf
<1> SUFFICES \A t \in Sender : pc'[t] # "over" => pc[t] # "over" /\ row'[t] = row[t]
  BY <1>t DEF OwnRowsWait
<1> DEFINE Waits == \A t \in Sender : pc'[t] # "over" => pc[t] # "over" /\ row'[t] = row[t]
<1>1. ASSUME NEW s \in Sender, Attach(s) PROVE Waits
  <2>1. PICK new : row' = [row EXCEPT ![s] = new]
    BY <1>1, <1>s, AttachStep
  <2>2. pc' = [pc EXCEPT ![s] = "over"]
    BY <1>1 DEF Attach, Goto
  <2> QED
    BY <1>t, <2>1, <2>2
<1>2. ASSUME NEW s \in Sender, RecordFailure(s) PROVE Waits
  <2>1. row' = [row EXCEPT ![s].status = "failed"] \/ row' = [row EXCEPT ![s].status = "unknown"]
    BY <1>2, <1>s DEF RecordFailure
  <2>2. pc' = [pc EXCEPT ![s] = "over"]
    BY <1>2 DEF RecordFailure, Goto
  <2> QED
    BY <1>t, <2>1, <2>2
<1>3. ASSUME NEW s \in Sender, Reserve(s) \/ SkipReserve(s) \/ ClaimForSend(s) \/ SenderStops(s)
      PROVE  Waits
  BY <1>3, <1>t DEF Reserve, SkipReserve, ClaimForSend, SenderStops, Goto
<1>4. ASSUME NEW s \in Sender, CallStep(s) PROVE Waits
  BY <1>4, <1>t DEF CallStep
<1>5. CASE ReconcileUnresolved
  BY <1>5, <1>t DEF ReconcileUnresolved, sending
<1>6. ASSUME NEW d \in Drain, ApplyStatus(d) PROVE Waits
  <2>1. PICK new \in RowType : row' = [row EXCEPT ![target[d]] = new]
    BY <1>6, AppliedReport
  <2>2. row[target[d]].id # None /\ UNCHANGED pc
    BY <1>6, AppliedReport DEF ApplyStatus, sending
  <2> QED
    BY <1>t, <2>1, <2>2 DEF OwnRowsWait
<1>7. CASE \/ \E i \in Id, st \in Status : MetaReports(i, st)
           \/ \E e \in Report : Ingest(e) \/ Replay(e)
           \/ \E d \in Drain : \/ \E e \in Report : ClaimEvent(d, e)
                               \/ RecordEvent(d) \/ MatchRow(d) \/ MarkProcessed(d)
                               \/ HandlerFails(d) \/ DrainStops(d)
           \/ UNCHANGED vars
  BY <1>7 DEF MetaReports, Ingest, Replay, ClaimEvent, RecordEvent, MatchRow, MarkProcessed,
    HandlerFails, DrainStops, vars, sending
<1>8. ASSUME NEW s \in Sender, SendStep(s) PROVE Waits
  BY <1>8, <1>1, <1>2, <1>3, <1>4, CallsAreSteps DEF SendStep
<1> QED
  BY <1>3, <1>5, <1>6, <1>7, <1>8 DEF Next, DrainStep

LEMMA RowsStep ==
  ASSUME Types, SendersFit, DrainsFit, ClaimedOnce, AcceptedOnce, OwnRowsWait, [Next]_vars
  PROVE  ClaimedOnce' /\ AcceptedOnce' /\ OwnRowsWait'
<1>1. UNCHANGED scene
  BY SceneStays DEF Types
<1>2. CASE scene.durable
  BY <1>1, <1>2, ClaimStep DEF OwnRowsWait
<1>3. CASE ~scene.durable
  BY <1>1, <1>3, OwnRowsStep DEF ClaimedOnce, AcceptedOnce
<1> QED
  BY <1>2, <1>3
-----------------------------------------------------------------------------
(* The inductive invariant *)

LEMMA InvInit == ASSUME Init PROVE IInv
<1>1. scene \in Scene /\ Len(meta) = 0 /\ meta \in Seq(Message) /\ doubts = 0
  BY EmptySeq DEF Init
<1>2. /\ Cardinality(CallsOf(calls)) \in Nat /\ Cardinality(Beyond(pc)) \in Nat
      /\ scene.refusals \in Nat /\ scene.faults \in Nat
  BY <1>1, CallsAreFinite, SendersAreFinite, SceneFacts
<1>3. Empty \in RowType
  BY DEF Empty, RowType
<1>4. SenderTypes
  BY Constants DEF Init, SenderTypes, Place
<1>5. DrainTypes
  BY <1>3 DEF Init, DrainTypes
<1>6. inbox \in [Report -> InboxRow] /\ seen \in SUBSET Report /\ row \in [Row -> RowType]
  BY <1>3 DEF Init, InboxRow
<1>7. BoundTypes
  BY <1>2 DEF Init, BoundTypes
<1>8. TypeOK
  BY <1>1, <1>4, <1>5, <1>6, <1>7, TypesAreTypeOK DEF Types
<1>9. SendersFit
  <2>1. \A s \in Sender : pc[s] \in {"start", "over"} /\ calls[s] = 0
                          /\ (s \notin scene.senders => pc[s] = "over")
    BY DEF Init
  <2> QED
    BY <1>1, <1>2, <2>1 DEF SendersFit
<1>10. AcceptedPerSender
  BY <1>1, <1>2 DEF AcceptedPerSender
<1>11. \A s \in Sender : pc[s] \notin Sending
  BY DEF Init, Sending
<1>12. \A r \in Row : row[r].status = "none" /\ row[r].id = None
  BY DEF Init, Empty
<1>13. ClaimedOnce /\ AcceptedOnce /\ OwnRowsWait
  BY <1>1, <1>11, <1>12 DEF ClaimedOnce, AcceptedOnce, OwnRowsWait, Sending, Row
<1>14. DrainsFit
  BY DEF Init, DrainsFit, DrainFits
<1> QED
  BY <1>8, <1>9, <1>10, <1>13, <1>14 DEF IInv

LEMMA InvStep == ASSUME IInv, [Next]_vars PROVE IInv'
<1>1. Types /\ SendersFit /\ AcceptedPerSender /\ ClaimedOnce /\ AcceptedOnce /\ OwnRowsWait /\ DrainsFit
  BY TypesAreTypeOK DEF IInv
<1>2. UNCHANGED scene
  BY SceneStays
<1>3. /\ SenderTypes' /\ meta' \in Seq(Message) /\ doubts' \in Nat
      /\ SendersFit' /\ AcceptedPerSender'
  BY <1>1, SendersStep
<1>4. row' \in [Row -> RowType]
  BY <1>1, RowTypes
<1>5. inbox' \in [Report -> InboxRow] /\ seen' \in SUBSET Report
  BY <1>1, InboxTypes
<1>6. refusals' \in 0 .. scene'.refusals /\ faults' \in 0 .. scene'.faults
  BY <1>1, <1>2, BoundsStep
<1>7. DrainTypes' /\ DrainsFit'
  BY <1>1, DrainsStep
<1>8. ClaimedOnce' /\ AcceptedOnce' /\ OwnRowsWait'
  BY <1>1, RowsStep
<1>9. Types'
  BY <1>1, <1>2, <1>3, <1>4, <1>5, <1>6, <1>7 DEF Types, BoundTypes
<1>10. TypeOK' <=> Types'
  BY DEF TypeOK, Types, SenderTypes, DrainTypes, BoundTypes, Place, Message, InboxRow
<1> QED
  BY <1>3, <1>7, <1>8, <1>9, <1>10 DEF IInv

\* Whatever senders, crashes, reports, drains and replays do, the invariant holds.
THEOREM Invariance == Spec => []IInv
<1>1. Init => IInv
  BY InvInit
<1>2. IInv /\ [Next]_vars => IInv'
  BY InvStep
<1> QED
  BY <1>1, <1>2, PTL DEF Spec

\* Every variable keeps its type: the rows' and reports' states are those of the code,
\* and an attached id is one that Meta gave.
THEOREM TypeCorrect == Spec => []TypeOK
<1>1. IInv => TypeOK
  BY DEF IInv
<1> QED
  BY <1>1, Invariance, PTL

\* However many callers send the same durable notification and wherever they stop, Meta
\* accepts it once, or once more for each call it accepted but answered as busy
\* (notificationOutbox.service.js claimForSend, whatsapp.service.js sendTextMessage).
THEOREM SentOnce == Spec => []NotSentTwice
<1>1. ASSUME IInv PROVE NotSentTwice
  <2>1. /\ scene \in Scene /\ doubts \in Nat /\ Len(meta) \in Nat
    BY <1>1, TypesAreTypeOK, MetaLength DEF IInv, TypeOK
  <2>2. CASE scene.durable
    BY <1>1, <2>2 DEF IInv, AcceptedOnce, NotSentTwice
  <2>3. CASE ~scene.durable
    <3>1. Len(meta) <= doubts + Cardinality(Beyond(pc))
      BY <1>1 DEF IInv, AcceptedPerSender
    <3>2. /\ Cardinality(Beyond(pc)) \in Nat /\ Cardinality(scene.senders) \in Nat
          /\ Cardinality(Beyond(pc)) <= Cardinality(scene.senders)
      BY <2>1, SendersAreFinite
    <3> QED
      BY <2>1, <2>3, <3>1, <3>2 DEF NotSentTwice
  <2> QED
    BY <2>2, <2>3
<1>2. IInv => NotSentTwice
  BY <1>1
<1> QED
  BY <1>2, Invariance, PTL
-----------------------------------------------------------------------------
(* Statuses only rise *)

\* Before Meta reports anything, a row has no rank; a failed row has the highest.
LEMMA Ranks ==
  /\ \A status \in {"none", "queued", "sending", "unknown"} : Rank(status) = 0
  /\ \A status \in Status : Rank(status) \in 1 .. 4
  /\ Rank("failed") = 4
BY DEF Rank, Status

LEMMA RankOfRow == ASSUME NEW r \in RowType PROVE Rank(r.status) \in 0 .. 4
BY Ranks DEF RowType

\* The row written to by a sender had no status that Meta reported.
LEMMA SendersWriteFirst ==
  ASSUME IInv, NEW s \in Sender, pc[s] \in Sending
  PROVE  RowOf(s) \in Row /\ Rank(row[RowOf(s)].status) = 0
<1>1. CASE scene.durable
  BY <1>1, Ranks DEF IInv, ClaimedOnce, RowOf, Row
<1>2. CASE ~scene.durable
  BY <1>2, Ranks DEF IInv, OwnRowsWait, RowOf, Row, Sending
<1> QED
  BY <1>1, <1>2

Overtaken(r) == \E d \in Drain : target[d] = r /\ dpc[d] = "apply" /\ snap[d] # row[r]
Rises == \A r \in Row : Rank(row'[r].status) < Rank(row[r].status) => Overtaken(r)

LEMMA RowsRise == ASSUME IInv, [Next]_vars PROVE Rises
<1>t. /\ Types /\ SendersFit /\ DrainsFit /\ row \in [Row -> RowType] /\ row' \in [Row -> RowType]
      /\ Shared \in Row
  BY TypesAreTypeOK, RowTypes DEF IInv, Types, Row
<1>r. \A r \in Row : Rank(row[r].status) \in 0 .. 4 /\ Rank(row'[r].status) \in 0 .. 4
  BY <1>t, RankOfRow
\* A row that had no reported status cannot fall.
<1>z. ASSUME NEW r \in Row, Rank(row[r].status) = 0, NEW new, row' = [row EXCEPT ![r] = new]
      PROVE  Rises
  BY <1>z, <1>t, <1>r DEF Rises
<1>y. ASSUME NEW r \in Row, Rank(row[r].status) = 0, NEW new, row' = [row EXCEPT ![r].status = new]
      PROVE  Rises
  BY <1>y, <1>t, <1>r DEF Rises
<1>1. CASE UNCHANGED row
  BY <1>1, <1>r DEF Rises
<1>2. ASSUME NEW s \in Sender, Reserve(s) \/ ClaimForSend(s) PROVE Rises
  <2>1. \/ UNCHANGED row
        \/ row[Shared].status = "none" /\ row' = [row EXCEPT ![Shared].status = "queued"]
        \/ row[Shared].status = "queued" /\ row' = [row EXCEPT ![Shared].status = "sending"]
    BY <1>2 DEF Reserve, ClaimForSend, Claimable
  <2> QED
    BY <1>t, <1>1, <1>y, <2>1, Ranks
<1>3. ASSUME NEW s \in Sender, Attach(s) PROVE Rises
  <2>1. PICK now \in Nat : row' = [row EXCEPT ![RowOf(s)] =
          [status |-> IF scene.durable THEN "sent" ELSE "queued", id |-> got[s], stamp |-> now + 1]]
    BY <1>3, <1>t, AttachStep
  <2>2. pc[s] \in Sending
    BY <1>3 DEF Attach, Sending
  <2> QED
    BY <1>z, <2>1, <2>2, SendersWriteFirst
<1>4. ASSUME NEW s \in Sender, RecordFailure(s) PROVE Rises
  <2>1. \/ UNCHANGED row
        \/ row' = [row EXCEPT ![RowOf(s)].status = "failed"]
        \/ row' = [row EXCEPT ![RowOf(s)].status = "unknown"]
    BY <1>4 DEF RecordFailure
  <2>2. pc[s] \in Sending
    BY <1>4 DEF RecordFailure, Sending
  <2> QED
    BY <1>1, <1>y, <2>1, <2>2, SendersWriteFirst
<1>5. CASE ReconcileUnresolved
  BY <1>5, <1>t, <1>y, Ranks DEF ReconcileUnresolved, Unresolved
<1>6. ASSUME NEW d \in Drain, ApplyStatus(d) PROVE Rises
  <2>1. /\ target[d] \in Row /\ dpc[d] = "apply" /\ Rank(event[d][2]) >= Rank(snap[d].status)
        /\ \E new \in RowType : new.status = event[d][2] /\ row' = [row EXCEPT ![target[d]] = new]
    BY <1>6, <1>t, AppliedReport
  <2>2. snap[d] \in RowType
    BY <1>t DEF Types, DrainTypes
  <2>3. Rank(snap[d].status) \in 0 .. 4
    BY <2>2, RankOfRow
  <2>4. row'[target[d]].status = event[d][2]
    BY <1>t, <2>1
  <2>5. ASSUME NEW r \in Row, Rank(row'[r].status) < Rank(row[r].status) PROVE Overtaken(r)
    <3>1. r = target[d]
      BY <1>r, <1>t, <2>1, <2>5
    <3>2. Rank(event[d][2]) < Rank(row[r].status) /\ Rank(event[d][2]) \in 0 .. 4
      BY <1>r, <2>4, <2>5, <3>1
    <3>3. Rank(snap[d].status) # Rank(row[r].status)
      BY <1>r, <2>1, <2>3, <3>2
    <3>4. snap[d] # row[r]
      BY <3>3
    <3> QED
      BY <2>1, <3>1, <3>4 DEF Overtaken
  <2> QED
    BY <2>5 DEF Rises
<1> QED
  BY <1>1, <1>2, <1>3, <1>4, <1>5, <1>6 DEF Next, vars, SendStep, SkipReserve, MetaAccepts,
    MetaDoesNotAnswer, MetaRefuses, MetaIsBusy, SenderStops, MetaReports, Ingest, Replay,
    DrainStep, ClaimEvent, RecordEvent, MatchRow, MarkProcessed, HandlerFails, DrainStops

\* Reports may be repeated, late, reordered and replayed, and drains may crash: the status
\* of a row falls only when a drain writes over what another wrote since it read the row
\* (whatsapp.service.js recordDeliveryStatus, webhookInbox.service.js drainInbox).
THEOREM StatusesRise == Spec => RowNeverGoesBack
<1>1. ASSUME IInv, [Next]_vars
      PROVE  [\A r \in Row : Rank(row'[r].status) < Rank(row[r].status) =>
                \E d \in Drain : target[d] = r /\ dpc[d] = "apply" /\ snap[d] # row[r]]_row
  BY <1>1, RowsRise DEF Rises, Overtaken
<1> QED
  BY <1>1, Invariance, PTL DEF Spec, RowNeverGoesBack
=============================================================================
