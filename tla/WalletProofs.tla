---------------------------- MODULE WalletProofs ----------------------------
(***************************************************************************)
(* Proofs about what reaches a customer's wallet, in two parts.  Deposits, *)
(* for any number of sweeps, payments, page sizes and attempts: types,     *)
(* that no deposit is skipped, and that the owner is told of none twice.   *)
(* WalletProvisioning, for any number of calls, crashes, failed calls,     *)
(* leases that end under a call and recoveries: types, and that the calls  *)
(* of a part do not overlap.                                               *)
(***************************************************************************)
EXTENDS Deposits, WalletProvisioning, WellFoundedInduction, SequenceTheorems, TLAPS

\* What a sweep has in hand at each place.
InHand == {"write", "check", "notify", "deliver", "defer"}
PageFits(p) ==
  /\ pc[p] = "init" => last[p] \in 1 .. listed
  /\ pc[p] = "fetch" => behind[p] \in 0 .. listed
  /\ pc[p] \in InHand \cup {"advance"} => behind[p] \in 0 .. last[p] /\ last[p] \in 0 .. listed
  /\ pc[p] \in InHand => at[p] \in Payment /\ Inbound(at[p]) /\ at[p] <= last[p]
  /\ pc[p] \in {"settle", "fail"} => at[p] \in Payment
PagesFit == (cursor # None => cursor \in 0 .. listed) /\ \A p \in Poller : PageFits(p)

\* All inbound payments up to x have a record, or are history.
CoveredBy(x, records, history) ==
  \A k \in Payment : history < k /\ k <= x /\ Inbound(k) => records[k] # NoRecord
Covered(x) == CoveredBy(x, record, base)
PageCovered(p) ==
  /\ pc[p] = "fetch" => Covered(behind[p])
  /\ pc[p] = "write" => Covered(at[p] - 1)
  /\ pc[p] \in InHand \ {"write"} => Covered(at[p])
  /\ pc[p] = "advance" => Covered(last[p])
PagesCovered == (cursor # None => Covered(cursor)) /\ \A p \in Poller : PageCovered(p)

\* Before its row is claimed the owner was told of no deposit.
ToldByTheRow == ~alerted => \A k \in Payment : scene.payments[k] = "deposit" => told[k] = 0

DepositsInv == TypeOK /\ PagesFit /\ PagesCovered /\ ToldByTheRow /\ DepositToldOnce
-----------------------------------------------------------------------------
(* The smallest of numbers *)

LEMMA Smallest == ASSUME NEW S \in SUBSET Nat, S # {} PROVE \E x \in S : \A y \in S : x <= y
<1> DEFINE R == OpToRel(<, Nat)
<1>1. IsWellFoundedOn(R, Nat)
  BY NatLessThanWellFounded
<1>2. \A x, y \in Nat : y < x => <<y, x>> \in R
  BY DEF OpToRel
<1> HIDE DEF R
<1>3. PICK x \in S : \A y \in S : ~(<<y, x>> \in R)
  BY <1>1, WFMin
<1>4. ASSUME NEW y \in S PROVE x <= y
  <2>1. x \in Nat /\ y \in Nat /\ ~(y < x)
    BY <1>2, <1>3
  <2> QED
    BY <2>1
<1> QED BY <1>4

LEMMA MinIsSmallest == ASSUME NEW S \in SUBSET Nat, S # {}
  PROVE Min(S) \in S /\ \A y \in S : Min(S) <= y
BY Smallest DEF Min

LEMMA MinOfTwo == ASSUME NEW a \in Nat, NEW b \in Nat
  PROVE Min({a, b}) = IF a <= b THEN a ELSE b
<1>1. {a, b} \in SUBSET Nat /\ {a, b} # {}
 OBVIOUS
<1>2. Min({a,b}) \in {a,b} /\ \A y \in {a,b} : Min({a,b}) <= y
 BY <1>1, MinIsSmallest
<1> QED BY <1>2

LEMMA MaxOfTwo == ASSUME NEW a \in Nat, NEW b \in Nat
  PROVE Max({a, b}) = IF a >= b THEN a ELSE b
<1>1. \E x \in {a, b} : \A y \in {a, b} : x >= y
 BY a >= b \/ b >= a
<1>2. Max({a,b}) \in {a,b} /\ \A y \in {a,b} : Max({a,b}) >= y
 BY <1>1 DEF Max
<1> QED BY <1>2
-----------------------------------------------------------------------------
(* Types, in parts *)

ListTypes == listed \in scene.history .. Len(scene.payments) /\ cursor \in Token /\ base \in Nat
RecordType == [status : {"none", "pending", "delivered", "dead_letter"}, tries : Nat]
RecordTypes ==
  /\ record \in [Payment -> RecordType]
  /\ alerted \in BOOLEAN /\ told \in [Payment -> Nat]
SweepPlace == {"idle", "latest", "init", "fetch", "write", "check", "notify", "deliver",
          "defer", "advance", "load", "retry", "settle", "fail"}
Due == [k : Payment, tries : 0 .. (MaxAttempts - 1)]
SweepTypes ==
  /\ pc \in [Poller -> SweepPlace]
  /\ behind \in [Poller -> Token] /\ last \in [Poller -> Token] /\ at \in [Poller -> Token]
  /\ due \in [Poller -> SUBSET Due]
BoundTypes ==
  faults \in 0 .. scene.faults /\ failures \in 0 .. scene.failures /\ replays \in 0 .. scene.replays
Types == scene \in Scene /\ ListTypes /\ RecordTypes /\ SweepTypes /\ BoundTypes

LEMMA TypesAreTypeOK == TypeOK <=> Types
BY DEF TypeOK, Types, ListTypes, RecordTypes, RecordType, SweepTypes, SweepPlace, Due, BoundTypes

LEMMA SceneFacts ==
  ASSUME Types
  PROVE  /\ Len(scene.payments) \in Nat /\ Payment = 1 .. Len(scene.payments)
         /\ \A k \in Payment : scene.payments[k] \in Kind
         /\ listed \in 0 .. Len(scene.payments) /\ listed \in Nat
         /\ scene.faults \in Nat /\ scene.failures \in Nat /\ scene.replays \in Nat
         /\ scene.history \in Nat
<1>1. scene \in [payments : Seq(Kind), history : Nat, faults : Nat, failures : Nat, replays : Nat]
  BY Scenes DEF Types
<1>2. scene.payments \in Seq(Kind) /\ scene.history \in Nat
  BY <1>1
<1>3. Len(scene.payments) \in Nat /\ Payment = 1 .. Len(scene.payments)
  BY <1>2, LenProperties DEF Payment
<1>4. \A k \in Payment : scene.payments[k] \in Kind
  BY <1>2, <1>3, ElementOfSeq
<1>5. listed \in 0 .. Len(scene.payments)
  BY <1>2, <1>3 DEF Types, ListTypes
<1> QED
  BY <1>1, <1>3, <1>4, <1>5

\* A page ends at or behind the payment it begins after, within what is listed.
LEMMA PageEndFits ==
  ASSUME Types, NEW from \in 0 .. listed
  PROVE  PageEnd(from) \in from .. listed
<1>1. listed \in Nat /\ from + PageSize \in Nat /\ PageSize \in Nat
  BY SceneFacts, Bounds
<1>2. PageEnd(from) = IF from + PageSize <= listed THEN from + PageSize ELSE listed
  BY <1>1, MinOfTwo DEF PageEnd
<1> QED
  BY <1>1, <1>2

\* On to the next payment of the page, or to its end: either way all before it is
\* covered.
ToNext(p, k) ==
  \E n \in Payment :
    /\ pc' = [pc EXCEPT ![p] = "write"] /\ at' = [at EXCEPT ![p] = n]
    /\ k < n /\ n <= last'[p] /\ Inbound(n) /\ CoveredBy(n - 1, record', base')
ToEnd(p) ==
  /\ pc' = [pc EXCEPT ![p] = "advance"] /\ at' = [at EXCEPT ![p] = None]
  /\ CoveredBy(last'[p], record', base')

LEMMA NextOfCovers ==
  ASSUME Types, NEW p \in Poller, NEW k \in 0 .. listed, last'[p] \in k .. listed,
         NextOf(p, k), CoveredBy(k, record', base')
  PROVE  ToNext(p, k) \/ ToEnd(p)
<1>1. /\ listed \in 0 .. Len(scene.payments) /\ Payment = 1 .. Len(scene.payments)
      /\ Len(scene.payments) \in Nat
  BY SceneFacts
<1>2. Rest(p, k) \in SUBSET Nat /\ Rest(p, k) = {j \in (k + 1) .. last'[p] : Inbound(j)}
  BY <1>1 DEF Rest
<1>3. CASE Rest(p, k) = {}
  <2>1. CoveredBy(last'[p], record', base')
    BY <1>1, <1>2, <1>3 DEF CoveredBy
  <2> QED
    BY <1>3, <2>1 DEF NextOf, Goto, Keep, ToEnd
<1>4. CASE Rest(p, k) # {}
  <2> DEFINE n == Min(Rest(p, k))
  <2>1. n \in Rest(p, k) /\ \A j \in Rest(p, k) : n <= j
    BY <1>2, <1>4, MinIsSmallest
  <2>2. pc' = [pc EXCEPT ![p] = "write"] /\ at' = [at EXCEPT ![p] = n]
    BY <1>4 DEF NextOf, Goto, Keep
  <2> HIDE DEF n
  <2>3. n \in Payment /\ k < n /\ n <= last'[p] /\ Inbound(n)
    BY <1>1, <1>2, <2>1
  <2>4. CoveredBy(n - 1, record', base')
    BY <1>1, <1>2, <2>1, <2>3 DEF CoveredBy
  <2> QED
    BY <2>2, <2>3, <2>4 DEF ToNext
<1> QED
  BY <1>3, <1>4
-----------------------------------------------------------------------------
(* What no step undoes *)

\* Nothing is taken off Horizon's list, and no record is unmade.
Grows ==
  /\ UNCHANGED scene /\ listed <= listed' /\ base <= base'
  /\ \A k \in Payment : record[k] # NoRecord => record'[k] # NoRecord

LEMMA CoveredGrows ==
  ASSUME Types, Types', Grows, NEW x, CoveredBy(x, record, base)
  PROVE  CoveredBy(x, record', base')
BY SceneFacts DEF CoveredBy, Grows, Types, ListTypes

\* A record is written: it has a status.
Written(k) == \E r \in RecordType : r.status # "none" /\ record' = [record EXCEPT ![k] = r]

LEMMA RecordWritten ==
  ASSUME Types, NEW k \in Payment, Written(k)
  PROVE  /\ record' \in [Payment -> RecordType] /\ record'[k] # NoRecord
         /\ \A j \in Payment : record[j] # NoRecord => record'[j] # NoRecord
<1>1. PICK r \in RecordType : r.status # "none" /\ record' = [record EXCEPT ![k] = r]
  BY DEF Written
<1>2. r # NoRecord
  BY <1>1 DEF NoRecord
<1> QED
  BY <1>1, <1>2 DEF Types, RecordTypes

\* The records of the actions that write one.
LEMMA RecordsOfSteps ==
  ASSUME Types, PagesFit, NEW p \in Poller
  PROVE  /\ WriteRecord(p) => /\ at[p] \in Payment
                              /\ record[at[p]] = NoRecord => Written(at[p])
                              /\ record[at[p]] # NoRecord => UNCHANGED record
         /\ MarkDelivered(p) => at[p] \in Payment /\ Written(at[p])
         /\ DeferDelivery(p) => at[p] \in Payment /\ (UNCHANGED record \/ Written(at[p]))
         /\ \A d \in due[p] : WriteResult(p, d) => d.k \in Payment /\ Written(d.k)
<1>1. /\ pc[p] \in InHand => at[p] \in Payment
      /\ record \in [Payment -> RecordType] /\ due[p] \subseteq Due
  BY DEF PagesFit, PageFits, Types, RecordTypes, SweepTypes
<1>2. WriteRecord(p) => /\ at[p] \in Payment
                        /\ record[at[p]] = NoRecord => Written(at[p])
                        /\ record[at[p]] # NoRecord => UNCHANGED record
  <2>1. SUFFICES ASSUME WriteRecord(p)
                 PROVE  /\ at[p] \in Payment
                        /\ record[at[p]] = NoRecord => Written(at[p])
                        /\ record[at[p]] # NoRecord => UNCHANGED record
    OBVIOUS
  <2>2. at[p] \in Payment
    BY <1>1, <2>1 DEF WriteRecord, Walks, InHand
  <2>3. record[at[p]] = NoRecord => Written(at[p])
    <3>1. SUFFICES ASSUME record[at[p]] = NoRecord PROVE Written(at[p])
      OBVIOUS
    <3> DEFINE r == [record[at[p]] EXCEPT !.status = "pending"]
    <3>2. r \in RecordType /\ r.status # "none"
      BY <1>1, <2>2 DEF RecordType
    <3>3. record' = [record EXCEPT ![at[p]] = r]
      BY <2>1, <3>1 DEF WriteRecord, CursorWithRecord
    <3> HIDE DEF r
    <3> QED
      BY <3>2, <3>3 DEF Written
  <2> QED
    BY <2>1, <2>2, <2>3 DEF WriteRecord, CursorWithRecord
<1>3. MarkDelivered(p) => at[p] \in Payment /\ Written(at[p])
  <2>1. SUFFICES ASSUME MarkDelivered(p) PROVE at[p] \in Payment /\ Written(at[p])
    OBVIOUS
  <2>2. at[p] \in Payment
    BY <1>1, <2>1 DEF MarkDelivered, InHand
  <2> DEFINE r == [record[at[p]] EXCEPT !.status = "delivered"]
  <2>3. r \in RecordType /\ r.status # "none"
    BY <1>1, <2>2 DEF RecordType
  <2>4. record' = [record EXCEPT ![at[p]] = r]
    BY <2>1 DEF MarkDelivered
  <2> HIDE DEF r
  <2> QED
    BY <2>2, <2>3, <2>4 DEF Written
<1>4. DeferDelivery(p) => at[p] \in Payment /\ (UNCHANGED record \/ Written(at[p]))
  <2>1. SUFFICES ASSUME DeferDelivery(p)
                 PROVE  at[p] \in Payment /\ (UNCHANGED record \/ Written(at[p]))
    OBVIOUS
  <2>2. at[p] \in Payment
    BY <1>1, <2>1 DEF DeferDelivery, InHand
  <2>3. CASE record[at[p]].status = "pending"
    <3> DEFINE r == [record[at[p]] EXCEPT !.tries = @ + 1]
    <3>1. r \in RecordType /\ r.status # "none"
      BY <1>1, <2>2, <2>3 DEF RecordType
    <3>2. record' = [record EXCEPT ![at[p]] = r]
      BY <2>1, <2>3 DEF DeferDelivery
    <3> HIDE DEF r
    <3> QED
      BY <2>2, <3>1, <3>2 DEF Written
  <2> QED
    BY <2>1, <2>2, <2>3 DEF DeferDelivery
<1>5. \A d \in due[p] : WriteResult(p, d) => d.k \in Payment /\ Written(d.k)
  <2>1. SUFFICES ASSUME NEW d \in due[p], WriteResult(p, d) PROVE d.k \in Payment /\ Written(d.k)
    OBVIOUS
  <2>2. d.k \in Payment /\ d.tries \in Nat
    BY <1>1, Bounds DEF Due
  <2>3. PICK status \in {"delivered", "dead_letter", "pending"} :
          record' = [record EXCEPT ![d.k] = [status |-> status, tries |-> d.tries + 1]]
    <3>1. CASE pc[p] = "settle"
      BY <2>1, <3>1 DEF WriteResult
    <3>2. CASE pc[p] = "fail" /\ Exhausted(d.tries + 1)
      BY <2>1, <3>2 DEF WriteResult
    <3>3. CASE pc[p] = "fail" /\ ~Exhausted(d.tries + 1)
      BY <2>1, <3>3 DEF WriteResult
    <3> QED
      BY <2>1, <3>1, <3>2, <3>3 DEF WriteResult
  <2> DEFINE r == [status |-> status, tries |-> d.tries + 1]
  <2>4. r \in RecordType /\ r.status # "none"
    BY <2>2 DEF RecordType
  <2> HIDE DEF r
  <2> QED
    BY <2>2, <2>3, <2>4 DEF Written, r
<1> QED
  BY <1>2, <1>3, <1>4, <1>5

\* A sweep goes on: its variables keep their types.
SweepMoves(p) ==
  /\ \E to \in SweepPlace : pc' = [pc EXCEPT ![p] = to]
  /\ \E x \in Token : behind' = [behind EXCEPT ![p] = x]
  /\ \E x \in Token : last' = [last EXCEPT ![p] = x]
  /\ \E x \in Token : at' = [at EXCEPT ![p] = x]
  /\ \E x \in SUBSET Due : due' = [due EXCEPT ![p] = x]

\* Who does not move keeps them, too.
LEMMA Unmoved ==
  ASSUME Types, NEW p \in Poller
  PROVE  /\ UNCHANGED behind => \E x \in Token : behind' = [behind EXCEPT ![p] = x]
         /\ UNCHANGED last => \E x \in Token : last' = [last EXCEPT ![p] = x]
         /\ UNCHANGED at => \E x \in Token : at' = [at EXCEPT ![p] = x]
         /\ UNCHANGED due => \E x \in SUBSET Due : due' = [due EXCEPT ![p] = x]
<1>1. /\ behind = [behind EXCEPT ![p] = behind[p]] /\ behind[p] \in Token
      /\ last = [last EXCEPT ![p] = last[p]] /\ last[p] \in Token
      /\ at = [at EXCEPT ![p] = at[p]] /\ at[p] \in Token
      /\ due = [due EXCEPT ![p] = due[p]] /\ due[p] \in SUBSET Due
  BY DEF Types, SweepTypes
<1> QED
  BY <1>1

\* What the poll of a sweep may have in hand.
LEMMA InHandTyped ==
  ASSUME Types, PagesFit, NEW p \in Poller
  PROVE  /\ None \in Token /\ cursor \in Token /\ listed \in Token /\ last[p] \in Token
         /\ \A k \in Payment : k \in Token
         /\ pc[p] = "init" => last[p] \in Nat
         /\ pc[p] \in InHand \cup {"advance"} => last[p] \in 0 .. listed /\ last[p] \in Nat
         /\ pc[p] \in InHand => at[p] \in Payment /\ at[p] \in 0 .. listed /\ last[p] \in at[p] .. listed
         /\ pc[p] = "fetch" => behind[p] \in 0 .. listed
         /\ \A d \in due[p] : d.k \in Payment
<1>1. /\ listed \in Nat /\ listed <= Len(scene.payments) /\ Len(scene.payments) \in Nat
      /\ Payment = 1 .. Len(scene.payments)
  BY SceneFacts
<1>2. PageFits(p)
  BY DEF PagesFit
<1>3. \A d \in due[p] : d.k \in Payment
  BY DEF Types, SweepTypes, Due
<1> QED
  BY <1>1, <1>2, <1>3 DEF PageFits, Types, ListTypes, SweepTypes, Token, InHand

LEMMA NextOfMoves ==
  ASSUME Types, NEW p \in Poller, NEW k \in 0 .. listed, last'[p] \in k .. listed, NextOf(p, k)
  PROVE  /\ \E to \in SweepPlace : pc' = [pc EXCEPT ![p] = to]
         /\ \E x \in Token : at' = [at EXCEPT ![p] = x]
<1>1. listed \in Nat
  BY SceneFacts
<1>2. Rest(p, k) # {} => Min(Rest(p, k)) \in Nat
  <2>1. Rest(p, k) \in SUBSET Nat
    BY <1>1 DEF Rest
  <2> QED
    BY <2>1, MinIsSmallest
<1> QED
  BY <1>2 DEF NextOf, Goto, Keep, SweepPlace, Token

\* Every step of a sweep moves that sweep.
LEMMA SweepStepMoves ==
  ASSUME Types, PagesFit, NEW p \in Poller,
         \/ SweepStep(p) \/ CheckFails(p) \/ ResultUnwritten(p)
         \/ PollFails(p) \/ SweepStops(p) \/ StopsWhileTelling(p)
  PROVE  SweepMoves(p)
<1>0. /\ None \in Token /\ cursor \in Token /\ listed \in Token /\ last[p] \in Token
      /\ \A k \in Payment : k \in Token
      /\ {} \in SUBSET Due
      /\ due[p] \in SUBSET Due
      /\ \A d \in due[p] : d.k \in Payment
  BY InHandTyped DEF Types, SweepTypes
<1>1. CASE StartSweep(p)
  BY <1>0, <1>1, Unmoved DEF StartSweep, SweepMoves, Walks, Goto, Keep, SweepPlace
<1>2. CASE FetchLatest(p)
  <2>1. PageEnd(0) \in Token /\ 0 \in Token
    BY SceneFacts, PageEndFits DEF Token
  <2>2. \E x \in Token : last' = [last EXCEPT ![p] = x]
    BY <1>0, <1>2, <2>1 DEF FetchLatest, Keep
  <2>3. \E to \in SweepPlace : pc' = [pc EXCEPT ![p] = to]
    BY <1>2 DEF FetchLatest, Goto, SweepPlace
  <2> QED
    BY <1>2, <2>2, <2>3, Unmoved DEF FetchLatest, SweepMoves
<1>3. CASE InitCursor(p) \/ FinishSweep(p) \/ CheckFails(p) \/ ResultUnwritten(p) \/ WriteRecord(p)
  BY <1>3, Unmoved DEF InitCursor, FinishSweep, CheckFails, ResultUnwritten, WriteRecord, SweepMoves,
    Walks, Goto, SweepPlace
<1>4. CASE FetchPage(p)
  <2>1. behind[p] \in 0 .. listed /\ PageEnd(behind[p]) \in behind[p] .. listed
    BY <1>4, InHandTyped, PageEndFits DEF FetchPage
  <2>2. last' = [last EXCEPT ![p] = PageEnd(behind[p])] /\ last'[p] = PageEnd(behind[p])
    BY <1>4 DEF FetchPage, Keep, Types, SweepTypes
  <2>3. PageEnd(behind[p]) \in Token
    BY <2>1, SceneFacts DEF Token
  <2>4. /\ \E to \in SweepPlace : pc' = [pc EXCEPT ![p] = to]
        /\ \E x \in Token : at' = [at EXCEPT ![p] = x]
    <3>1. CASE last'[p] = behind[p]
      BY <1>4, <3>1, Unmoved DEF FetchPage, Goto, SweepPlace
    <3>2. CASE last'[p] # behind[p]
      BY <1>4, <2>1, <2>2, <3>2, NextOfMoves DEF FetchPage
    <3> QED
      BY <3>1, <3>2
  <2> QED
    BY <1>4, <2>2, <2>3, <2>4, Unmoved DEF FetchPage, SweepMoves
<1>5. ASSUME Onwards(p), pc[p] \in InHand, UNCHANGED <<behind, due>> PROVE SweepMoves(p)
  <2>1. at[p] \in 0 .. listed /\ last'[p] \in at[p] .. listed /\ NextOf(p, at[p]) /\ UNCHANGED last
    BY <1>5, InHandTyped DEF Onwards
  <2> QED
    BY <1>5, <2>1, NextOfMoves, Unmoved DEF SweepMoves
<1>6. CASE CheckDelivered(p)
  <2>1. CASE Onwards(p)
    BY <1>5, <1>6, <2>1 DEF CheckDelivered, InHand
  <2>2. CASE Goto(p, "notify") /\ UNCHANGED <<last, at>>
    BY <1>6, <2>2, Unmoved DEF CheckDelivered, Goto, SweepPlace, SweepMoves
  <2> QED
    BY <1>6, <2>1, <2>2 DEF CheckDelivered
<1>7. CASE NotifyOwner(p)
  BY <1>7, Unmoved DEF NotifyOwner, Notify, Goto, SweepPlace, SweepMoves
<1>8. CASE MarkDelivered(p) \/ DeferDelivery(p)
  BY <1>5, <1>8 DEF MarkDelivered, DeferDelivery, InHand
<1>9. CASE AdvanceCursor(p)
  BY <1>0, <1>9, Unmoved DEF AdvanceCursor, Walks, Goto, Keep, SweepPlace, SweepMoves
<1>10. CASE LoadPending(p)
  <2> DEFINE loaded == {[k |-> k, tries |-> record[k].tries] : k \in {j \in Payment : Retriable(record[j])}}
  <2>1. loaded \in SUBSET Due
    BY Bounds DEF Retriable, Due, Types, RecordTypes, RecordType
  <2>2. due' = [due EXCEPT ![p] = loaded]
    BY <1>10 DEF LoadPending, Keep
  <2> HIDE DEF loaded
  <2> QED
    BY <1>10, <2>1, <2>2, Unmoved DEF LoadPending, Walks, Goto, SweepPlace, SweepMoves
<1>11. ASSUME NEW d \in due[p], RetryNotify(p, d) PROVE SweepMoves(p)
  BY <1>0, <1>11, Unmoved DEF RetryNotify, Notify, Keep, Goto, SweepPlace, SweepMoves
<1>12. ASSUME NEW d \in due[p], WriteResult(p, d) PROVE SweepMoves(p)
  <2>1. due[p] \ {d} \in SUBSET Due
    BY <1>0
  <2> QED
    BY <1>0, <1>12, <2>1, Unmoved DEF WriteResult, Keep, Goto, SweepPlace, SweepMoves
<1>13. CASE PollFails(p) \/ SweepStops(p) \/ StopsWhileTelling(p)
  BY <1>0, <1>13, Unmoved DEF PollFails, SweepStops, StopsWhileTelling, Goto, Keep, SweepPlace, SweepMoves
<1> QED
  BY <1>1, <1>2, <1>3, <1>4, <1>6, <1>7, <1>8, <1>9, <1>10, <1>11, <1>12, <1>13 DEF SweepStep

\* Who is told, and that the row of the notification is claimed first.
Tells(k, durable) ==
  \/ UNCHANGED told /\ (alerted' = alerted \/ alerted' = TRUE)
  \/ Tell(k) /\ ~durable /\ alerted' = alerted
  \/ Tell(k) /\ durable /\ ~alerted /\ alerted' = TRUE

LEMMA NotifyTells ==
  ASSUME Types, NEW p, NEW k, NEW durable \in BOOLEAN, NEW done, NEW threw,
         Notify(p, k, durable, done, threw)
  PROVE  Tells(k, durable)
BY DEF Notify, Tells, Open, Types, RecordTypes

\* Each step that may tell the owner tells of a payment of the wallet, and of a
\* deposit only by the row.
LEMMA SweepTells ==
  ASSUME Types, PagesFit, NEW p \in Poller,
         \/ SweepStep(p) \/ CheckFails(p) \/ ResultUnwritten(p)
         \/ PollFails(p) \/ SweepStops(p) \/ StopsWhileTelling(p)
  PROVE  \/ UNCHANGED <<told, alerted>>
         \/ \E k \in Payment, durable \in BOOLEAN :
              Tells(k, durable) /\ (scene.payments[k] = "deposit" => durable)
<1>0. /\ pc[p] = "notify" => at[p] \in Payment
      /\ \A d \in due[p] : d.k \in Payment
  BY InHandTyped DEF InHand
<1>1. CASE NotifyOwner(p)
  <2>1. at[p] \in Payment /\ Notify(p, at[p], scene.payments[at[p]] = "deposit", "deliver", "defer")
    BY <1>0, <1>1 DEF NotifyOwner
  <2> DEFINE durable == scene.payments[at[p]] = "deposit"
  <2>2. durable \in BOOLEAN /\ Notify(p, at[p], durable, "deliver", "defer")
    BY <2>1
  <2>3. scene.payments[at[p]] = "deposit" => durable
    OBVIOUS
  <2> HIDE DEF durable
  <2>4. Tells(at[p], durable)
    BY <2>2, NotifyTells
  <2> QED
    BY <2>1, <2>2, <2>3, <2>4
<1>2. ASSUME NEW d \in due[p], RetryNotify(p, d)
      PROVE  \E k \in Payment, durable \in BOOLEAN :
               Tells(k, durable) /\ (scene.payments[k] = "deposit" => durable)
  <2>1. Tells(d.k, TRUE)
    BY <1>2, NotifyTells DEF RetryNotify
  <2> QED
    BY <1>0, <2>1
<1>3. CASE StopsWhileTelling(p)
  <2>1. PICK k \in Payment : ~alerted /\ alerted' = TRUE /\ (Tell(k) \/ UNCHANGED told)
    BY <1>0, <1>3 DEF StopsWhileTelling, Open
  <2>2. Tells(k, TRUE)
    BY <2>1 DEF Tells
  <2> QED
    BY <2>2
<1> QED
  BY <1>1, <1>2, <1>3 DEF SweepStep, StartSweep, FetchLatest, InitCursor, FetchPage, WriteRecord,
    CheckDelivered, MarkDelivered, DeferDelivery, AdvanceCursor, LoadPending, FinishSweep, WriteResult,
    CheckFails, ResultUnwritten, PollFails, SweepStops

\* The records of a sweep's step.
LEMMA SweepWrites ==
  ASSUME Types, PagesFit, NEW p \in Poller,
         \/ SweepStep(p) \/ CheckFails(p) \/ ResultUnwritten(p)
         \/ PollFails(p) \/ SweepStops(p) \/ StopsWhileTelling(p)
  PROVE  UNCHANGED record \/ \E k \in Payment : Written(k)
BY RecordsOfSteps DEF SweepStep, StartSweep, FetchLatest, InitCursor, FetchPage, WriteRecord,
  CheckDelivered, NotifyOwner, RetryNotify, MarkDelivered, DeferDelivery, AdvanceCursor, LoadPending,
  FinishSweep, WriteResult, CheckFails, ResultUnwritten, PollFails, SweepStops, StopsWhileTelling

\* What is left alone keeps its type.
LEMMA KeptTypes ==
  ASSUME Types, UNCHANGED scene
  PROVE  /\ Payment' = Payment
         /\ UNCHANGED <<listed, cursor, base>> => ListTypes'
         /\ UNCHANGED <<record, alerted, told>> => RecordTypes'
         /\ UNCHANGED <<pc, behind, last, at, due>> => SweepTypes'
         /\ UNCHANGED <<faults, failures, replays>> => BoundTypes'
<1>1. Payment' = Payment
  BY DEF Payment
<1>2. UNCHANGED <<listed, cursor, base>> => ListTypes'
  BY DEF Types, ListTypes, Token
<1>3. UNCHANGED <<record, alerted, told>> => RecordTypes'
  BY <1>1 DEF Types, RecordTypes, RecordType
<1>4. UNCHANGED <<pc, behind, last, at, due>> => SweepTypes'
  BY <1>1 DEF Types, SweepTypes, Token, Due
<1>5. UNCHANGED <<faults, failures, replays>> => BoundTypes'
  BY DEF Types, BoundTypes
<1> QED
  BY <1>1, <1>2, <1>3, <1>4, <1>5

\* Every step keeps the types and undoes nothing.
LEMMA TypesStep ==
  ASSUME Types, PagesFit, [Next]_vars
  PROVE  Types' /\ Grows
<1>0. /\ listed \in Nat /\ listed <= Len(scene.payments) /\ Len(scene.payments) \in Nat
      /\ Payment = 1 .. Len(scene.payments) /\ scene.history \in Nat /\ base \in Nat
      /\ scene.faults \in Nat /\ scene.failures \in Nat /\ scene.replays \in Nat
      /\ Fault => faults' \in 0 .. scene.faults
  BY SceneFacts DEF Types, ListTypes, BoundTypes, Fault
<1>1. ASSUME UNCHANGED record \/ \E k \in Payment : Written(k)
      PROVE  /\ record' \in [Payment -> RecordType]
             /\ \A j \in Payment : record[j] # NoRecord => record'[j] # NoRecord
  BY <1>1, RecordWritten DEF Types, RecordTypes
<1>2. CASE ListPayment
  <2>1. ListTypes' /\ listed <= listed'
    BY <1>0, <1>2 DEF ListPayment, Types, ListTypes, Token
  <2> QED
    BY <1>0, <1>2, <2>1, KeptTypes DEF ListPayment, sweep, bounds, Types, Grows
<1>3. ASSUME NEW p \in Poller,
             \/ SweepStep(p) \/ CheckFails(p) \/ ResultUnwritten(p)
             \/ PollFails(p) \/ SweepStops(p) \/ StopsWhileTelling(p)
      PROVE  Types' /\ Grows
  <2>1. UNCHANGED <<scene, listed>>
    BY <1>3 DEF SweepStep, StartSweep, FetchLatest, InitCursor, FetchPage, WriteRecord, CheckDelivered,
      NotifyOwner, RetryNotify, MarkDelivered, DeferDelivery, AdvanceCursor, LoadPending, FinishSweep,
      WriteResult, CheckFails, ResultUnwritten, PollFails, SweepStops, StopsWhileTelling
  <2>2. cursor' \in Token /\ base' \in Nat /\ base <= base'
    <3>1. CASE InitCursor(p)
      <4>1. last[p] \in Nat /\ cursor' = last[p] /\ base' = Max({base, last[p]})
        BY <3>1, InHandTyped DEF InitCursor, Walks
      <4> QED
        BY <1>0, <4>1, MaxOfTwo DEF Token
    <3>2. CASE WriteRecord(p) \/ AdvanceCursor(p)
      <4>1. cursor' \in Nat /\ UNCHANGED base
        BY <1>0, <3>2, InHandTyped DEF WriteRecord, CursorWithRecord, AdvanceCursor, Walks, InHand
      <4> QED
        BY <1>0, <4>1 DEF Token
    <3>3. InitCursor(p) \/ WriteRecord(p) \/ AdvanceCursor(p) \/ UNCHANGED <<cursor, base>>
      BY <1>3 DEF SweepStep, StartSweep, FetchLatest, FetchPage, CheckDelivered,
        NotifyOwner, RetryNotify, MarkDelivered, DeferDelivery, LoadPending, FinishSweep,
        WriteResult, CheckFails, ResultUnwritten, PollFails, SweepStops, StopsWhileTelling
    <3> QED
      BY <1>0, <3>1, <3>2, <3>3 DEF Types, ListTypes
  <2>3. ListTypes' /\ Payment' = Payment
    BY <2>1, <2>2 DEF Types, ListTypes, Token, Payment
  <2>4. UNCHANGED record \/ \E k \in Payment : Written(k)
    BY <1>3, SweepWrites
  <2>5. told' \in [Payment -> Nat] /\ alerted' \in BOOLEAN
    <3>1. \/ UNCHANGED <<told, alerted>>
          \/ \E k \in Payment, durable \in BOOLEAN : Tells(k, durable)
      BY <1>3, SweepTells
    <3>2. told' = told \/ \E k \in Payment : told' = [told EXCEPT ![k] = @ + 1]
      BY <3>1 DEF Tells, Tell
    <3>3. alerted' = alerted \/ alerted' = TRUE
      BY <3>1 DEF Tells
    <3>4. alerted' \in BOOLEAN
      BY <3>3 DEF Types, RecordTypes
    <3> QED
      BY <3>2, <3>4 DEF Types, RecordTypes
  <2>6. SweepTypes'
    <3>1. SweepMoves(p)
      BY <1>3, SweepStepMoves
    <3>2. Due' = Due
      BY <2>3 DEF Due
    <3>3. pc' \in [Poller -> SweepPlace] /\ due' \in [Poller -> SUBSET Due]
      BY <3>1 DEF SweepMoves, Types, SweepTypes
    <3>4. behind' \in [Poller -> Token] /\ last' \in [Poller -> Token] /\ at' \in [Poller -> Token]
      BY <3>1 DEF SweepMoves, Types, SweepTypes
    <3> QED
      BY <3>2, <3>3, <3>4 DEF SweepTypes
  <2>7. BoundTypes'
    <3>1. /\ UNCHANGED replays
          /\ UNCHANGED faults \/ Fault
          /\ UNCHANGED failures \/ (failures < scene.failures /\ failures' = failures + 1)
      BY <1>3 DEF SweepStep, StartSweep, FetchLatest, InitCursor, FetchPage, WriteRecord,
        CheckDelivered, NotifyOwner, RetryNotify, Notify, MarkDelivered, DeferDelivery, AdvanceCursor,
        LoadPending, FinishSweep, WriteResult, CheckFails, ResultUnwritten, PollFails, SweepStops,
        StopsWhileTelling, bounds
    <3> QED
      BY <1>0, <2>1, <3>1 DEF Types, BoundTypes
  <2>8. RecordTypes'
    BY <1>1, <2>3, <2>4, <2>5 DEF RecordTypes, RecordType
  <2> QED
    BY <1>0, <1>1, <2>1, <2>2, <2>3, <2>4, <2>6, <2>7, <2>8 DEF Types, Grows
<1>4. ASSUME NEW k \in Payment, ReplayRecord(k) PROVE Types' /\ Grows
  <2>1. Written(k)
    <3> DEFINE r == [status |-> "pending", tries |-> 0]
    <3>1. r \in RecordType /\ r.status # "none" /\ record' = [record EXCEPT ![k] = r]
      BY <1>4 DEF ReplayRecord, RecordType
    <3> HIDE DEF r
    <3> QED
      BY <3>1 DEF Written
  <2>2. /\ UNCHANGED <<scene, listed, cursor, base, alerted, told, pc, behind, last, at, due>>
        /\ UNCHANGED <<faults, failures>> /\ replays' \in 0 .. scene.replays
    BY <1>0, <1>4 DEF ReplayRecord, sweep, Types, BoundTypes
  <2>3. BoundTypes'
    BY <2>2 DEF Types, BoundTypes
  <2>4. RecordTypes'
    BY <1>1, <2>1, <2>2, KeptTypes DEF Types, RecordTypes, RecordType
  <2> QED
    BY <1>0, <1>1, <2>1, <2>2, <2>3, <2>4, KeptTypes DEF Types, Grows
<1>5. CASE UNCHANGED vars
  BY <1>0, <1>5, KeptTypes DEF vars, sweep, bounds, Types, Grows
<1> QED
  BY <1>2, <1>3, <1>4, <1>5 DEF Next
-----------------------------------------------------------------------------
(* The pages *)

\* A page is consistent and covered: what a step of a sweep is to show of it.
PageNext(p) ==
  /\ pc'[p] = "init" => last'[p] \in 1 .. listed'
  /\ pc'[p] = "fetch" => behind'[p] \in 0 .. listed' /\ CoveredBy(behind'[p], record', base')
  /\ pc'[p] \in InHand \cup {"advance"} => behind'[p] \in 0 .. last'[p] /\ last'[p] \in 0 .. listed'
  /\ pc'[p] \in InHand => at'[p] \in Payment /\ Inbound(at'[p]) /\ at'[p] <= last'[p]
  /\ pc'[p] \in {"settle", "fail"} => at'[p] \in Payment
  /\ pc'[p] = "write" => CoveredBy(at'[p] - 1, record', base')
  /\ pc'[p] \in InHand \ {"write"} => CoveredBy(at'[p], record', base')
  /\ pc'[p] = "advance" => CoveredBy(last'[p], record', base')

LEMMA PageFollows ==
  ASSUME UNCHANGED scene, NEW p \in Poller, PageNext(p)
  PROVE  PageFits(p)' /\ PageCovered(p)'
<1>1. Payment' = Payment /\ \A k : Inbound(k)' <=> Inbound(k)
  BY DEF Payment, Inbound
<1>2. \A x : CoveredBy(x, record', base') => Covered(x)'
  BY <1>1 DEF CoveredBy, Covered, NoRecord
<1> QED
  BY <1>1, <1>2 DEF PageNext, PageFits, PageCovered, InHand, Covered, CoveredBy

\* A sweep that waits keeps its page.
LEMMA PageWaits ==
  ASSUME Types, Types', Grows, NEW p \in Poller, PageFits(p), PageCovered(p),
         pc'[p] = pc[p], behind'[p] = behind[p], last'[p] = last[p], at'[p] = at[p]
  PROVE  PageNext(p)
<1>1. listed \in Nat /\ listed' \in Nat /\ listed <= listed'
  BY SceneFacts, Scenes DEF Grows, Types, ListTypes
<1>2. \A x : CoveredBy(x, record, base) => CoveredBy(x, record', base')
  BY CoveredGrows
<1> QED
  BY <1>1, <1>2 DEF PageNext, PageFits, PageCovered, InHand, Covered

\* So does one that goes on with the payment in hand.
LEMMA PageSame ==
  ASSUME Types, Types', Grows, NEW p \in Poller, PageFits(p), PageCovered(p),
         pc[p] \in InHand \ {"write"}, pc'[p] \in InHand \ {"write"},
         behind'[p] = behind[p], last'[p] = last[p], at'[p] = at[p]
  PROVE  PageNext(p)
<1>1. listed \in Nat /\ listed' \in Nat /\ listed <= listed'
  BY SceneFacts, Scenes DEF Grows, Types, ListTypes
<1>2. CoveredBy(at[p], record', base')
  BY CoveredGrows DEF PageCovered, Covered
<1> QED
  BY <1>1, <1>2 DEF PageNext, PageFits, InHand

\* One that has no page needs none.
LEMMA NoPage ==
  ASSUME NEW p \in Poller, pc'[p] \in {"idle", "latest", "load", "retry"}
  PROVE  PageNext(p)
BY DEF PageNext, InHand

\* On to the next payment, or to the end of the page.
LEMMA PageGoesOn ==
  ASSUME Types, Types', Grows, NEW p \in Poller, NEW k \in 0 .. listed,
         ToNext(p, k) \/ ToEnd(p),
         behind'[p] \in 0 .. last'[p], last'[p] \in k .. listed
  PROVE  PageNext(p)
<1>1. listed \in Nat /\ listed' \in Nat /\ listed <= listed'
  BY SceneFacts, Scenes DEF Grows, Types, ListTypes
<1>2. behind'[p] \in 0 .. last'[p] /\ last'[p] \in 0 .. listed'
  BY <1>1
<1>3. CASE ToEnd(p)
  <2>1. pc'[p] = "advance" /\ CoveredBy(last'[p], record', base')
    BY <1>3 DEF ToEnd, Types, SweepTypes
  <2> QED
    BY <1>2, <2>1 DEF PageNext, InHand
<1>4. CASE ToNext(p, k)
  <2>1. PICK n \in Payment :
          /\ pc'[p] = "write" /\ at'[p] = n
          /\ n <= last'[p] /\ Inbound(n) /\ CoveredBy(n - 1, record', base')
    BY <1>4 DEF ToNext, Types, SweepTypes
  <2> QED
    BY <1>2, <2>1 DEF PageNext, InHand
<1> QED
  BY <1>3, <1>4

\* Every step of a sweep leaves it with a page that is covered, and the cursor on
\* what is covered.
CursorNext == cursor' # None => cursor' \in 0 .. listed' /\ CoveredBy(cursor', record', base')

LEMMA CursorWaits ==
  ASSUME Types, Types', Grows, PagesFit, PagesCovered, UNCHANGED cursor
  PROVE  CursorNext
<1>1. listed \in Nat /\ listed' \in Nat /\ listed <= listed'
  BY SceneFacts, Scenes DEF Grows, Types, ListTypes
<1>2. \A x : CoveredBy(x, record, base) => CoveredBy(x, record', base')
  BY CoveredGrows
<1> QED
  BY <1>1, <1>2 DEF CursorNext, PagesFit, PagesCovered, Covered

LEMMA SweepPages ==
  ASSUME Types, Types', Grows, PagesFit, PagesCovered, NEW p \in Poller,
         \/ SweepStep(p) \/ CheckFails(p) \/ ResultUnwritten(p)
         \/ PollFails(p) \/ SweepStops(p) \/ StopsWhileTelling(p)
  PROVE  PageNext(p) /\ CursorNext
<1>0. /\ pc[p] \in SweepPlace /\ PageFits(p) /\ PageCovered(p)
      /\ pc \in [Poller -> SweepPlace] /\ behind \in [Poller -> Token] /\ last \in [Poller -> Token]
      /\ at \in [Poller -> Token]
      /\ listed \in Nat /\ listed' \in Nat /\ listed <= listed'
      /\ Payment = 1 .. Len(scene.payments) /\ listed <= Len(scene.payments)
      /\ Len(scene.payments) \in Nat /\ base \in Nat /\ base' \in Nat /\ base <= base'
  BY SceneFacts, Scenes DEF Grows, Types, ListTypes, SweepTypes, PagesFit, PagesCovered
<1>g. \A x : CoveredBy(x, record, base) => CoveredBy(x, record', base')
  BY CoveredGrows
<1>c. UNCHANGED cursor => CursorNext
  BY CursorWaits
<1>1. CASE StartSweep(p)
  <2>1. CASE cursor = None
    BY <1>0, <1>1, <1>c, <2>1, NoPage DEF StartSweep, Walks, Goto
  <2>2. CASE cursor # None
    <3>1. pc'[p] = "fetch" /\ behind'[p] = cursor /\ UNCHANGED cursor
      BY <1>0, <1>1, <2>2 DEF StartSweep, Walks, Goto, Keep
    <3>2. cursor \in 0 .. listed' /\ CoveredBy(cursor, record', base')
      BY <1>0, <1>g, <2>2 DEF PagesFit, PagesCovered, Covered
    <3> QED
      BY <1>c, <3>1, <3>2 DEF PageNext, InHand
  <2> QED
    BY <2>1, <2>2
<1>2. CASE FetchLatest(p)
  <2>1. last'[p] \in 0 .. listed /\ UNCHANGED <<listed, cursor>>
    <3>1. PageEnd(0) \in 0 .. listed
      BY <1>0, PageEndFits
    <3> QED
      BY <1>0, <1>2, <3>1 DEF FetchLatest, Keep
  <2>2. pc'[p] = IF last'[p] = 0 THEN "load" ELSE "init"
    BY <1>0, <1>2 DEF FetchLatest, Goto
  <2> QED
    BY <1>0, <1>c, <2>1, <2>2 DEF PageNext, InHand
<1>3. CASE InitCursor(p)
  <2>1. /\ pc'[p] = "load" /\ cursor' = last[p] /\ last[p] \in 1 .. listed
        /\ base' = Max({base, last[p]})
    BY <1>0, <1>3 DEF InitCursor, Walks, Goto, PageFits
  <2>2. last[p] <= base'
    BY <1>0, <2>1, MaxOfTwo
  <2>3. CoveredBy(last[p], record', base')
    BY <1>0, <2>1, <2>2 DEF CoveredBy
  <2> QED
    BY <1>0, <2>1, <2>3, NoPage DEF CursorNext
<1>4. CASE FetchPage(p)
  <2>1. /\ behind[p] \in 0 .. listed /\ CoveredBy(behind[p], record', base')
        /\ UNCHANGED cursor /\ behind'[p] = behind[p]
    BY <1>0, <1>4, <1>g DEF FetchPage, PageFits, PageCovered, Covered
  <2>2. last'[p] \in behind[p] .. listed
    BY <1>0, <1>4, <2>1, PageEndFits DEF FetchPage, Keep
  <2>3. CASE last'[p] = behind[p]
    BY <1>0, <1>4, <1>c, <2>1, <2>3, NoPage DEF FetchPage, Goto
  <2>4. CASE last'[p] # behind[p]
    <3>1. NextOf(p, behind[p])
      BY <1>4, <2>4 DEF FetchPage
    <3>2. ToNext(p, behind[p]) \/ ToEnd(p)
      BY <2>1, <2>2, <3>1, NextOfCovers
    <3>3. behind'[p] \in 0 .. last'[p]
      BY <1>0, <2>1, <2>2
    <3>4. PageNext(p)
      BY <2>1, <2>2, <3>2, <3>3, PageGoesOn
    <3> QED
      BY <1>c, <2>1, <3>4
  <2> QED
    BY <2>3, <2>4
<1>5. CASE WriteRecord(p)
  <2>1. /\ pc[p] = "write" /\ pc'[p] = "check" /\ UNCHANGED <<behind, last, at>> /\ cursor' = at[p]
    BY <1>0, <1>5 DEF WriteRecord, CursorWithRecord, Walks, Goto
  <2>2. /\ at[p] \in Payment /\ Inbound(at[p]) /\ at[p] <= last[p] /\ last[p] \in 0 .. listed
        /\ behind[p] \in 0 .. last[p] /\ CoveredBy(at[p] - 1, record', base')
    BY <1>0, <1>g, <2>1 DEF PageFits, PageCovered, Covered, InHand
  <2>3. record'[at[p]] # NoRecord
    <3>1. /\ record[at[p]] = NoRecord => Written(at[p])
          /\ record[at[p]] # NoRecord => UNCHANGED record
      BY <1>5, RecordsOfSteps
    <3> QED
      BY <2>2, <3>1, RecordWritten
  <2>4. CoveredBy(at[p], record', base')
    BY <1>0, <2>2, <2>3 DEF CoveredBy
  <2>5. PageNext(p)
    BY <1>0, <2>1, <2>2, <2>4 DEF PageNext, InHand
  <2>6. CursorNext
    BY <1>0, <2>1, <2>2, <2>4 DEF CursorNext
  <2> QED
    BY <2>5, <2>6
<1>6. ASSUME Onwards(p), pc[p] \in InHand \ {"write"}, UNCHANGED behind PROVE PageNext(p)
  <2>1. /\ at[p] \in 0 .. listed /\ last'[p] \in at[p] .. listed /\ NextOf(p, at[p])
        /\ CoveredBy(at[p], record', base')
    BY <1>0, <1>6, <1>g DEF Onwards, PageFits, PageCovered, Covered, InHand
  <2>2. ToNext(p, at[p]) \/ ToEnd(p)
    BY <2>1, NextOfCovers
  <2>3. behind'[p] \in 0 .. last'[p]
    BY <1>0, <1>6 DEF Onwards, PageFits, InHand
  <2> QED
    BY <2>1, <2>2, <2>3, PageGoesOn
<1>7. CASE CheckDelivered(p)
  <2>1. UNCHANGED <<cursor, behind>> /\ pc[p] = "check"
    BY <1>7 DEF CheckDelivered
  <2>2. CASE Onwards(p)
    BY <1>6, <1>c, <2>1, <2>2 DEF InHand
  <2>3. CASE Goto(p, "notify") /\ UNCHANGED <<last, at>>
    BY <1>0, <1>c, <2>1, <2>3, PageSame DEF Goto, InHand
  <2> QED
    BY <1>7, <2>2, <2>3 DEF CheckDelivered
<1>8. CASE NotifyOwner(p) \/ CheckFails(p)
  <2>1. /\ UNCHANGED <<cursor, behind, last, at>> /\ pc[p] \in {"check", "notify"}
        /\ pc'[p] \in {"notify", "deliver", "defer"}
    BY <1>0, <1>8 DEF NotifyOwner, Notify, CheckFails, Walks, Goto
  <2> QED
    BY <1>0, <1>c, <2>1, PageSame DEF InHand
<1>9. CASE MarkDelivered(p) \/ DeferDelivery(p)
  BY <1>6, <1>9, <1>c DEF MarkDelivered, DeferDelivery, InHand
<1>10. CASE AdvanceCursor(p)
  <2>1. /\ pc[p] = "advance" /\ pc'[p] \in {"load", "fetch"} /\ behind'[p] = last[p]
        /\ cursor' = last[p]
    BY <1>0, <1>10 DEF AdvanceCursor, Walks, Goto, Keep
  <2>2. last[p] \in 0 .. listed' /\ CoveredBy(last[p], record', base')
    BY <1>0, <1>g, <2>1 DEF PageFits, PageCovered, Covered
  <2> QED
    BY <2>1, <2>2 DEF PageNext, CursorNext, InHand
<1>11. CASE LoadPending(p) \/ FinishSweep(p) \/ PollFails(p) \/ SweepStops(p) \/ StopsWhileTelling(p)
  <2>1. pc'[p] \in {"retry", "idle", "load"} /\ UNCHANGED cursor
    BY <1>0, <1>11 DEF LoadPending, FinishSweep, PollFails, SweepStops, StopsWhileTelling, Walks, Goto
  <2> QED
    BY <1>c, <2>1, NoPage
<1>12. ASSUME NEW d \in due[p], RetryNotify(p, d) PROVE PageNext(p) /\ CursorNext
  <2>1. /\ pc'[p] \in {"settle", "fail"} /\ at'[p] = d.k /\ UNCHANGED cursor
        /\ d.k \in Payment
    BY <1>0, <1>12, InHandTyped DEF RetryNotify, Notify, Goto, Keep
  <2> QED
    BY <1>c, <2>1 DEF PageNext, InHand
<1>13. ASSUME NEW d \in due[p], WriteResult(p, d) PROVE PageNext(p) /\ CursorNext
  <2>1. pc'[p] = "retry" /\ UNCHANGED cursor
    BY <1>0, <1>13 DEF WriteResult, Goto
  <2> QED
    BY <1>c, <2>1, NoPage
<1>14. CASE ResultUnwritten(p)
  <2>1. UNCHANGED <<cursor, behind, last, at>>
    BY <1>14 DEF ResultUnwritten
  <2>2. CASE Walks(p, "deliver", "defer")
    BY <1>0, <1>c, <2>1, <2>2, PageSame DEF Walks, Goto, InHand
  <2>3. CASE Walks(p, "settle", "fail")
    <3>1. pc'[p] = "fail" /\ at'[p] \in Payment
      BY <1>0, <2>1, <2>3 DEF Walks, Goto, PageFits
    <3> QED
      BY <1>c, <2>1, <3>1 DEF PageNext, InHand
  <2> QED
    BY <1>14, <2>2, <2>3 DEF ResultUnwritten
<1> QED
  BY <1>1, <1>2, <1>3, <1>4, <1>5, <1>7, <1>8, <1>9, <1>10, <1>11, <1>12, <1>13, <1>14 DEF SweepStep

\* Every step keeps the pages and the cursor covered.
LEMMA PagesStep ==
  ASSUME Types, Types', Grows, PagesFit, PagesCovered, [Next]_vars
  PROVE  PagesFit' /\ PagesCovered'
<1>1. CursorNext /\ \A p \in Poller : PageNext(p)
  <2>1. ASSUME UNCHANGED <<cursor, pc, behind, last, at>>
        PROVE  CursorNext /\ \A p \in Poller : PageNext(p)
    BY <2>1, CursorWaits, PageWaits DEF PagesFit, PagesCovered
  <2>2. CASE ListPayment \/ UNCHANGED vars \/ \E k \in Payment : ReplayRecord(k)
    BY <2>1, <2>2 DEF ListPayment, vars, ReplayRecord, sweep
  <2>3. ASSUME NEW p \in Poller,
               \/ SweepStep(p) \/ CheckFails(p) \/ ResultUnwritten(p)
               \/ PollFails(p) \/ SweepStops(p) \/ StopsWhileTelling(p)
        PROVE  CursorNext /\ \A q \in Poller : PageNext(q)
    <3>1. PageNext(p) /\ CursorNext /\ SweepMoves(p)
      BY <2>3, SweepPages, SweepStepMoves
    <3>2. ASSUME NEW q \in Poller, q # p PROVE PageNext(q)
      <4>1. pc'[q] = pc[q] /\ behind'[q] = behind[q] /\ last'[q] = last[q] /\ at'[q] = at[q]
        BY <3>1, <3>2 DEF SweepMoves, Types, SweepTypes
      <4> QED
        BY <4>1, PageWaits DEF PagesFit, PagesCovered
    <3> QED
      BY <3>1, <3>2
  <2> QED
    BY <2>2, <2>3 DEF Next
<1>2. UNCHANGED scene
  BY DEF Grows
<1>3. \A p \in Poller : PageFits(p)' /\ PageCovered(p)'
  BY <1>1, <1>2, PageFollows
<1>4. cursor' # None => cursor' \in 0 .. listed' /\ Covered(cursor)'
  BY <1>1, <1>2 DEF CursorNext, Covered, CoveredBy, Payment, Inbound, NoRecord
<1> QED
  BY <1>3, <1>4 DEF PagesFit, PagesCovered

\* Every step tells of a deposit only by its row, and once.
LEMMA ToldStep ==
  ASSUME Types, PagesFit, ToldByTheRow, DepositToldOnce, [Next]_vars
  PROVE  ToldByTheRow' /\ DepositToldOnce'
<1>1. \/ UNCHANGED <<told, alerted>>
      \/ \E k \in Payment, durable \in BOOLEAN :
           Tells(k, durable) /\ (scene.payments[k] = "deposit" => durable)
  BY SweepTells DEF Next, ListPayment, ReplayRecord, vars
<1>2. scene' = scene /\ Payment' = Payment
  BY DEF Next, ListPayment, ReplayRecord, vars, Payment, SweepStep, StartSweep, FetchLatest, InitCursor,
    FetchPage, WriteRecord, CheckDelivered, NotifyOwner, RetryNotify, MarkDelivered, DeferDelivery,
    AdvanceCursor, LoadPending, FinishSweep, WriteResult, CheckFails, ResultUnwritten, PollFails,
    SweepStops, StopsWhileTelling
<1>3. told \in [Payment -> Nat]
  BY DEF Types, RecordTypes
<1>4. CASE UNCHANGED <<told, alerted>>
  BY <1>2, <1>4 DEF ToldByTheRow, DepositToldOnce
<1>5. ASSUME NEW k \in Payment, NEW durable \in BOOLEAN, Tells(k, durable),
             scene.payments[k] = "deposit" => durable
      PROVE  ToldByTheRow' /\ DepositToldOnce'
  <2>1. CASE UNCHANGED told /\ (alerted' = alerted \/ alerted' = TRUE)
    BY <1>2, <2>1 DEF ToldByTheRow, DepositToldOnce
  <2>2. CASE Tell(k) /\ ~durable /\ alerted' = alerted
    <3>1. \A j \in Payment : scene.payments[j] = "deposit" => told'[j] = told[j]
      BY <1>3, <1>5, <2>2 DEF Tell
    <3> QED
      BY <1>2, <2>2, <3>1 DEF ToldByTheRow, DepositToldOnce
  <2>3. CASE Tell(k) /\ durable /\ ~alerted /\ alerted' = TRUE
    <3>1. \A j \in Payment : scene.payments[j] = "deposit" => told[j] = 0
      BY <2>3 DEF ToldByTheRow
    <3>2. \A j \in Payment : scene.payments[j] = "deposit" => told'[j] <= 1
      BY <1>3, <2>3, <3>1 DEF Tell
    <3> QED
      BY <1>2, <2>3, <3>2 DEF ToldByTheRow, DepositToldOnce
  <2> QED
    BY <1>5, <2>1, <2>2, <2>3 DEF Tells
<1> QED
  BY <1>1, <1>4, <1>5
-----------------------------------------------------------------------------
(* The invariant, and what follows from it *)

LEMMA InvInit == Init => DepositsInv
<1> SUFFICES ASSUME Init PROVE DepositsInv
  OBVIOUS
<1>1. /\ scene \in [payments : Seq(Kind), history : Nat, faults : Nat, failures : Nat, replays : Nat]
      /\ scene.history <= Len(scene.payments)
  BY Scenes DEF Init
<1>2. scene.payments \in Seq(Kind) /\ scene.history \in Nat
  BY <1>1
<1>3. Len(scene.payments) \in Nat
  BY <1>2, LenProperties
<1>4. ListTypes
  BY <1>1, <1>2, <1>3 DEF Init, ListTypes, Token
<1>5. RecordTypes
  BY DEF Init, RecordTypes, RecordType, NoRecord
<1>6. SweepTypes
  BY DEF Init, SweepTypes, SweepPlace, Token
<1>7. BoundTypes
  BY <1>1 DEF Init, BoundTypes
<1>8. PagesFit /\ PagesCovered /\ ToldByTheRow /\ DepositToldOnce
  BY DEF Init, PagesFit, PageFits, PagesCovered, PageCovered, InHand, ToldByTheRow, DepositToldOnce
<1> QED
  BY <1>4, <1>5, <1>6, <1>7, <1>8, TypesAreTypeOK DEF DepositsInv, Init, Types

LEMMA InvStep == DepositsInv /\ [Next]_vars => DepositsInv'
<1> SUFFICES ASSUME DepositsInv, [Next]_vars PROVE DepositsInv'
  OBVIOUS
<1>1. Types /\ PagesFit /\ PagesCovered /\ ToldByTheRow /\ DepositToldOnce
  BY TypesAreTypeOK DEF DepositsInv
<1>2. Types' /\ Grows
  BY <1>1, TypesStep
<1>3. PagesFit' /\ PagesCovered'
  BY <1>1, <1>2, PagesStep
<1>4. ToldByTheRow' /\ DepositToldOnce'
  BY <1>1, ToldStep
<1>5. TypeOK'
  BY <1>2, TypesAreTypeOK, PTL
<1> QED
  BY <1>3, <1>4, <1>5 DEF DepositsInv

\* The inductive invariant, on which the rest relies.
THEOREM DepositsInvariance == Spec => []DepositsInv
BY InvInit, InvStep, PTL DEF Spec

\* Every variable keeps its type; cursors and payments in hand are Horizon's.
THEOREM DepositsTypeCorrect == Spec => []TypeOK
<1>1. DepositsInv => TypeOK
  BY DEF DepositsInv
<1> QED
  BY <1>1, DepositsInvariance, PTL

\* However many sweeps overlap, fail and stop (deposits.jobs.js), the cursor never
\* passes an inbound payment that has no record, unless a first poll took it for
\* history.
THEOREM NothingIsSkipped == Spec => []NoDepositSkipped
<1>1. DepositsInv => NoDepositSkipped
  BY DEF DepositsInv, PagesCovered, Covered, CoveredBy, NoDepositSkipped
<1> QED
  BY <1>1, DepositsInvariance, PTL

\* Sweeps, retries, operators' replays and crashes tell the owner of a deposit at
\* most once between them.
THEOREM ToldAtMostOnce == Spec => []DepositToldOnce
<1>1. DepositsInv => DepositToldOnce
  BY DEF DepositsInv
<1> QED
  BY <1>1, DepositsInvariance, PTL
-----------------------------------------------------------------------------
(* WalletProvisioning.  That the calls of a part do not overlap rests on   *)
(* what a lease says: a part somebody works on is in progress and not      *)
(* expired, and the trustline is only worked on once the funding           *)
(* succeeded.                                                              *)

\* A call at the outcome "done" found or made what it asked for.
MadeIsOnLedger ==
  \A c \in Caller :
    /\ place[c] = "fundedRow" => "account" \in ledger
    /\ place[c] = "openedRow" => "trustline" \in ledger

\* While no claim was taken from its holder:
LeaseIsHeld ==
  \A part \in Part : Calls(part) # {} => state[part] = "in_progress" /\ ~expired[part]
FundedAsItSays == funded <=> state["funding"] = "succeeded"
TrustlineAfterFunding ==
  \A c \in Caller :
    place[c] \in {"claimTrustline"} \cup Holding["trustline"] => state["funding"] = "succeeded"

Unforced == forced \/ (LeaseIsHeld /\ FundedAsItSays /\ TrustlineAfterFunding)

ProvisioningInv == ProvisioningTypeOK /\ MadeIsOnLedger /\ Unforced /\ CallsDoNotOverlap
-----------------------------------------------------------------------------
LEMMA ProvisioningBegins == ProvisioningInit => ProvisioningInv
<1> SUFFICES ASSUME ProvisioningInit PROVE ProvisioningInv
  OBVIOUS
<1> USE DEF ProvisioningInit, Calls, Holding, Place, Part, State
<1>1. ProvisioningTypeOK
  BY DEF ProvisioningTypeOK
<1>2. MadeIsOnLedger
  BY DEF MadeIsOnLedger
<1>3. Unforced
  BY DEF Unforced, LeaseIsHeld, FundedAsItSays, TrustlineAfterFunding
<1>4. CallsDoNotOverlap
  BY DEF CallsDoNotOverlap
<1>5. QED
  BY <1>1, <1>2, <1>3, <1>4 DEF ProvisioningInv

\* A state that is written keeps the columns' types.
LEMMA ProvisioningPutType ==
  ASSUME ProvisioningTypeOK, NEW part \in Part, NEW value \in State, Put(part, value)
  PROVE  state' \in [Part -> State] /\ expired' \in [Part -> BOOLEAN]
<1>1. state \in [Part -> State] /\ expired \in [Part -> BOOLEAN]
  BY DEF ProvisioningTypeOK
<1>2. state' = [state EXCEPT ![part] = value] /\ expired' = [expired EXCEPT ![part] = FALSE]
  BY DEF Put
<1>3. state' \in [Part -> State]
  BY <1>1, <1>2
<1>4. expired' \in [Part -> BOOLEAN]
  BY <1>1, <1>2, Zenon
<1>5. QED
  BY <1>3, <1>4

\* Every step keeps the types, and what the row says of the ledger.
LEMMA ProvisioningTypeStep == ProvisioningTypeOK /\ MadeIsOnLedger /\ [ProvisioningNext]_provisioning => ProvisioningTypeOK'
<1> SUFFICES ASSUME ProvisioningTypeOK, MadeIsOnLedger, [ProvisioningNext]_provisioning PROVE ProvisioningTypeOK'
  OBVIOUS
<1> USE DEF ProvisioningTypeOK, MadeIsOnLedger, Part, State, Holding, Place
<1>1. ASSUME NEW c \in Caller, AskForWallet(c) PROVE ProvisioningTypeOK'
  BY <1>1 DEF AskForWallet, Moves, call, limits
<1>2. ASSUME NEW c \in Caller, InsertWallet(c) PROVE ProvisioningTypeOK'
  BY <1>2 DEF InsertWallet, Moves, call, limits
<1>3. ASSUME NEW c \in Caller, LoadWallet(c) PROVE ProvisioningTypeOK'
  BY <1>3 DEF LoadWallet, Moves, NeedsFunding, call, limits
<1>4. ASSUME NEW c \in Caller, ClaimFunding(c) PROVE ProvisioningTypeOK'
  <2>1. place' \in [Caller -> Place]
    BY <1>4 DEF ClaimFunding, ClaimPart, Moves, Put
  <2>2. state' \in [Part -> State] /\ expired' \in [Part -> BOOLEAN]
    BY <1>4, ProvisioningPutType DEF ClaimFunding, ClaimPart, Moves
  <2>3. UNCHANGED <<exists, funded, ledger, sawFunded, saw>> /\ forced' \in BOOLEAN
    BY <1>4 DEF ClaimFunding, ClaimPart, Moves, Put, call, limits
  <2>4. state'["trustline"] = "succeeded" => state["trustline"] = "succeeded"
    BY <1>4 DEF ClaimFunding, ClaimPart, Moves, Put
  <2>5. QED
    BY <2>1, <2>2, <2>3, <2>4
<1>5. ASSUME NEW c \in Caller, FundAccount(c) PROVE ProvisioningTypeOK'
  BY <1>5 DEF FundAccount, AskProvider, Moves, CallFault, call, limits
<1>6. ASSUME NEW c \in Caller, WriteFunded(c) PROVE ProvisioningTypeOK'
  BY <1>6 DEF WriteFunded, Moves, call, limits
<1>7. ASSUME NEW c \in Caller, WriteUnfunded(c) PROVE ProvisioningTypeOK'
  BY <1>7 DEF WriteUnfunded, WriteFailure, FailureStates, Moves, Put, call, limits
<1>8. ASSUME NEW c \in Caller, ClaimTrustline(c) PROVE ProvisioningTypeOK'
  <2>1. place' \in [Caller -> Place]
    BY <1>8 DEF ClaimTrustline, ClaimPart, Moves, Put
  <2>2. state' \in [Part -> State] /\ expired' \in [Part -> BOOLEAN]
    BY <1>8, ProvisioningPutType DEF ClaimTrustline, ClaimPart, Moves
  <2>3. UNCHANGED <<exists, funded, ledger, sawFunded, saw>> /\ forced' \in BOOLEAN
    BY <1>8 DEF ClaimTrustline, ClaimPart, Moves, Put, call, limits
  <2>4. state'["trustline"] = "succeeded" => state["trustline"] = "succeeded"
    BY <1>8 DEF ClaimTrustline, ClaimPart, Moves, Put
  <2>5. QED
    BY <2>1, <2>2, <2>3, <2>4
<1>9. ASSUME NEW c \in Caller, EstablishTrustline(c) PROVE ProvisioningTypeOK'
  BY <1>9 DEF EstablishTrustline, AskProvider, Moves, CallFault, call, limits
<1>10. ASSUME NEW c \in Caller, WriteOpened(c) PROVE ProvisioningTypeOK'
  BY <1>10 DEF WriteOpened, Moves, Put, call, limits
<1>11. ASSUME NEW c \in Caller, WriteUnopened(c) PROVE ProvisioningTypeOK'
  BY <1>11 DEF WriteUnopened, WriteFailure, FailureStates, Moves, Put, call, limits
<1>12. ASSUME NEW c \in Caller, ResetFunding(c) PROVE ProvisioningTypeOK'
  <2>1. place' \in [Caller -> Place]
    BY <1>12 DEF ResetFunding, ResetPart, Moves, Put
  <2>2. state' \in [Part -> State] /\ expired' \in [Part -> BOOLEAN]
    BY <1>12, ProvisioningPutType DEF ResetFunding, ResetPart, Moves
  <2>3. UNCHANGED <<exists, funded, ledger, sawFunded, saw>> /\ forced' \in BOOLEAN
    BY <1>12 DEF ResetFunding, ResetPart, Moves, Put, call, limits
  <2>4. state'["trustline"] = "succeeded" => state["trustline"] = "succeeded"
    BY <1>12 DEF ResetFunding, ResetPart, Moves, Put
  <2>5. QED
    BY <2>1, <2>2, <2>3, <2>4
<1>13. ASSUME NEW c \in Caller, ResetTrustline(c) PROVE ProvisioningTypeOK'
  <2>1. place' \in [Caller -> Place]
    BY <1>13 DEF ResetTrustline, ResetPart, Moves, Put
  <2>2. state' \in [Part -> State] /\ expired' \in [Part -> BOOLEAN]
    BY <1>13, ProvisioningPutType DEF ResetTrustline, ResetPart, Moves
  <2>3. UNCHANGED <<exists, funded, ledger, sawFunded, saw>> /\ forced' \in BOOLEAN
    BY <1>13 DEF ResetTrustline, ResetPart, Moves, Put, call, limits
  <2>4. state'["trustline"] = "succeeded" => state["trustline"] = "succeeded"
    BY <1>13 DEF ResetTrustline, ResetPart, Moves, Put
  <2>5. QED
    BY <2>1, <2>2, <2>3, <2>4
<1>14. ASSUME NEW c \in Caller, FundedRowFails(c) PROVE ProvisioningTypeOK'
  BY <1>14 DEF FundedRowFails, Moves, CallFault, call, limits
<1>15. ASSUME NEW c \in Caller, CallStops(c) PROVE ProvisioningTypeOK'
  BY <1>15 DEF CallStops, CallFault, call, limits
<1>16. ASSUME NEW c \in Caller, ReadForRecovery(c) PROVE ProvisioningTypeOK'
  BY <1>16 DEF ReadForRecovery, Moves, call, limits
<1>17. ASSUME NEW part \in Part, LeaseEnds(part) PROVE ProvisioningTypeOK'
  BY <1>17 DEF LeaseEnds, call, limits
<1>18. ASSUME NEW part \in Part, CallOutlastsLease(part) PROVE ProvisioningTypeOK'
  BY <1>18 DEF CallOutlastsLease, call, limits
<1>19. CASE UNCHANGED provisioning
  BY <1>19 DEF provisioning, call, limits
<1>20. QED
  BY <1>1, <1>2, <1>3, <1>4, <1>5, <1>6, <1>7, <1>8, <1>9, <1>10, <1>11, <1>12, <1>13, <1>14, <1>15, <1>16, <1>17, <1>18, <1>19 DEF ProvisioningNext, Step

\* A call is at a success only with the account or trustline on the ledger.
LEMMA LedgerNext == ProvisioningTypeOK /\ MadeIsOnLedger /\ [ProvisioningNext]_provisioning => MadeIsOnLedger'
<1> SUFFICES ASSUME ProvisioningTypeOK, MadeIsOnLedger, [ProvisioningNext]_provisioning PROVE MadeIsOnLedger'
  OBVIOUS
<1> USE DEF ProvisioningTypeOK, MadeIsOnLedger, Part, State, Holding, Place
<1>1. ASSUME NEW c \in Caller, AskForWallet(c) PROVE MadeIsOnLedger'
  BY <1>1 DEF AskForWallet, Moves, call, limits
<1>2. ASSUME NEW c \in Caller, InsertWallet(c) PROVE MadeIsOnLedger'
  BY <1>2 DEF InsertWallet, Moves, call, limits
<1>3. ASSUME NEW c \in Caller, LoadWallet(c) PROVE MadeIsOnLedger'
  BY <1>3 DEF LoadWallet, Moves, NeedsFunding, call, limits
<1>4. ASSUME NEW c \in Caller, ClaimFunding(c) PROVE MadeIsOnLedger'
  BY <1>4 DEF ClaimFunding, ClaimPart, Claimable, Moves, Put, call, limits
<1>5. ASSUME NEW c \in Caller, FundAccount(c) PROVE MadeIsOnLedger'
  BY <1>5 DEF FundAccount, AskProvider, Moves, CallFault, call, limits
<1>6. ASSUME NEW c \in Caller, WriteFunded(c) PROVE MadeIsOnLedger'
  BY <1>6 DEF WriteFunded, Moves, call, limits
<1>7. ASSUME NEW c \in Caller, WriteUnfunded(c) PROVE MadeIsOnLedger'
  BY <1>7 DEF WriteUnfunded, WriteFailure, FailureStates, Moves, Put, call, limits
<1>8. ASSUME NEW c \in Caller, ClaimTrustline(c) PROVE MadeIsOnLedger'
  BY <1>8 DEF ClaimTrustline, ClaimPart, Claimable, Moves, Put, call, limits
<1>9. ASSUME NEW c \in Caller, EstablishTrustline(c) PROVE MadeIsOnLedger'
  BY <1>9 DEF EstablishTrustline, AskProvider, Moves, CallFault, call, limits
<1>10. ASSUME NEW c \in Caller, WriteOpened(c) PROVE MadeIsOnLedger'
  BY <1>10 DEF WriteOpened, Moves, Put, call, limits
<1>11. ASSUME NEW c \in Caller, WriteUnopened(c) PROVE MadeIsOnLedger'
  BY <1>11 DEF WriteUnopened, WriteFailure, FailureStates, Moves, Put, call, limits
<1>12. ASSUME NEW c \in Caller, ResetFunding(c) PROVE MadeIsOnLedger'
  BY <1>12 DEF ResetFunding, ResetPart, Moves, Put, call, limits
<1>13. ASSUME NEW c \in Caller, ResetTrustline(c) PROVE MadeIsOnLedger'
  BY <1>13 DEF ResetTrustline, ResetPart, Moves, Put, call, limits
<1>14. ASSUME NEW c \in Caller, FundedRowFails(c) PROVE MadeIsOnLedger'
  BY <1>14 DEF FundedRowFails, Moves, CallFault, call, limits
<1>15. ASSUME NEW c \in Caller, CallStops(c) PROVE MadeIsOnLedger'
  BY <1>15 DEF CallStops, CallFault, call, limits
<1>16. ASSUME NEW c \in Caller, ReadForRecovery(c) PROVE MadeIsOnLedger'
  BY <1>16 DEF ReadForRecovery, Moves, call, limits
<1>17. ASSUME NEW part \in Part, LeaseEnds(part) PROVE MadeIsOnLedger'
  BY <1>17 DEF LeaseEnds, call, limits
<1>18. ASSUME NEW part \in Part, CallOutlastsLease(part) PROVE MadeIsOnLedger'
  BY <1>18 DEF CallOutlastsLease, call, limits
<1>19. CASE UNCHANGED provisioning
  BY <1>19 DEF provisioning, call, limits
<1>20. QED
  BY <1>1, <1>2, <1>3, <1>4, <1>5, <1>6, <1>7, <1>8, <1>9, <1>10, <1>11, <1>12, <1>13, <1>14, <1>15, <1>16, <1>17, <1>18, <1>19 DEF ProvisioningNext, Step

\* Every step keeps the leases, unless it forces one.
LEMMA UnforcedNext == ProvisioningTypeOK /\ Unforced /\ CallsDoNotOverlap /\ [ProvisioningNext]_provisioning => Unforced'
<1> SUFFICES ASSUME ProvisioningTypeOK, Unforced, CallsDoNotOverlap, [ProvisioningNext]_provisioning PROVE Unforced'
  OBVIOUS
<1> USE DEF ProvisioningTypeOK, Unforced, CallsDoNotOverlap, LeaseIsHeld, FundedAsItSays, TrustlineAfterFunding, Calls, Part, State, Holding, Place
<1>1. ASSUME NEW c \in Caller, AskForWallet(c) PROVE Unforced'
  BY <1>1 DEF AskForWallet, Moves, call, limits
<1>2. ASSUME NEW c \in Caller, InsertWallet(c) PROVE Unforced'
  BY <1>2 DEF InsertWallet, Moves, call, limits
<1>3. ASSUME NEW c \in Caller, LoadWallet(c) PROVE Unforced'
  BY <1>3 DEF LoadWallet, Moves, NeedsFunding, call, limits
<1>4. ASSUME NEW c \in Caller, ClaimFunding(c) PROVE Unforced'
  BY <1>4 DEF ClaimFunding, ClaimPart, Claimable, Moves, Put, call, limits
<1>5. ASSUME NEW c \in Caller, FundAccount(c) PROVE Unforced'
  BY <1>5 DEF FundAccount, AskProvider, Moves, CallFault, call, limits
<1>6. ASSUME NEW c \in Caller, WriteFunded(c) PROVE Unforced'
  BY <1>6 DEF WriteFunded, Moves, call, limits
<1>7. ASSUME NEW c \in Caller, WriteUnfunded(c) PROVE Unforced'
  BY <1>7 DEF WriteUnfunded, WriteFailure, FailureStates, Moves, Put, call, limits
<1>8. ASSUME NEW c \in Caller, ClaimTrustline(c) PROVE Unforced'
  BY <1>8 DEF ClaimTrustline, ClaimPart, Claimable, Moves, Put, call, limits
<1>9. ASSUME NEW c \in Caller, EstablishTrustline(c) PROVE Unforced'
  BY <1>9 DEF EstablishTrustline, AskProvider, Moves, CallFault, call, limits
<1>10. ASSUME NEW c \in Caller, WriteOpened(c) PROVE Unforced'
  BY <1>10 DEF WriteOpened, Moves, Put, call, limits
<1>11. ASSUME NEW c \in Caller, WriteUnopened(c) PROVE Unforced'
  BY <1>11 DEF WriteUnopened, WriteFailure, FailureStates, Moves, Put, call, limits
<1>12. ASSUME NEW c \in Caller, ResetFunding(c) PROVE Unforced'
  <2>1. CASE forced' \/ ~(saw[c]["funding"] # "succeeded" /\ ~sawFunded[c])
    BY <1>12, <2>1 DEF ResetFunding, ResetPart, Moves, call, limits
  <2>2. CASE ~forced' /\ saw[c]["funding"] # "succeeded" /\ ~sawFunded[c]
    <3>1. /\ ~forced /\ Calls("funding") = {} /\ state["funding"] # "succeeded"
          /\ state' = [state EXCEPT !["funding"] = "pending"] /\ funded' = funded
          /\ expired' = [expired EXCEPT !["funding"] = FALSE]
          /\ place[c] = "resetFunding" /\ place' = [place EXCEPT ![c] = "resetTrustline"]
      BY <1>12, <2>2 DEF ResetFunding, ResetPart, Moves, Put
    <3>2. \A d \in Caller : place[d] \notin Holding["funding"]
      BY <3>1
    <3>3. LeaseIsHeld'
      BY <3>1, <3>2
    <3>4. FundedAsItSays' /\ TrustlineAfterFunding'
      BY <3>1
    <3>5. QED
      BY <3>3, <3>4
  <2>3. QED
    BY <2>1, <2>2, <1>12 DEF ResetFunding, ResetPart
<1>13. ASSUME NEW c \in Caller, ResetTrustline(c) PROVE Unforced'
  BY <1>13 DEF ResetTrustline, ResetPart, Moves, Put, call, limits
<1>14. ASSUME NEW c \in Caller, FundedRowFails(c) PROVE Unforced'
  BY <1>14 DEF FundedRowFails, Moves, CallFault, call, limits
<1>15. ASSUME NEW c \in Caller, CallStops(c) PROVE Unforced'
  BY <1>15 DEF CallStops, CallFault, call, limits
<1>16. ASSUME NEW c \in Caller, ReadForRecovery(c) PROVE Unforced'
  BY <1>16 DEF ReadForRecovery, Moves, call, limits
<1>17. ASSUME NEW part \in Part, LeaseEnds(part) PROVE Unforced'
  BY <1>17 DEF LeaseEnds, call, limits
<1>18. ASSUME NEW part \in Part, CallOutlastsLease(part) PROVE Unforced'
  BY <1>18 DEF CallOutlastsLease, call, limits
<1>19. CASE UNCHANGED provisioning
  BY <1>19 DEF provisioning, call, limits
<1>20. QED
  BY <1>1, <1>2, <1>3, <1>4, <1>5, <1>6, <1>7, <1>8, <1>9, <1>10, <1>11, <1>12, <1>13, <1>14, <1>15, <1>16, <1>17, <1>18, <1>19 DEF ProvisioningNext, Step

\* A part is claimed only when nobody works on it.
LEMMA OverlapNext == ProvisioningTypeOK /\ Unforced /\ CallsDoNotOverlap /\ [ProvisioningNext]_provisioning => CallsDoNotOverlap'
<1> SUFFICES ASSUME ProvisioningTypeOK, Unforced, CallsDoNotOverlap, [ProvisioningNext]_provisioning PROVE CallsDoNotOverlap'
  OBVIOUS
<1> USE DEF ProvisioningTypeOK, Unforced, CallsDoNotOverlap, LeaseIsHeld, Calls, Part, State, Holding, Place
<1>1. ASSUME NEW c \in Caller, AskForWallet(c) PROVE CallsDoNotOverlap'
  BY <1>1 DEF AskForWallet, Moves, call, limits
<1>2. ASSUME NEW c \in Caller, InsertWallet(c) PROVE CallsDoNotOverlap'
  BY <1>2 DEF InsertWallet, Moves, call, limits
<1>3. ASSUME NEW c \in Caller, LoadWallet(c) PROVE CallsDoNotOverlap'
  BY <1>3 DEF LoadWallet, Moves, NeedsFunding, call, limits
<1>4. ASSUME NEW c \in Caller, ClaimFunding(c) PROVE CallsDoNotOverlap'
  BY <1>4 DEF ClaimFunding, ClaimPart, Claimable, Moves, Put, call, limits
<1>5. ASSUME NEW c \in Caller, FundAccount(c) PROVE CallsDoNotOverlap'
  BY <1>5 DEF FundAccount, AskProvider, Moves, CallFault, call, limits
<1>6. ASSUME NEW c \in Caller, WriteFunded(c) PROVE CallsDoNotOverlap'
  BY <1>6 DEF WriteFunded, Moves, call, limits
<1>7. ASSUME NEW c \in Caller, WriteUnfunded(c) PROVE CallsDoNotOverlap'
  BY <1>7 DEF WriteUnfunded, WriteFailure, FailureStates, Moves, Put, call, limits
<1>8. ASSUME NEW c \in Caller, ClaimTrustline(c) PROVE CallsDoNotOverlap'
  BY <1>8 DEF ClaimTrustline, ClaimPart, Claimable, Moves, Put, call, limits
<1>9. ASSUME NEW c \in Caller, EstablishTrustline(c) PROVE CallsDoNotOverlap'
  BY <1>9 DEF EstablishTrustline, AskProvider, Moves, CallFault, call, limits
<1>10. ASSUME NEW c \in Caller, WriteOpened(c) PROVE CallsDoNotOverlap'
  BY <1>10 DEF WriteOpened, Moves, Put, call, limits
<1>11. ASSUME NEW c \in Caller, WriteUnopened(c) PROVE CallsDoNotOverlap'
  BY <1>11 DEF WriteUnopened, WriteFailure, FailureStates, Moves, Put, call, limits
<1>12. ASSUME NEW c \in Caller, ResetFunding(c) PROVE CallsDoNotOverlap'
  BY <1>12 DEF ResetFunding, ResetPart, Moves, Put, call, limits
<1>13. ASSUME NEW c \in Caller, ResetTrustline(c) PROVE CallsDoNotOverlap'
  BY <1>13 DEF ResetTrustline, ResetPart, Moves, Put, call, limits
<1>14. ASSUME NEW c \in Caller, FundedRowFails(c) PROVE CallsDoNotOverlap'
  BY <1>14 DEF FundedRowFails, Moves, CallFault, call, limits
<1>15. ASSUME NEW c \in Caller, CallStops(c) PROVE CallsDoNotOverlap'
  BY <1>15 DEF CallStops, CallFault, call, limits
<1>16. ASSUME NEW c \in Caller, ReadForRecovery(c) PROVE CallsDoNotOverlap'
  BY <1>16 DEF ReadForRecovery, Moves, call, limits
<1>17. ASSUME NEW part \in Part, LeaseEnds(part) PROVE CallsDoNotOverlap'
  BY <1>17 DEF LeaseEnds, call, limits
<1>18. ASSUME NEW part \in Part, CallOutlastsLease(part) PROVE CallsDoNotOverlap'
  BY <1>18 DEF CallOutlastsLease, call, limits
<1>19. CASE UNCHANGED provisioning
  BY <1>19 DEF provisioning, call, limits
<1>20. QED
  BY <1>1, <1>2, <1>3, <1>4, <1>5, <1>6, <1>7, <1>8, <1>9, <1>10, <1>11, <1>12, <1>13, <1>14, <1>15, <1>16, <1>17, <1>18, <1>19 DEF ProvisioningNext, Step

LEMMA ProvisioningInvariance == ProvisioningSpec => []ProvisioningInv
<1>1. ProvisioningInv /\ [ProvisioningNext]_provisioning => ProvisioningInv'
  BY ProvisioningTypeStep, LedgerNext, UnforcedNext, OverlapNext DEF ProvisioningInv
<1>2. QED
  BY ProvisioningBegins, <1>1, PTL DEF ProvisioningSpec
-----------------------------------------------------------------------------
\* The Wallet row holds the values of its columns, and says of Stellar only
\* what Stellar has: wallet.funded and a succeeded trustline.
THEOREM ProvisioningTypeCorrect == ProvisioningSpec => []ProvisioningTypeOK
<1>1. ProvisioningInv => ProvisioningTypeOK
  BY DEF ProvisioningInv
<1>2. QED
  BY ProvisioningInvariance, <1>1, PTL

\* The leases of provisionWallet and ensureUsdcTrustline keep calls to Friendbot
\* and Horizon apart while no lease ends under its holder and no recovery
\* overwrites a claim.
THEOREM CallsApart == ProvisioningSpec => []CallsDoNotOverlap
<1>1. ProvisioningInv => CallsDoNotOverlap
  BY DEF ProvisioningInv
<1>2. QED
  BY ProvisioningInvariance, <1>1, PTL
=============================================================================
