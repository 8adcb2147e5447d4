--------------------------- MODULE OfferRoomProofs ---------------------------
(***************************************************************************)
(* One buyer holds the deal, for any offers, staff, assignment packages    *)
(* and order of what staff send from screens that may be out of date: the  *)
(* case, its selections and the offers name the same primary, and a live   *)
(* assignment binds that buyer on the selected terms.                      *)
(***************************************************************************)
EXTENDS OfferRoom, FiniteSetTheorems, SequenceTheorems, TLAPS

Instance ==
  /\ MaxVersion \in Nat \ {0} /\ MaxSelections \in Nat
  /\ Reasons \subseteq DOMAIN Outcomes
  /\ NoOffer \notin Offers

RoomStatus == {"marketed", "offers_received", "buyer_selected", "reconciled"}
RoomRow == [status : RoomStatus, strategy : Strategies,
            buyer : Offers \cup {NoOffer}, backup : Offers \cup {NoOffer}]
OfferRow == [status : OfferStatus, version : 0..MaxVersion, money : Terms \cup {"unknown"},
             paid : BOOLEAN, retraded : 0..MaxVersion]
Point == [status : Settled \cup {"none", "pending"}, note : BOOLEAN]
Selection == [primary : Offers, backups : SUBSET Offers, version : 0..MaxVersion,
              active : BOOLEAN, next : 0..MaxSelections, deposit : Point]
AssignmentRow == [status : {"none", "draft", "pending_approval", "void"} \cup Obliging,
                  offer : Offers \cup {NoOffer}, version : 0..MaxVersion, selection : Nat]
Credit == [completed : Nat, failed : Nat]

RoomTyped ==
  /\ room \in RoomRow
  /\ offer \in [Offers -> OfferRow]
  /\ coverage \in Seq(Selection)
  /\ assignment \in [Assignments -> AssignmentRow]
  /\ closing \in {"open", "funded", "cancelled"}
  /\ history \in [Offers -> Credit]

-----------------------------------------------------------------------------
(* The invariant. *)

(* Only the selection made last may be active. *)
OnlyLast == \A i \in DOMAIN coverage : coverage[i].active => i = Len(coverage)

Pointers ==
  /\ room.buyer = IF Current = 0 THEN NoOffer ELSE coverage[Current].primary
  /\ \A o \in Offers : offer[o].status = "selected" => o = room.buyer
  /\ Current # 0 /\ closing = "open" => offer[room.buyer].status = "selected"
  /\ room.backup # NoOffer => Current # 0 /\ room.backup \in coverage[Current].backups

(* Nobody is credited before the deal is funded.  Under the assignment     *)
(* strategy an executed assignment stays behind it, and that is what keeps *)
(* the closed offer from being recorded as lost.                           *)
Credited ==
  /\ \A o \in Offers : history[o].completed # 0 => history[o].completed = 1 /\ closing = "funded"
  /\ \A o, q \in Offers : history[o].completed # 0 /\ history[q].completed # 0 => o = q
  /\ closing = "funded" /\ room.strategy = "assignment" =>
       /\ \A o \in Offers : history[o].completed # 0 => offer[o].status = "closed"
       /\ \E a \in Assignments : assignment[a].status = "executed" /\ assignment[a].offer \in Offers

IInv ==
  /\ RoomTyped /\ OnlyLast /\ Pointers
  /\ LiveAssignmentIsBound /\ SupersededIsSettled
  /\ Credited

-----------------------------------------------------------------------------
(* The coverage as a sequence, and its current selection. *)

LEMMA Typed ==
  IInv => /\ room \in RoomRow /\ offer \in [Offers -> OfferRow]
          /\ Len(coverage) \in Nat /\ DOMAIN coverage = 1..Len(coverage)
          /\ coverage \in [1..Len(coverage) -> Selection]
          /\ assignment \in [Assignments -> AssignmentRow]
          /\ history \in [Offers -> Credit]
  BY LenProperties DEF IInv, RoomTyped

LEMMA CurrentIs ==
  RoomTyped /\ OnlyLast =>
    /\ Current = IF Len(coverage) # 0 /\ coverage[Len(coverage)].active
                 THEN Len(coverage) ELSE 0
    /\ Active \subseteq {Len(coverage)}
    /\ Current # 0 => Current \in DOMAIN coverage /\ coverage[Current] \in Selection
                      /\ coverage[Current].active
<1> SUFFICES ASSUME RoomTyped, OnlyLast
             PROVE  /\ Current = IF Len(coverage) # 0 /\ coverage[Len(coverage)].active
                                 THEN Len(coverage) ELSE 0
                    /\ Active \subseteq {Len(coverage)}
                    /\ Current # 0 => Current \in DOMAIN coverage /\ coverage[Current] \in Selection
                                      /\ coverage[Current].active
  OBVIOUS
<1>1. /\ Len(coverage) \in Nat /\ DOMAIN coverage = 1..Len(coverage)
      /\ coverage \in [1..Len(coverage) -> Selection]
  BY LenProperties DEF RoomTyped
<1>2. Active \subseteq {Len(coverage)}
  BY DEF Active, OnlyLast
<1>3. CASE Len(coverage) # 0 /\ coverage[Len(coverage)].active
  <2>1. Active = {Len(coverage)}
    BY <1>1, <1>2, <1>3 DEF Active
  <2> QED BY <1>1, <1>2, <1>3, <2>1 DEF Current
<1>4. CASE ~(Len(coverage) # 0 /\ coverage[Len(coverage)].active)
  <2>1. Active = {}
    BY <1>1, <1>2, <1>4 DEF Active
  <2> QED BY <1>1, <1>2, <1>4, <2>1 DEF Current
<1> QED BY <1>3, <1>4

LEMMA CurrentNext ==
  RoomTyped' /\ OnlyLast' =>
    Current' = IF Len(coverage') # 0 /\ coverage'[Len(coverage')].active
               THEN Len(coverage') ELSE 0
<1>1. RoomTyped /\ OnlyLast =>
        Current = IF Len(coverage) # 0 /\ coverage[Len(coverage)].active
                  THEN Len(coverage) ELSE 0
  BY CurrentIs
<1>2. (RoomTyped /\ OnlyLast =>
        Current = IF Len(coverage) # 0 /\ coverage[Len(coverage)].active
                  THEN Len(coverage) ELSE 0)'
  BY <1>1, PTL
<1> QED BY <1>2

LEMMA SeqMade ==
  ASSUME NEW n \in Nat, NEW f \in [1..n -> Selection]
  PROVE  f \in Seq(Selection) /\ Len(f) = n
<1>1. f \in Seq(Selection)
  BY SeqDef
<1>2. Len(f) \in Nat /\ DOMAIN f = 1..Len(f)
  BY <1>1, LenProperties
<1> QED BY <1>1, <1>2

(* A checkpoint stays one, and a cancelled one has nothing left to watch.  *)
LEMMA CancelledSettles ==
  ASSUME NEW point \in Point
  PROVE  Cancelled(point) \in Point /\ Cancelled(point).status \in Settled \cup {"none"}
  BY DEF Cancelled, Point, Settled

LEMMA SyncedTyped ==
  ASSUME NEW point \in Point, NEW t \in OfferRow
  PROVE  Synced(point, t) \in Point
<1> DEFINE derived == IF t.paid THEN "completed" ELSE "pending"
           open == t.money = "zero" /\ point.status = "pending"
<1>1. Synced(point, t) \in {point, [point EXCEPT !.status = "cancelled"],
                            [point EXCEPT !.status = derived]}
  BY DEF Synced, Point, Settled
<1>2. derived \in Settled \cup {"none", "pending"} /\ "cancelled" \in Settled
  BY DEF Settled
<1> HIDE DEF derived
<1> QED BY <1>1, <1>2 DEF Point

(* What superseding the current selection leaves of the coverage. *)
LEMMA SupersededIs ==
  ASSUME IInv, NEW next \in 0..MaxSelections
  PROVE  /\ Superseded(next) \in Seq(Selection) /\ Len(Superseded(next)) = Len(coverage)
         /\ \A i \in 1..Len(coverage) :
              /\ ~Superseded(next)[i].active
              /\ Superseded(next)[i].deposit.status \in Settled \cup {"none"}
              /\ Superseded(next)[i].primary = coverage[i].primary
              /\ Superseded(next)[i].next = IF i = Current THEN next ELSE coverage[i].next
<1> DEFINE replaced(i) == [coverage[i] EXCEPT !.active = FALSE, !.next = next,
                                              !.deposit = Cancelled(@)]
<1>1. ASSUME NEW i \in 1..Len(coverage)
      PROVE  /\ Superseded(next)[i] = IF i # Current THEN coverage[i] ELSE replaced(i)
             /\ Superseded(next)[i] \in Selection
             /\ ~Superseded(next)[i].active
             /\ Superseded(next)[i].deposit.status \in Settled \cup {"none"}
             /\ Superseded(next)[i].primary = coverage[i].primary
             /\ Superseded(next)[i].next = IF i = Current THEN next ELSE coverage[i].next
  <2>1. Superseded(next)[i] = IF i # Current THEN coverage[i] ELSE replaced(i)
    BY Typed DEF Superseded
  <2>2. coverage[i] \in Selection /\ coverage[i].deposit \in Point
    BY Typed DEF Selection
  <2>3. CASE i # Current
    <3>1. ~coverage[i].active
      BY <2>3, Typed, CurrentIs DEF IInv, OnlyLast
    <3>2. coverage[i].deposit.status \in Settled \cup {"none"}
      BY <3>1, Typed DEF IInv, SupersededIsSettled
    <3> QED BY <2>1, <2>2, <2>3, <3>1, <3>2
  <2>4. CASE i = Current
    <3>1. Cancelled(coverage[i].deposit) \in Point
          /\ Cancelled(coverage[i].deposit).status \in Settled \cup {"none"}
      BY <2>2, CancelledSettles
    <3>2. /\ replaced(i) \in Selection /\ ~replaced(i).active
          /\ replaced(i).deposit = Cancelled(coverage[i].deposit)
          /\ replaced(i).primary = coverage[i].primary /\ replaced(i).next = next
      BY <2>2, <3>1 DEF Selection
    <3> QED BY <2>1, <2>4, <3>1, <3>2
  <2> QED BY <2>1, <2>3, <2>4
<1>2. Superseded(next) \in [1..Len(coverage) -> Selection]
  <2>1. Superseded(next) = [i \in 1..Len(coverage) |-> Superseded(next)[i]]
    BY Typed DEF Superseded
  <2> QED BY <1>1, <2>1
<1>3. Superseded(next) \in Seq(Selection) /\ Len(Superseded(next)) = Len(coverage)
  BY <1>2, Typed, SeqMade
<1> QED BY <1>1, <1>3
-----------------------------------------------------------------------------
(* A step that leaves the selections as they are, but for the deposit.     *)

SameSelections ==
  /\ coverage' \in Seq(Selection) /\ Len(coverage') = Len(coverage)
  /\ \A i \in DOMAIN coverage :
       /\ coverage'[i].primary = coverage[i].primary /\ coverage'[i].backups = coverage[i].backups
       /\ coverage'[i].version = coverage[i].version /\ coverage'[i].active = coverage[i].active
       /\ coverage'[i].next = coverage[i].next
       /\ ~coverage[i].active => coverage'[i].deposit.status \in Settled \cup {"none"}

SamePointers ==
  /\ room'.strategy = room.strategy /\ room'.buyer = room.buyer
  /\ \/ room'.backup \in {room.backup, NoOffer}
     \/ Current # 0 /\ room'.backup \in coverage[Current].backups
  /\ closing' = "open" /\ room.status = "buyer_selected" => room'.status = "buyer_selected"

SameSelected ==
  \A o \in Offers : /\ offer'[o].status = "selected" <=> offer[o].status = "selected"
                    /\ offer[o].status = "closed" => offer'[o].status = "closed"

(* Whatever obliges after the step is bound before it, and neither it nor  *)
(* the primary's terms change.                                             *)
SameObligations ==
  /\ \A a \in Assignments : assignment[a].status = "executed" =>
       assignment'[a].status = "executed" /\ assignment'[a].offer = assignment[a].offer
  /\ closing' = "open" =>
       \A a \in Assignments : assignment'[a].status \in Obliging =>
         /\ Authority /\ Bound(a)
         /\ assignment'[a].offer = assignment[a].offer
         /\ assignment'[a].version = assignment[a].version
         /\ assignment'[a].selection = assignment[a].selection
         /\ offer'[assignment[a].offer].version = offer[assignment[a].offer].version

SameCredits ==
  /\ closing' = closing \/ (closing = "open" /\ closing' = "cancelled")
  /\ \A o \in Offers : history'[o].completed = history[o].completed

LEMMA CurrentKept ==
  ASSUME IInv, SameSelections
  PROVE  /\ DOMAIN coverage' = DOMAIN coverage /\ DOMAIN coverage = 1..Len(coverage)
         /\ Current' = Current /\ OnlyLast'
<1>1. /\ DOMAIN coverage = 1..Len(coverage) /\ DOMAIN coverage' = 1..Len(coverage')
      /\ Len(coverage') = Len(coverage)
  BY LenProperties DEF IInv, RoomTyped, SameSelections
<1>2. Active' = Active
  BY <1>1 DEF Active, SameSelections
<1>3. Current' = Current
  BY <1>2 DEF Current
<1>4. OnlyLast'
  BY <1>1 DEF IInv, OnlyLast, SameSelections
<1> QED BY <1>1, <1>3, <1>4

LEMMA QuietStep ==
  ASSUME Instance, IInv, RoomTyped', SameSelections, SamePointers, SameSelected,
         SameObligations, SameCredits
  PROVE  IInv'
<1>1. /\ DOMAIN coverage' = DOMAIN coverage /\ DOMAIN coverage = 1..Len(coverage)
      /\ Current' = Current /\ OnlyLast'
  BY CurrentKept
<1>2. Current # 0 =>
        /\ Current \in DOMAIN coverage
        /\ coverage'[Current].primary = coverage[Current].primary
        /\ coverage'[Current].backups = coverage[Current].backups
        /\ coverage'[Current].version = coverage[Current].version
        /\ coverage[Current].primary \in Offers
  BY CurrentIs DEF IInv, SameSelections, Selection
<1>3. Pointers'
  <2>1. room'.buyer = IF Current' = 0 THEN NoOffer ELSE coverage'[Current'].primary
    BY <1>1, <1>2 DEF IInv, Pointers, SamePointers
  <2>2. \A o \in Offers : offer'[o].status = "selected" => o = room'.buyer
    BY DEF IInv, Pointers, SamePointers, SameSelected
  <2>3. Current' # 0 /\ closing' = "open" => offer'[room'.buyer].status = "selected"
    BY <1>1, <1>2 DEF IInv, Pointers, SamePointers, SameSelected, SameCredits
  <2>4. room'.backup # NoOffer => Current' # 0 /\ room'.backup \in coverage'[Current'].backups
    BY <1>1, <1>2 DEF IInv, Pointers, SamePointers
  <2> QED BY <2>1, <2>2, <2>3, <2>4 DEF Pointers
<1>4. LiveAssignmentIsBound'
  <2> SUFFICES ASSUME closing' = "open", NEW a \in Assignments, assignment'[a].status \in Obliging
               PROVE  Authority' /\ Bound(a)'
    BY DEF LiveAssignmentIsBound
  <2>1. /\ Authority /\ Bound(a)
        /\ assignment'[a].offer = assignment[a].offer
        /\ assignment'[a].version = assignment[a].version
        /\ assignment'[a].selection = assignment[a].selection
        /\ offer'[assignment[a].offer].version = offer[assignment[a].offer].version
    BY DEF SameObligations
  <2>2. Authority'
    BY <1>1, <1>2, <2>1 DEF Authority, Bound, SamePointers, SameSelected
  <2>3. Leads(assignment[a].selection, Current)'
    <3> DEFINE i == assignment[a].selection
    <3>1. i \in 1..Current /\ \A k \in i..(Current - 1) : coverage[k].next = k + 1
      BY <2>1 DEF Bound, Leads
    <3>2. Current \in 1..Len(coverage) /\ Len(coverage) \in Nat
      BY <1>1, <1>2, <2>1, Typed DEF Authority
    <3>3. \A k \in i..(Current - 1) : k \in DOMAIN coverage
      BY <1>1, <3>1, <3>2
    <3>4. \A k \in i..(Current - 1) : coverage'[k].next = k + 1
      BY <3>1, <3>3 DEF SameSelections
    <3> QED BY <1>1, <2>1, <3>1, <3>4 DEF Leads
  <2>4. Bound(a)'
    BY <1>1, <1>2, <2>1, <2>3 DEF Bound, Leads
  <2> QED BY <2>2, <2>4
<1>5. SupersededIsSettled'
  BY <1>1 DEF SupersededIsSettled, SameSelections
<1>6. Credited'
  BY DEF IInv, Credited, SamePointers, SameSelected, SameObligations, SameCredits
<1> QED BY <1>1, <1>3, <1>4, <1>5, <1>6 DEF IInv
-----------------------------------------------------------------------------
(* The parts of a quiet step. *)

LEMMA SelectionsKept ==
  ASSUME IInv, coverage' = coverage
  PROVE  SameSelections
  BY DEF IInv, RoomTyped, SameSelections, SupersededIsSettled

LEMMA DepositSet ==
  ASSUME IInv, Current # 0, NEW point \in Point,
         coverage' = [coverage EXCEPT ![Current].deposit = point]
  PROVE  SameSelections
<1>1. /\ Len(coverage) \in Nat /\ DOMAIN coverage = 1..Len(coverage)
      /\ coverage \in [1..Len(coverage) -> Selection]
  BY Typed
<1>2. Current \in 1..Len(coverage) /\ coverage[Current].active
  BY <1>1, CurrentIs DEF IInv
<1> DEFINE q == [coverage[Current] EXCEPT !.deposit = point]
<1>3. /\ q \in Selection /\ q.primary = coverage[Current].primary
      /\ q.backups = coverage[Current].backups /\ q.version = coverage[Current].version
      /\ q.active = coverage[Current].active /\ q.next = coverage[Current].next
  BY <1>1, <1>2 DEF Selection
<1>4. coverage' = [coverage EXCEPT ![Current] = q]
  OBVIOUS
<1> HIDE DEF q
<1>5. /\ coverage' \in [1..Len(coverage) -> Selection] /\ coverage'[Current] = q
      /\ \A i \in 1..Len(coverage) : i # Current => coverage'[i] = coverage[i]
  BY <1>1, <1>2, <1>3, <1>4
<1>6. coverage' \in Seq(Selection) /\ Len(coverage') = Len(coverage)
  BY <1>1, <1>5, SeqMade
<1>7. \A i \in 1..Len(coverage) :
        ~coverage[i].active => coverage[i].deposit.status \in Settled \cup {"none"}
  BY <1>1 DEF IInv, SupersededIsSettled
<1>8. ASSUME NEW i \in 1..Len(coverage)
      PROVE  /\ coverage'[i].primary = coverage[i].primary
             /\ coverage'[i].backups = coverage[i].backups
             /\ coverage'[i].version = coverage[i].version
             /\ coverage'[i].active = coverage[i].active
             /\ coverage'[i].next = coverage[i].next
             /\ ~coverage[i].active => coverage'[i].deposit.status \in Settled \cup {"none"}
  BY <1>2, <1>3, <1>5, <1>7
<1> QED BY <1>1, <1>6, <1>8 DEF SameSelections

LEMMA ObligationsKept ==
  ASSUME IInv, UNCHANGED <<assignment, closing>>,
         \A o \in Offers : \/ offer'[o].version = offer[o].version
                           \/ offer[o].status # "selected" \/ Unobliged({o})
  PROVE  SameObligations
<1> SUFFICES ASSUME closing = "open", NEW a \in Assignments, assignment[a].status \in Obliging
             PROVE  /\ Authority /\ Bound(a)
                    /\ offer'[assignment[a].offer].version = offer[assignment[a].offer].version
  BY DEF SameObligations
<1>1. Authority /\ Bound(a)
  BY DEF IInv, LiveAssignmentIsBound
<1>2. /\ assignment[a].offer = coverage[Current].primary /\ assignment[a].offer \in Offers
      /\ offer[assignment[a].offer].status = "selected"
  BY <1>1, CurrentIs DEF IInv, Authority, Bound, Selection
<1>3. ~Unobliged({assignment[a].offer})
  BY DEF Unobliged
<1> QED BY <1>1, <1>2, <1>3

LEMMA OfferSet ==
  ASSUME IInv, NEW o \in Offers, NEW r \in OfferRow, offer' = [offer EXCEPT ![o] = r]
  PROVE  /\ offer' \in [Offers -> OfferRow] /\ offer'[o] = r
         /\ \A q \in Offers : q # o => offer'[q] = offer[q]
  BY Typed

LEMMA Advanced ==
  ASSUME InRoom, NEW milestone \in {"offers_received", "buyer_selected"}
  PROVE  /\ Advance(milestone) \in {"offers_received", "buyer_selected"}
         /\ room.status = "buyer_selected" \/ milestone = "buyer_selected"
              => Advance(milestone) = "buyer_selected"
  BY DEF Advance, InRoom

LEMMA PointersKept ==
  ASSUME room' = room
  PROVE  SamePointers
  BY DEF SamePointers

LEMMA CreditsKept ==
  ASSUME history' = history, closing' = closing
  PROVE  SameCredits
  BY DEF SameCredits

-----------------------------------------------------------------------------
(* The quiet steps. *)

LEMMA RestStep ==
  ASSUME Instance, IInv, UNCHANGED <<room, offer, coverage, assignment, closing, history>>
  PROVE  IInv'
<1>1. RoomTyped' /\ SameSelected
  BY DEF IInv, RoomTyped, SameSelected
<1> QED BY <1>1, QuietStep, SelectionsKept, ObligationsKept, PointersKept, CreditsKept

(* An offer is made, revised or negotiated: not the selected one's terms   *)
(* under a live agreement.                                                 *)
LEMMA OfferStep ==
  ASSUME Instance, IInv, NEW o \in Offers, NEW r \in OfferRow, offer' = [offer EXCEPT ![o] = r],
         UNCHANGED <<coverage, assignment, closing, history>>,
         room' \in RoomRow, SamePointers,
         r.status = "selected" <=> offer[o].status = "selected", offer[o].status # "closed",
         r.version = offer[o].version \/ offer[o].status # "selected" \/ Unobliged({o})
  PROVE  IInv'
<1>1. /\ offer' \in [Offers -> OfferRow] /\ offer'[o] = r
      /\ \A q \in Offers : q # o => offer'[q] = offer[q]
  BY OfferSet
<1>2. RoomTyped'
  BY <1>1 DEF IInv, RoomTyped
<1>3. SameSelected
  BY <1>1 DEF SameSelected
<1>4. \A q \in Offers : \/ offer'[q].version = offer[q].version
                        \/ offer[q].status # "selected" \/ Unobliged({q})
  BY <1>1
<1> QED BY <1>2, <1>3, <1>4, QuietStep, SelectionsKept, ObligationsKept, CreditsKept

LEMMA CreateOfferStep ==
  ASSUME Instance, IInv, NEW o \in Offers, CreateOffer(o)
  PROVE  IInv'
<1>1. PICK money \in Terms :
        offer' = [offer EXCEPT ![o].status = "received", ![o].version = 1, ![o].money = money]
  BY DEF CreateOffer
<1> DEFINE q == [offer[o] EXCEPT !.status = "received", !.version = 1, !.money = money]
<1>2. q \in OfferRow /\ q.status = "received"
  <2>1. offer[o] \in OfferRow /\ 1 \in 0..MaxVersion /\ "received" \in OfferStatus
    BY Typed DEF Instance, OfferStatus, Viable
  <2> QED BY <2>1 DEF OfferRow
<1>3. offer' = [offer EXCEPT ![o] = q]
  BY <1>1
<1> HIDE DEF q
<1>4. PICK r \in OfferRow : r = q
  BY <1>2
<1>5. room' \in RoomRow /\ SamePointers
  <2>1. /\ Advance("offers_received") \in RoomStatus
        /\ room.status = "buyer_selected" => Advance("offers_received") = "buyer_selected"
    BY Advanced DEF CreateOffer, RoomStatus
  <2>2. room' = [room EXCEPT !.status = Advance("offers_received")] /\ room \in RoomRow
    BY Typed DEF CreateOffer
  <2> HIDE DEF Advance
  <2> QED BY <2>1, <2>2 DEF RoomRow, SamePointers
<1>6. /\ offer[o].status = "none" /\ UNCHANGED <<coverage, assignment, closing, history>>
  BY DEF CreateOffer
<1> QED BY <1>2, <1>3, <1>4, <1>5, <1>6, OfferStep

LEMMA ReviseOfferStep ==
  ASSUME Instance, IInv, NEW s \in Reps, NEW o \in Offers, ReviseOffer(s, o)
  PROVE  IInv'
<1>1. PICK money \in Terms :
        offer' = [offer EXCEPT ![o].version = @ + 1, ![o].money = money]
  BY DEF ReviseOffer
<1> DEFINE q == [offer[o] EXCEPT !.version = @ + 1, !.money = money]
<1>2. q \in OfferRow /\ q.status = offer[o].status
  <2>1. offer[o] \in OfferRow
    BY Typed
  <2>2. offer[o].version + 1 \in 0..MaxVersion
    BY <2>1 DEF ReviseOffer, OfferRow, Instance
  <2> QED BY <2>1, <2>2 DEF OfferRow
<1>3. offer' = [offer EXCEPT ![o] = q]
  BY <1>1
<1> HIDE DEF q
<1>4. PICK r \in OfferRow : r = q
  BY <1>2
<1>5. /\ UNCHANGED <<coverage, assignment, closing, history>> /\ room' = room
      /\ offer[o].status # "closed" /\ (offer[o].status # "selected" \/ Unobliged({o}))
  BY DEF ReviseOffer, Viable
<1>6. room' \in RoomRow /\ SamePointers
  BY <1>5, Typed, PointersKept
<1> QED BY <1>2, <1>3, <1>4, <1>5, <1>6, OfferStep

LEMMA RecordNegotiationStep ==
  ASSUME Instance, IInv, NEW o \in Offers, RecordNegotiation(o)
  PROVE  IInv'
<1> DEFINE q == [offer[o] EXCEPT !.status = "countering"]
<1>1. q \in OfferRow /\ q.status = "countering" /\ q.version = offer[o].version
  BY Typed DEF OfferRow, OfferStatus, Viable
<1>2. offer' = [offer EXCEPT ![o] = q]
  BY DEF RecordNegotiation
<1> HIDE DEF q
<1>3. PICK r \in OfferRow : r = q
  BY <1>1
<1>4. /\ UNCHANGED <<coverage, assignment, closing, history>> /\ room' = room
      /\ offer[o].status = "received"
  BY DEF RecordNegotiation
<1>5. room' \in RoomRow /\ SamePointers
  BY <1>4, Typed, PointersKept
<1> QED BY <1>1, <1>2, <1>3, <1>4, <1>5, OfferStep

LEMMA OutcomeKinds ==
  ASSUME Instance, NEW why \in Reasons
  PROVE  Outcomes[why] \in OfferStatus \ {"selected", "closed", "none", "backup"}
<1>1. why \in DOMAIN Outcomes
  BY DEF Instance
<1>2. Outcomes[why] \in OfferStatus
  BY <1>1 DEF OfferStatus
<1>3. Outcomes[why] \in {"passed", "withdrawn", "fell_out", "countering"}
  <2>1. why \in {"pass", "withdrawal", "fallout", "missed_deadline", "retrade"}
    BY <1>1 DEF Outcomes
  <2>2. /\ Outcomes.pass = "passed" /\ Outcomes.withdrawal = "withdrawn"
        /\ Outcomes.fallout = "fell_out" /\ Outcomes.missed_deadline = "fell_out"
        /\ Outcomes.retrade = "countering"
    BY DEF Outcomes
  <2> QED BY <2>1, <2>2
<1> QED BY <1>2, <1>3

LEMMA AfterIs ==
  ASSUME Instance, IInv, NEW o \in Offers, NEW why \in Reasons
  PROVE  /\ After(o, why) \in [Offers -> OfferRow]
         /\ After(o, why)[o].status = Outcomes[why]
         /\ After(o, why)[o].version = offer[o].version
         /\ \A q \in Offers : q # o => After(o, why)[q] = offer[q]
<1> DEFINE retraded == IF why = "retrade" THEN offer[o].version ELSE offer[o].retraded
           r == [offer[o] EXCEPT !.status = Outcomes[why], !.retraded = retraded]
<1>1. After(o, why) = [offer EXCEPT ![o] = r]
  BY Typed DEF After
<1>2. Outcomes[why] \in OfferStatus
  BY OutcomeKinds
<1>3. offer[o] \in OfferRow /\ retraded \in 0..MaxVersion
  BY Typed DEF OfferRow
<1> HIDE DEF retraded
<1>4. r \in OfferRow /\ r.status = Outcomes[why] /\ r.version = offer[o].version
  BY <1>2, <1>3 DEF OfferRow
<1> HIDE DEF r
<1> QED BY <1>1, <1>4, Typed

LEMMA ChargedIs ==
  ASSUME IInv, NEW o \in Offers, NEW why, NEW cause
  PROVE  /\ Charged(o, why, cause) \in [Offers -> Credit]
         /\ \A q \in Offers : Charged(o, why, cause)[q].completed = history[q].completed
<1> DEFINE r == [history[o] EXCEPT !.failed = @ + 1]
<1>1. Charged(o, why, cause) \in {history, [history EXCEPT ![o] = r]}
  BY Typed DEF Charged
<1>2. r \in Credit /\ r.completed = history[o].completed
  <2>1. history[o] \in Credit /\ history[o].failed + 1 \in Nat
    BY Typed DEF Credit
  <2> QED BY <2>1 DEF Credit
<1> HIDE DEF r
<1> QED BY <1>1, <1>2, Typed

(* An offer that is not the primary one is lost. *)
LEMMA RecordOutcomeStep ==
  ASSUME Instance, IInv, NEW o \in Offers, NEW why \in Reasons, NEW cause,
         RecordOutcome(o, why, cause)
  PROVE  IInv'
<1>1. /\ offer[o].status \in Viable /\ ~(Current # 0 /\ coverage[Current].primary = o)
      /\ offer' = After(o, why) /\ history' = Charged(o, why, cause)
      /\ UNCHANGED <<coverage, assignment, closing>>
  BY DEF RecordOutcome
<1>2. offer[o].status \notin {"selected", "closed"}
  <2>1. offer[o].status = "selected" => o = IF Current = 0 THEN NoOffer
                                            ELSE coverage[Current].primary
    BY DEF IInv, Pointers
  <2> QED BY <1>1, <2>1 DEF Instance, Viable
<1>3. /\ room' \in RoomRow /\ room'.strategy = room.strategy /\ room'.buyer = room.buyer
      /\ room'.status = room.status
      /\ \/ room'.backup \in {room.backup, NoOffer}
         \/ Current # 0 /\ room'.backup \in coverage[Current].backups
  <2> DEFINE left == {b \in coverage[Current].backups \ {o} : offer[b].status = "backup"}
  <2>1. CASE Current # 0 /\ o \in coverage[Current].backups
    <3>1. PICK b \in IF left = {} THEN {NoOffer} ELSE left : room' = [room EXCEPT !.backup = b]
      BY <2>1 DEF RecordOutcome
    <3>2. coverage[Current].backups \subseteq Offers
      BY <2>1, CurrentIs DEF IInv, Selection
    <3>3. b = NoOffer \/ b \in coverage[Current].backups
      BY <3>1
    <3> QED BY <2>1, <3>1, <3>2, <3>3, Typed DEF RoomRow
  <2>2. CASE ~(Current # 0 /\ o \in coverage[Current].backups)
    BY <2>2, Typed DEF RecordOutcome
  <2> QED BY <2>1, <2>2
<1>4. RoomTyped'
  BY <1>1, <1>3, AfterIs, ChargedIs DEF IInv, RoomTyped
<1>5. SamePointers
  BY <1>3 DEF SamePointers
<1>6. SameSelected
  BY <1>1, <1>2, AfterIs, OutcomeKinds DEF SameSelected
<1>7. \A q \in Offers : offer'[q].version = offer[q].version
  BY <1>1, AfterIs
<1>8. SameCredits
  BY <1>1, ChargedIs DEF SameCredits
<1> QED BY <1>1, <1>4, <1>5, <1>6, <1>7, <1>8, QuietStep, SelectionsKept, ObligationsKept

(* The deposit checkpoint of the current selection. *)
LEMMA SyncCheckpointsStep ==
  ASSUME Instance, IInv, SyncCheckpoints
  PROVE  IInv'
<1>1. /\ Current # 0 /\ UNCHANGED <<room, offer, assignment, closing, history>>
      /\ coverage' = [coverage EXCEPT ![Current].deposit =
                                        Synced(@, offer[coverage[Current].primary])]
  BY DEF SyncCheckpoints
<1> DEFINE point == Synced(coverage[Current].deposit, offer[coverage[Current].primary])
<1>2. point \in Point
  <2>1. coverage[Current].deposit \in Point /\ offer[coverage[Current].primary] \in OfferRow
    BY <1>1, CurrentIs, Typed DEF IInv, Selection
  <2> QED BY <2>1, SyncedTyped
<1>3. coverage' = [coverage EXCEPT ![Current].deposit = point]
  BY <1>1
<1> HIDE DEF point
<1>4. PICK q \in Point : q = point
  BY <1>2
<1>5. SameSelections
  BY <1>1, <1>3, <1>4, DepositSet
<1>6. RoomTyped' /\ SameSelected
  BY <1>1, <1>5 DEF IInv, RoomTyped, SameSelections, SameSelected
<1> QED BY <1>1, <1>5, <1>6, QuietStep, ObligationsKept, PointersKept, CreditsKept

LEMMA SettleDepositStep ==
  ASSUME Instance, IInv, NEW how \in {"completed", "waived"}, SettleDeposit(how)
  PROVE  IInv'
<1>1. /\ Current # 0 /\ UNCHANGED <<room, assignment, closing, history>>
      /\ coverage' = [coverage EXCEPT ![Current].deposit = [status |-> how, note |-> TRUE]]
      /\ offer' = [offer EXCEPT ![coverage[Current].primary].paid = @ \/ how = "completed"]
  BY DEF SettleDeposit
<1>2. [status |-> how, note |-> TRUE] \in Point
  BY DEF Point, Settled
<1>3. SameSelections
  BY <1>1, <1>2, DepositSet
<1>4. PICK p \in Offers : coverage[Current].primary = p
  BY <1>1, CurrentIs DEF IInv, Selection
<1> DEFINE paid == offer[p].paid \/ how = "completed"
           r == [offer[p] EXCEPT !.paid = paid]
<1>5. paid \in BOOLEAN
  OBVIOUS
<1>6. offer' = [offer EXCEPT ![p] = r]
  BY <1>1, <1>4
<1> HIDE DEF paid
<1>7. r \in OfferRow /\ r.status = offer[p].status /\ r.version = offer[p].version
  BY <1>5, Typed DEF OfferRow
<1> HIDE DEF r
<1>8. /\ offer' \in [Offers -> OfferRow]
      /\ \A q \in Offers : /\ offer'[q].status = offer[q].status
                           /\ offer'[q].version = offer[q].version
  BY <1>6, <1>7, Typed
<1>9. RoomTyped' /\ SameSelected
  BY <1>1, <1>3, <1>8 DEF IInv, RoomTyped, SameSelections, SameSelected
<1> QED BY <1>1, <1>3, <1>8, <1>9, QuietStep, ObligationsKept, PointersKept, CreditsKept

-----------------------------------------------------------------------------
(* The assignment packages. *)

(* One package is drafted, passes a gate or is taken back. *)
LEMMA PackageStep ==
  ASSUME Instance, IInv, UNCHANGED <<room, offer, coverage, closing, history>>,
         NEW a \in Assignments, NEW r \in AssignmentRow,
         assignment' = [assignment EXCEPT ![a] = r], assignment[a].status # "executed",
         r.status \in Obliging => /\ Authority /\ Bound(a) /\ r.offer = assignment[a].offer
                                  /\ r.version = assignment[a].version
                                  /\ r.selection = assignment[a].selection
  PROVE  IInv'
<1>1. /\ assignment' \in [Assignments -> AssignmentRow] /\ assignment'[a] = r
      /\ \A b \in Assignments : b # a => assignment'[b] = assignment[b]
  BY Typed
<1>2. RoomTyped' /\ SameSelected
  BY <1>1 DEF IInv, RoomTyped, SameSelected
<1>3. SameObligations
  <2>1. ASSUME NEW b \in Assignments, closing = "open", assignment'[b].status \in Obliging
        PROVE  /\ Authority /\ Bound(b)
               /\ assignment'[b].offer = assignment[b].offer
               /\ assignment'[b].version = assignment[b].version
               /\ assignment'[b].selection = assignment[b].selection
    BY <1>1, <2>1 DEF IInv, LiveAssignmentIsBound
  <2> QED BY <1>1, <2>1 DEF SameObligations
<1> QED BY <1>2, <1>3, QuietStep, SelectionsKept, PointersKept, CreditsKept

LEMMA DraftAssignmentStep ==
  ASSUME Instance, IInv, NEW a \in Assignments, DraftAssignment(a)
  PROVE  IInv'
<1> DEFINE q == [status |-> "draft", offer |-> coverage[Current].primary,
                 version |-> coverage[Current].version, selection |-> Current]
<1>1. /\ assignment' = [assignment EXCEPT ![a] = q] /\ assignment[a].status = "none"
      /\ UNCHANGED <<room, offer, coverage, closing, history>> /\ Current # 0
  BY DEF DraftAssignment, Authority
<1>2. q \in AssignmentRow /\ q.status = "draft"
  BY <1>1, CurrentIs, Typed DEF IInv, AssignmentRow, Selection
<1> HIDE DEF q
<1>3. PICK r \in AssignmentRow : r = q
  BY <1>2
<1> QED BY <1>1, <1>2, <1>3, PackageStep DEF Obliging

LEMMA MarkedPackage ==
  ASSUME IInv, NEW a \in Assignments, NEW status \in {"draft", "pending_approval", "void"} \cup Obliging,
         assignment' = [assignment EXCEPT ![a].status = status]
  PROVE  \E r \in AssignmentRow :
           /\ assignment' = [assignment EXCEPT ![a] = r] /\ r.status = status
           /\ r.offer = assignment[a].offer /\ r.version = assignment[a].version
           /\ r.selection = assignment[a].selection
<1> DEFINE q == [assignment[a] EXCEPT !.status = status]
<1>1. /\ q \in AssignmentRow /\ q.status = status
      /\ q.offer = assignment[a].offer /\ q.version = assignment[a].version
      /\ q.selection = assignment[a].selection
  BY Typed DEF AssignmentRow
<1>2. assignment' = [assignment EXCEPT ![a] = q]
  OBVIOUS
<1> HIDE DEF q
<1> QED BY <1>1, <1>2

LEMMA PassGateStep ==
  ASSUME Instance, IInv, NEW a \in Assignments, NEW gate \in Gates, PassGate(a, gate)
  PROVE  IInv'
<1>1. /\ gate[1] # "executed" /\ gate[2] \in {"draft", "pending_approval", "void"} \cup Obliging
  BY DEF Gates, Obliging
<1>2. /\ assignment[a].status = gate[1] /\ Authority /\ Bound(a)
      /\ assignment' = [assignment EXCEPT ![a].status = gate[2]]
      /\ UNCHANGED <<room, offer, coverage, closing, history>>
  BY DEF PassGate
<1>3. PICK r \in AssignmentRow :
           /\ assignment' = [assignment EXCEPT ![a] = r] /\ r.status = gate[2]
           /\ r.offer = assignment[a].offer /\ r.version = assignment[a].version
           /\ r.selection = assignment[a].selection
  BY <1>1, <1>2, MarkedPackage
<1> QED BY <1>1, <1>2, <1>3, PackageStep

LEMMA TakeBackStep ==
  ASSUME Instance, IInv, NEW a \in Assignments, NEW back \in Backs, TakeBack(a, back)
  PROVE  IInv'
<1>1. /\ back[1] # "executed" /\ back[2] \notin Obliging
      /\ back[2] \in {"draft", "pending_approval", "void"} \cup Obliging
  BY DEF Backs, Obliging
<1>2. /\ assignment[a].status = back[1]
      /\ assignment' = [assignment EXCEPT ![a].status = back[2]]
      /\ UNCHANGED <<room, offer, coverage, closing, history>>
  BY DEF TakeBack
<1>3. PICK r \in AssignmentRow :
           /\ assignment' = [assignment EXCEPT ![a] = r] /\ r.status = back[2]
           /\ r.offer = assignment[a].offer /\ r.version = assignment[a].version
           /\ r.selection = assignment[a].selection
  BY <1>1, <1>2, MarkedPackage
<1> QED BY <1>1, <1>2, <1>3, PackageStep

LEMMA CancelDealStep ==
  ASSUME Instance, IInv, CancelDeal
  PROVE  IInv'
<1>1. /\ closing = "open" /\ closing' = "cancelled" /\ UNCHANGED <<room, offer, history>>
  BY DEF CancelDeal
<1>2. ASSUME NEW a \in Assignments
      PROVE  /\ assignment'[a] \in AssignmentRow
             /\ assignment[a].status = "executed" => assignment'[a] = assignment[a]
  <2>1. assignment'[a] = IF assignment[a].status \in Retired
                         THEN [assignment[a] EXCEPT !.status = "void"] ELSE assignment[a]
    BY DEF CancelDeal
  <2>2. assignment[a] \in AssignmentRow
    BY Typed
  <2> QED BY <2>1, <2>2 DEF AssignmentRow, Retired
<1>3. assignment' \in [Assignments -> AssignmentRow]
  <2>1. assignment' = [a \in Assignments |-> assignment'[a]]
    BY DEF CancelDeal
  <2> QED BY <1>2, <2>1
<1>4. ASSUME NEW i \in 1..Len(coverage)
      PROVE  /\ coverage'[i] \in Selection
             /\ coverage'[i].primary = coverage[i].primary
             /\ coverage'[i].backups = coverage[i].backups
             /\ coverage'[i].version = coverage[i].version
             /\ coverage'[i].active = coverage[i].active
             /\ coverage'[i].next = coverage[i].next
             /\ coverage'[i].deposit.status \in Settled \cup {"none"}
  <2> DEFINE point == Cancelled(coverage[i].deposit)
  <2>1. coverage'[i] = [coverage[i] EXCEPT !.deposit = point]
    BY Typed DEF CancelDeal
  <2>2. coverage[i] \in Selection
    BY Typed
  <2>3. point \in Point /\ point.status \in Settled \cup {"none"}
    BY <2>2, CancelledSettles DEF Selection
  <2> HIDE DEF point
  <2> QED BY <2>1, <2>2, <2>3 DEF Selection
<1>5. coverage' \in [1..Len(coverage) -> Selection]
  <2>1. coverage' = [i \in 1..Len(coverage) |-> coverage'[i]]
    BY Typed DEF CancelDeal
  <2> QED BY <1>4, <2>1
<1>6. coverage' \in Seq(Selection) /\ Len(coverage') = Len(coverage)
  BY <1>5, Typed, SeqMade
<1>7. SameSelections
  BY <1>4, <1>6, Typed DEF SameSelections
<1>8. RoomTyped' /\ SameSelected /\ SamePointers /\ SameCredits
  BY <1>1, <1>3, <1>6 DEF IInv, RoomTyped, SameSelected, SamePointers, SameCredits
<1>9. SameObligations
  BY <1>1, <1>2 DEF SameObligations
<1> QED BY <1>7, <1>8, <1>9, QuietStep

LEMMA ReconcileDealStep ==
  ASSUME Instance, IInv, ReconcileDeal
  PROVE  IInv'
<1>1. /\ closing = "funded" /\ room' = [room EXCEPT !.status = "reconciled"]
      /\ UNCHANGED <<offer, coverage, assignment, closing, history>>
  BY DEF ReconcileDeal
<1>2. /\ room' \in RoomRow /\ room'.strategy = room.strategy
      /\ room'.buyer = room.buyer /\ room'.backup = room.backup
  BY <1>1, Typed DEF RoomRow, RoomStatus
<1>3. RoomTyped' /\ SameSelected /\ SamePointers
  BY <1>1, <1>2 DEF IInv, RoomTyped, SameSelected, SamePointers
<1> QED BY <1>1, <1>3, QuietStep, SelectionsKept, ObligationsKept, CreditsKept

-----------------------------------------------------------------------------
(* The deal is funded. *)

LEMMA CloseFundedStep ==
  ASSUME Instance, IInv, CloseFunded
  PROVE  IInv'
<1>1. /\ closing = "open" /\ closing' = "funded" /\ Current # 0 /\ UNCHANGED <<room, assignment>>
  BY DEF CloseFunded
<1>2. PICK p \in Offers : coverage[Current].primary = p
  BY <1>1, CurrentIs DEF IInv, Selection
<1>3. PICK point \in Point : coverage' = [coverage EXCEPT ![Current].deposit = point]
  <2> DEFINE q == Cancelled(Synced(coverage[Current].deposit, offer[coverage[Current].primary]))
  <2>1. coverage[Current].deposit \in Point /\ offer[coverage[Current].primary] \in OfferRow
    BY <1>1, CurrentIs, Typed DEF IInv, Selection
  <2>2. q \in Point
    BY <2>1, SyncedTyped, CancelledSettles
  <2>3. coverage' = [coverage EXCEPT ![Current].deposit = q]
    BY DEF CloseFunded
  <2> QED BY <2>2, <2>3
<1>4. SameSelections
  BY <1>1, <1>3, DepositSet
<1>5. /\ offer' \in [Offers -> OfferRow] /\ offer'[p].status = "closed"
      /\ \A o \in Offers : o # p => offer'[o] = offer[o]
  <2> DEFINE r == [offer[p] EXCEPT !.status = "closed"]
  <2>1. r \in OfferRow /\ r.status = "closed"
    BY Typed DEF OfferRow, OfferStatus
  <2>2. offer' = [offer EXCEPT ![p] = r]
    BY <1>2 DEF CloseFunded
  <2> HIDE DEF r
  <2> QED BY <2>1, <2>2, Typed
<1>6. /\ history' \in [Offers -> Credit]
      /\ history'[p].completed = history[p].completed + 1
      /\ \A o \in Offers : o # p => history'[o] = history[o]
  <2> DEFINE r == [history[p] EXCEPT !.completed = @ + 1]
  <2>1. history[p] \in Credit /\ history[p].completed + 1 \in Nat
    BY Typed DEF Credit
  <2>2. r \in Credit /\ r.completed = history[p].completed + 1
    BY <2>1 DEF Credit
  <2>3. history' = [history EXCEPT ![p] = r]
    BY <1>2 DEF CloseFunded
  <2> HIDE DEF r
  <2> QED BY <2>2, <2>3, Typed
<1>7. RoomTyped'
  BY <1>1, <1>4, <1>5, <1>6 DEF IInv, RoomTyped, SameSelections
<1>8. /\ DOMAIN coverage' = DOMAIN coverage /\ Current' = Current /\ OnlyLast'
      /\ Current \in DOMAIN coverage
  BY <1>1, <1>4, CurrentKept, CurrentIs DEF IInv
<1>9. Pointers'
  <2>1. /\ coverage'[Current].primary = coverage[Current].primary
        /\ coverage'[Current].backups = coverage[Current].backups
    BY <1>8, <1>4 DEF SameSelections
  <2>2. \A o \in Offers : offer'[o].status = "selected" => offer[o].status = "selected"
    BY <1>5
  <2> QED BY <1>1, <1>8, <2>1, <2>2 DEF IInv, Pointers
<1>10. LiveAssignmentIsBound' /\ SupersededIsSettled'
  BY <1>1, <1>4, <1>8 DEF LiveAssignmentIsBound, SupersededIsSettled, SameSelections
<1>11. Credited'
  <2>1. \A o \in Offers : history[o].completed = 0
    BY <1>1 DEF IInv, Credited
  <2>2. \A o \in Offers : history'[o].completed = IF o = p THEN 1 ELSE 0
    BY <1>6, <2>1
  <2>3. room.strategy = "assignment" =>
          \E a \in Assignments : assignment[a].status = "executed" /\ assignment[a].offer = p
    BY <1>2 DEF CloseFunded, Bound
  <2> QED BY <1>1, <1>5, <2>2, <2>3 DEF Credited
<1> QED BY <1>7, <1>8, <1>9, <1>10, <1>11 DEF IInv

-----------------------------------------------------------------------------
(* The primary buyer is selected, replaced or let go. *)

LEMMA SelectedIs ==
  ASSUME NEW table \in [Offers -> OfferRow], NEW p \in Offers, NEW backups \in SUBSET (Offers \ {p})
  PROVE  /\ Selected(table, p, backups) \in [Offers -> OfferRow]
         /\ \A o \in Offers :
              /\ Selected(table, p, backups)[o].version = table[o].version
              /\ Selected(table, p, backups)[o].status =
                   IF o = p THEN "selected" ELSE IF o \in backups THEN "backup" ELSE table[o].status
<1>1. ASSUME NEW o \in Offers
      PROVE  /\ Selected(table, p, backups)[o] \in OfferRow
             /\ Selected(table, p, backups)[o].version = table[o].version
             /\ Selected(table, p, backups)[o].status =
                   IF o = p THEN "selected" ELSE IF o \in backups THEN "backup" ELSE table[o].status
  <2>1. Selected(table, p, backups)[o] =
           IF o = p THEN [table[o] EXCEPT !.status = "selected"]
           ELSE IF o \in backups THEN [table[o] EXCEPT !.status = "backup"]
           ELSE table[o]
    BY DEF Selected
  <2>2. table[o] \in OfferRow /\ {"selected", "backup"} \subseteq OfferStatus
    BY DEF OfferStatus, Viable
  <2> QED BY <2>1, <2>2 DEF OfferRow
<1>2. Selected(table, p, backups) = [o \in Offers |-> Selected(table, p, backups)[o]]
  BY DEF Selected
<1> QED BY <1>1, <1>2

(* New coverage: its selection is the last and only active one, and every  *)
(* other offer that was selected is so no longer.                          *)
LEMMA ApproveKeeps ==
  ASSUME Instance, IInv, NEW table \in [Offers -> OfferRow], NEW p \in Offers,
         NEW backups \in SUBSET (Offers \ {p}), InRoom, Approve(table, p, backups),
         UNCHANGED <<assignment, closing>>,
         \A o \in Offers : table[o].status = "selected" => o \in {p} \cup backups,
         closing = "funded" /\ room.strategy = "assignment" =>
           \A o \in Offers : offer[o].status = "closed" =>
                             table[o].status = "closed" /\ o \notin {p} \cup backups,
         history' \in [Offers -> Credit],
         \A o \in Offers : history'[o].completed = history[o].completed,
         \/ Unobliged(Offers)
         \/ Current # 0 /\ coverage[Current].primary = p /\ table[p].version = offer[p].version
         \/ Current = 0
  PROVE  IInv'
<1> DEFINE n == Len(coverage)
           made == Selected(table, p, backups)
           old == Superseded(n + 1)
<1>1. /\ n \in Nat /\ DOMAIN coverage = 1..n /\ n + 1 \in 0..MaxSelections
  BY Typed DEF Approve, Instance
<1>2. /\ old \in Seq(Selection) /\ Len(old) = n
      /\ \A i \in 1..n : /\ ~old[i].active /\ old[i].deposit.status \in Settled \cup {"none"}
                         /\ old[i].next = IF i = Current THEN n + 1 ELSE coverage[i].next
  BY <1>1, SupersededIs
<1>3. /\ made \in [Offers -> OfferRow]
      /\ \A o \in Offers :
              /\ made[o].version = table[o].version
              /\ made[o].status = IF o = p THEN "selected" ELSE IF o \in backups THEN "backup"
                                  ELSE table[o].status
  BY SelectedIs
<1>4. PICK row \in Selection :
        /\ coverage' = Append(old, row)
        /\ row.primary = p /\ row.backups = backups /\ row.version = made[p].version /\ row.active
  <2> DEFINE point == Synced(Unpointed, made[p])
             q == [primary |-> p, backups |-> backups, version |-> made[p].version,
                   active |-> TRUE, next |-> 0, deposit |-> point]
  <2>1. point \in Point
    BY <1>3, SyncedTyped DEF Unpointed, Point, Settled
  <2>2. coverage' = Append(old, q)
    BY DEF Approve
  <2>3. made[p].version \in 0..MaxVersion /\ backups \in SUBSET Offers /\ 0 \in 0..MaxSelections
    BY <1>3 DEF OfferRow, Instance
  <2> HIDE DEF point, made, old, n
  <2>4. q \in Selection
    BY <2>1, <2>3 DEF Selection
  <2> QED BY <2>2, <2>4
<1>5. /\ offer' = made
      /\ \E b \in IF backups = {} THEN {NoOffer} ELSE backups :
           room' = [room EXCEPT !.status = Advance("buyer_selected"), !.buyer = p, !.backup = b]
  BY DEF Approve
<1> HIDE DEF n, made, old
<1>6. /\ coverage' \in Seq(Selection) /\ Len(coverage') = n + 1
      /\ coverage'[n + 1] = row
      /\ \A i \in 1..n : coverage'[i] = old[i]
  BY <1>1, <1>2, <1>4
<1>7. DOMAIN coverage' = 1..(n + 1)
  BY <1>6, LenProperties
<1>8. /\ room' \in RoomRow /\ room'.strategy = room.strategy /\ room'.status = "buyer_selected"
      /\ room'.buyer = p /\ room'.backup \in backups \cup {NoOffer}
  <2>1. Advance("buyer_selected") = "buyer_selected"
    BY Advanced
  <2>2. PICK b \in IF backups = {} THEN {NoOffer} ELSE backups :
           room' = [room EXCEPT !.status = "buyer_selected", !.buyer = p, !.backup = b]
    BY <1>5, <2>1
  <2> QED BY <2>2, Typed DEF RoomRow, RoomStatus
<1>9. RoomTyped'
  BY <1>3, <1>5, <1>6, <1>8 DEF IInv, RoomTyped
<1>10. OnlyLast'
  BY <1>1, <1>2, <1>6, <1>7 DEF OnlyLast
<1>11. Current' = n + 1
  <2>1. Len(coverage') # 0 /\ coverage'[Len(coverage')].active
    BY <1>1, <1>4, <1>6
  <2> QED BY <1>6, <1>9, <1>10, <2>1, CurrentNext
<1>12. coverage'[Current'].primary = p /\ coverage'[Current'].backups = backups
       /\ coverage'[Current'].version = offer'[p].version
  BY <1>4, <1>5, <1>6, <1>11
<1>13. Pointers'
  <2>1. \A o \in Offers : offer'[o].status = "selected" <=> o = p
    BY <1>3, <1>5
  <2> QED BY <1>1, <1>8, <1>11, <1>12, <2>1 DEF Pointers
<1>14. SupersededIsSettled'
  BY <1>1, <1>2, <1>4, <1>6, <1>7 DEF SupersededIsSettled
<1>15. LiveAssignmentIsBound'
  <2> SUFFICES ASSUME closing = "open", NEW a \in Assignments, assignment[a].status \in Obliging
               PROVE  Authority' /\ Bound(a)'
    BY DEF LiveAssignmentIsBound
  <2>1. Authority /\ Bound(a)
    BY DEF IInv, LiveAssignmentIsBound
  <2>2. /\ Current = n /\ Current # 0 /\ Current \in DOMAIN coverage
        /\ assignment[a].offer = coverage[Current].primary /\ assignment[a].offer \in Offers
    BY <2>1, CurrentIs DEF IInv, Authority, Bound, Selection, n
  <2>3. coverage[Current].primary = p /\ table[p].version = offer[p].version
    BY <2>2 DEF Unobliged
  <2>4. offer'[p].version = offer[p].version /\ offer'[p].status = "selected"
    BY <1>3, <1>5, <2>3
  <2>5. Authority'
    BY <1>1, <1>8, <1>11, <1>12, <2>1, <2>4 DEF Authority
  <2>6. Leads(assignment[a].selection, Current)'
    <3>1. /\ assignment[a].selection \in 1..n
          /\ \A k \in assignment[a].selection..(n - 1) : coverage[k].next = k + 1
      BY <2>1, <2>2 DEF Bound, Leads
    <3>2. ASSUME NEW k \in assignment[a].selection..n PROVE coverage'[k].next = k + 1
      BY <1>1, <1>2, <1>6, <2>2, <3>1, <3>2
    <3> QED BY <1>1, <1>11, <3>1, <3>2 DEF Leads
  <2>7. Bound(a)'
    BY <1>1, <1>11, <1>12, <2>1, <2>2, <2>3, <2>4, <2>6 DEF Bound, Leads
  <2> QED BY <2>5, <2>7
<1>16. Credited'
  <2>1. closing = "funded" /\ room.strategy = "assignment" =>
          \A o \in Offers : offer[o].status = "closed" => offer'[o].status = "closed"
    BY <1>3, <1>5
  <2> QED BY <1>8, <2>1 DEF IInv, Credited
<1> QED BY <1>9, <1>10, <1>13, <1>14, <1>15, <1>16 DEF IInv

LEMMA SelectBuyersStep ==
  ASSUME Instance, IInv, NEW s \in Reps, NEW p \in Offers, NEW backups \in SUBSET (Offers \ {p}),
         SelectBuyers(s, p, backups)
  PROVE  IInv'
<1> DEFINE dropped == {o \in Slots(Current) \ ({p} \cup backups) :
                         offer[o].status \in {"selected", "backup"}}
           table == [o \in Offers |-> IF o \in dropped
                                      THEN [offer[o] EXCEPT !.status = "received", !.version = @ + 1]
                                      ELSE offer[o]]
<1>1. /\ InRoom /\ Approve(table, p, backups) /\ UNCHANGED <<assignment, closing, history>>
      /\ Current # 0 /\ coverage[Current].primary # p => Unobliged(Offers)
      /\ \A o \in {p} \cup backups : offer[o].status \in Viable
      /\ \A o \in dropped : offer[o].version < MaxVersion
  BY DEF SelectBuyers
<1>2. ASSUME NEW o \in Offers
      PROVE  /\ table[o] \in OfferRow
             /\ o \notin dropped => table[o] = offer[o]
             /\ o \in dropped => table[o].status = "received"
  <2>1. offer[o] \in OfferRow
    BY Typed
  <2>2. CASE o \in dropped
    <3>0. offer[o].version < MaxVersion
      BY <1>1, <2>2
    <3>1. offer[o].version + 1 \in 0..MaxVersion /\ "received" \in OfferStatus
      <4> HIDE DEF dropped, table
      <4> QED BY <2>1, <3>0 DEF OfferRow, OfferStatus, Viable, Instance
    <3>2. table[o] = [offer[o] EXCEPT !.status = "received", !.version = @ + 1]
      BY <2>2
    <3> HIDE DEF dropped
    <3> QED BY <2>1, <2>2, <3>1, <3>2 DEF OfferRow
  <2>3. CASE o \notin dropped
    BY <2>1, <2>3
  <2> QED BY <2>2, <2>3
<1>3. table \in [Offers -> OfferRow]
  BY <1>2
<1>4. ASSUME NEW o \in Offers, table[o].status = "selected"
      PROVE  o \in {p} \cup backups
  <2>1. o \notin dropped /\ offer[o].status = "selected"
    BY <1>2, <1>4
  <2>2. Current # 0 /\ o = coverage[Current].primary
    BY <2>1 DEF IInv, Pointers, Instance
  <2> QED BY <2>1, <2>2 DEF Slots
<1>5. ASSUME NEW o \in Offers, offer[o].status = "closed"
      PROVE  table[o].status = "closed" /\ o \notin {p} \cup backups
  BY <1>1, <1>2, <1>5 DEF Viable
<1>6. table[p].version = offer[p].version
  BY <1>2
<1> HIDE DEF table
<1>7. PICK t \in [Offers -> OfferRow] : t = table
  BY <1>3
<1>8. history' \in [Offers -> Credit] /\ \A o \in Offers : history'[o].completed = history[o].completed
  BY <1>1, Typed
<1>9. UNCHANGED <<assignment, closing>>
  BY <1>1
<1> QED BY <1>1, <1>4, <1>5, <1>6, <1>7, <1>8, <1>9, ApproveKeeps

(* Under the assignment strategy nothing is replaced after the close: the  *)
(* executed assignment stands in the way.                                  *)
LEMMA NotAfterClose ==
  ASSUME IInv, Unobliged(Offers)
  PROVE  ~(closing = "funded" /\ room.strategy = "assignment")
  BY DEF IInv, Credited, Unobliged, Obliging

LEMMA ReplacePrimaryStep ==
  ASSUME Instance, IInv, NEW s \in Reps, NEW r \in Offers, NEW why \in Reasons, NEW cause,
         ReplacePrimary(s, r, why, cause)
  PROVE  IInv'
<1>1. Current # 0 /\ room.status = "buyer_selected"
  BY DEF ReplacePrimary
<1>2. PICK old \in Offers : coverage[Current].primary = old
  BY <1>1, CurrentIs DEF IInv, Selection
<1> DEFINE table == After(old, why)
           left == {o \in coverage[Current].backups \ {r} : offer[o].status \in Viable}
<1>3. /\ Approve(table, r, left) /\ UNCHANGED <<assignment, closing>> /\ Unobliged(Offers)
      /\ r # old /\ history' = Charged(old, why, cause)
  BY <1>2 DEF ReplacePrimary
<1>4. /\ table \in [Offers -> OfferRow] /\ table[old].status # "selected"
      /\ \A o \in Offers : o # old => table[o] = offer[o]
  BY AfterIs, OutcomeKinds
<1>5. left \in SUBSET (Offers \ {r})
  BY <1>1, CurrentIs DEF IInv, Selection
<1>6. \A o \in Offers : table[o].status # "selected"
  <2>1. \A o \in Offers : offer[o].status = "selected" => o = old
    BY <1>1, <1>2 DEF IInv, Pointers
  <2> QED BY <1>4, <2>1
<1>7. InRoom
  BY <1>1 DEF InRoom
<1>8. history' \in [Offers -> Credit] /\ \A o \in Offers : history'[o].completed = history[o].completed
  BY <1>3, ChargedIs
<1>9. ~(closing = "funded" /\ room.strategy = "assignment")
  BY <1>3, NotAfterClose
<1> HIDE DEF table, left
<1>10. PICK t \in [Offers -> OfferRow], b \in SUBSET (Offers \ {r}) : t = table /\ b = left
  BY <1>4, <1>5
<1> QED BY <1>3, <1>6, <1>7, <1>8, <1>9, <1>10, ApproveKeeps

LEMMA ReopenShoppingStep ==
  ASSUME Instance, IInv, NEW s \in Reps, NEW why \in Reasons, NEW cause,
         ReopenShopping(s, why, cause)
  PROVE  IInv'
<1>1. /\ Current # 0 /\ Unobliged(Offers) /\ UNCHANGED <<assignment, closing>>
      /\ coverage' = Superseded(0)
      /\ room' = [room EXCEPT !.status = "offers_received", !.buyer = NoOffer, !.backup = NoOffer]
  BY DEF ReopenShopping
<1>2. PICK old \in Offers : coverage[Current].primary = old
  BY <1>1, CurrentIs DEF IInv, Selection
<1>3. /\ history' = Charged(old, why, cause)
      /\ offer' = [o \in Offers |->
                      IF o \in coverage[Current].backups /\ After(old, why)[o].status = "backup"
                      THEN [After(old, why)[o] EXCEPT !.status = "received"]
                      ELSE After(old, why)[o]]
  BY <1>2 DEF ReopenShopping
<1>4. PICK table \in [Offers -> OfferRow] : table = After(old, why)
  BY AfterIs
<1>5. ASSUME NEW o \in Offers
      PROVE  offer'[o] \in OfferRow /\ offer'[o].status # "selected"
  <2>1. table[o].status # "selected"
    <3>1. offer[o].status = "selected" => o = old
      BY <1>1, <1>2 DEF IInv, Pointers
    <3> QED BY <1>4, <3>1, AfterIs, OutcomeKinds
  <2>2. offer'[o] \in {table[o], [table[o] EXCEPT !.status = "received"]}
    BY <1>3, <1>4
  <2>3. table[o] \in OfferRow /\ "received" \in OfferStatus
    BY DEF OfferStatus, Viable
  <2> QED BY <2>1, <2>2, <2>3 DEF OfferRow
<1>6. offer' \in [Offers -> OfferRow]
  <2>1. offer' = [o \in Offers |-> offer'[o]]
    BY <1>3
  <2> QED BY <1>5, <2>1
<1>7. /\ coverage' \in Seq(Selection) /\ Len(coverage') = Len(coverage)
      /\ \A i \in 1..Len(coverage) : /\ ~coverage'[i].active
                                     /\ coverage'[i].deposit.status \in Settled \cup {"none"}
  <2>1. 0 \in 0..MaxSelections
    BY DEF Instance
  <2> QED BY <1>1, <2>1, SupersededIs
<1>8. DOMAIN coverage' = 1..Len(coverage)
  BY <1>7, LenProperties
<1>9. /\ room' \in RoomRow /\ room'.strategy = room.strategy
      /\ room'.buyer = NoOffer /\ room'.backup = NoOffer
  BY <1>1, Typed DEF RoomRow, RoomStatus
<1>10. history' \in [Offers -> Credit] /\ \A o \in Offers : history'[o].completed = history[o].completed
  BY <1>3, ChargedIs
<1>11. RoomTyped'
  BY <1>1, <1>6, <1>7, <1>9, <1>10 DEF IInv, RoomTyped
<1>12. OnlyLast'
  BY <1>7, <1>8 DEF OnlyLast
<1>13. Current' = 0
  <2>1. ~(Len(coverage') # 0 /\ coverage'[Len(coverage')].active)
    BY <1>7, Typed
  <2> QED BY <1>11, <1>12, <2>1, CurrentNext
<1>14. Pointers'
  BY <1>5, <1>9, <1>13 DEF Pointers
<1>15. SupersededIsSettled'
  BY <1>7, <1>8 DEF SupersededIsSettled
<1>16. LiveAssignmentIsBound'
  <2>1. ASSUME NEW a \in Assignments, closing = "open"
        PROVE  assignment[a].status \notin Obliging
    <3> SUFFICES ASSUME assignment[a].status \in Obliging PROVE FALSE
      OBVIOUS
    <3>1. Authority /\ Bound(a)
      BY <2>1 DEF IInv, LiveAssignmentIsBound
    <3> QED BY <1>1, <1>2, <3>1 DEF Bound, Unobliged
  <2> QED BY <1>1, <2>1 DEF LiveAssignmentIsBound
<1>17. Credited'
  <2>1. ~(closing = "funded" /\ room.strategy = "assignment")
    BY <1>1, NotAfterClose
  <2> QED BY <1>1, <1>9, <1>10, <2>1 DEF IInv, Credited
<1> QED BY <1>11, <1>12, <1>14, <1>15, <1>16, <1>17 DEF IInv

-----------------------------------------------------------------------------
(* The specification. *)

LEMMA InitHolds ==
  ASSUME Instance, RoomInit
  PROVE  IInv
<1>1. RoomTyped
  <2>1. room \in RoomRow
    BY DEF RoomInit, RoomRow, RoomStatus
  <2>2. offer \in [Offers -> OfferRow]
    BY DEF RoomInit, OfferRow, OfferStatus, Instance
  <2>3. coverage \in Seq(Selection)
    BY EmptySeq DEF RoomInit
  <2>4. assignment \in [Assignments -> AssignmentRow]
    BY DEF RoomInit, AssignmentRow, Instance
  <2>5. history \in [Offers -> Credit]
    BY DEF RoomInit, Credit
  <2> QED BY <2>1, <2>2, <2>3, <2>4, <2>5 DEF RoomInit, RoomTyped
<1>2. Len(coverage) = 0 /\ DOMAIN coverage = {}
  BY EmptySeq DEF RoomInit
<1>3. OnlyLast /\ SupersededIsSettled
  BY <1>2 DEF OnlyLast, SupersededIsSettled
<1>4. Current = 0
  BY <1>1, <1>2, <1>3, CurrentIs
<1>5. Pointers
  BY <1>4 DEF RoomInit, Pointers
<1>6. LiveAssignmentIsBound
  BY DEF RoomInit, LiveAssignmentIsBound, Obliging
<1>7. Credited
  BY DEF RoomInit, Credited
<1> QED BY <1>1, <1>3, <1>5, <1>6, <1>7 DEF IInv

LEMMA NextHolds ==
  ASSUME Instance, IInv, [RoomNext]_roomVars
  PROVE  IInv'
<1>1. CASE (\E s \in Reps : ReadWorkspace(s)) \/ UNCHANGED roomVars
  BY <1>1, RestStep DEF ReadWorkspace, roomVars
<1>2. CASE \E o \in Offers : CreateOffer(o) \/ RecordNegotiation(o)
  BY <1>2, CreateOfferStep, RecordNegotiationStep
<1>3. CASE \E s \in Reps, o \in Offers : ReviseOffer(s, o)
  BY <1>3, ReviseOfferStep
<1>4. CASE \E s \in Reps, p \in Offers : \E backups \in SUBSET (Offers \ {p}) :
             SelectBuyers(s, p, backups)
  BY <1>4, SelectBuyersStep
<1>5. CASE \E why \in Reasons, cause \in {"buyer", "external"} :
             \/ \E s \in Reps : ReopenShopping(s, why, cause)
             \/ \E s \in Reps, r \in Offers : ReplacePrimary(s, r, why, cause)
             \/ \E o \in Offers : RecordOutcome(o, why, cause)
  BY <1>5, ReopenShoppingStep, ReplacePrimaryStep, RecordOutcomeStep
<1>6. CASE SyncCheckpoints \/ \E how \in {"completed", "waived"} : SettleDeposit(how)
  BY <1>6, SyncCheckpointsStep, SettleDepositStep
<1>7. CASE \E a \in Assignments :
             \/ DraftAssignment(a)
             \/ \E gate \in Gates : PassGate(a, gate)
             \/ \E back \in Backs : TakeBack(a, back)
  BY <1>7, DraftAssignmentStep, PassGateStep, TakeBackStep
<1>8. CASE CloseFunded \/ CancelDeal \/ ReconcileDeal
  BY <1>8, CloseFundedStep, CancelDealStep, ReconcileDealStep
<1> QED BY <1>1, <1>2, <1>3, <1>4, <1>5, <1>6, <1>7, <1>8 DEF RoomNext

(* IInv is an inductive invariant of the offer room. *)
LEMMA Invariance == ASSUME Instance PROVE RoomSpec => []IInv
<1>1. RoomInit => IInv
  BY InitHolds
<1>2. IInv /\ [RoomNext]_roomVars => IInv'
  BY NextHolds
<1> QED BY <1>1, <1>2, PTL DEF RoomSpec

(* One buyer holds the deal: after any order of revisions, replacements,   *)
(* lost backups, reopened shopping and the close, sent from screens that   *)
(* may be out of date, the case, its only active selection and the offers  *)
(* name the same primary, and the backup on the case is one of its backups.*)
THEOREM OneBuyer == ASSUME Instance PROVE RoomSpec => []OneBuyerHoldsTheDeal
<1>1. IInv => OneBuyerHoldsTheDeal
  <2> SUFFICES ASSUME IInv PROVE OneBuyerHoldsTheDeal
    OBVIOUS
  <2>1. Cardinality(Active) <= 1
    <3>1. Active = {} \/ Active = {Len(coverage)}
      BY CurrentIs DEF IInv
    <3>2. Cardinality({}) = 0 /\ Cardinality({Len(coverage)}) = 1
      BY FS_EmptySet, FS_Singleton
    <3>3. CASE Active = {}
      BY <3>2, <3>3
    <3>4. CASE Active = {Len(coverage)}
      BY <3>2, <3>4
    <3> QED BY <3>1, <3>3, <3>4
  <2> QED BY <2>1 DEF IInv, Pointers, PrimaryAgrees, OneBuyerHoldsTheDeal
<1> QED BY <1>1, Invariance, PTL

(* While the deal is open, an assignment that is approved, with the buyer  *)
(* or executed binds the primary buyer of the current selection on the     *)
(* terms it was drafted on: the lock-version checks, the obligation check  *)
(* and the chain of superseded selections together leave no live agreement *)
(* with somebody else.                                                     *)
THEOREM LiveAssignmentsStayBound == ASSUME Instance PROVE RoomSpec => []LiveAssignmentIsBound
<1>1. IInv => LiveAssignmentIsBound
  BY DEF IInv
<1> QED BY <1>1, Invariance, PTL

(* Coverage that was replaced has nothing left to watch: no later sync of  *)
(* the checkpoints brings a replaced buyer's deposit deadline back.        *)
THEOREM ReplacedCoverageIsSettled == ASSUME Instance PROVE RoomSpec => []SupersededIsSettled
<1>1. IInv => SupersededIsSettled
  BY DEF IInv
<1> QED BY <1>1, Invariance, PTL

(* A buyer is credited once for the deal and nobody else is, and under the *)
(* assignment strategy the credited buyer's offer stays closed: the        *)
(* executed assignment keeps every later command from recording it lost.   *)
THEOREM CreditsAreFinal == ASSUME Instance PROVE RoomSpec => []CreditedOnce
<1>1. IInv => CreditedOnce
  <2> SUFFICES ASSUME IInv PROVE CreditedOnce
    OBVIOUS
  <2> DEFINE credited == {o \in Offers : history[o].completed > 0}
  <2>1. \A o \in Offers : history[o].completed \in Nat
    BY Typed DEF Credit
  <2>2. Cardinality(credited) <= 1
    <3>1. \A o, q \in credited : o = q
      BY <2>1 DEF IInv, Credited
    <3>2. credited = {} \/ \E o \in Offers : credited = {o}
      BY <3>1
    <3>3. Cardinality({}) = 0 /\ \A o : Cardinality({o}) = 1
      BY FS_EmptySet, FS_Singleton
    <3> HIDE DEF credited
    <3> QED BY <3>2, <3>3
  <2>3. ASSUME NEW o \in Offers
        PROVE  /\ history[o].completed <= 1
               /\ room.strategy = "assignment" /\ history[o].completed = 1 =>
                    offer[o].status = "closed"
    BY <2>1 DEF IInv, Credited
  <2> QED BY <2>2, <2>3 DEF CreditedOnce
<1> QED BY <1>1, Invariance, PTL
=============================================================================
