------------------------------ MODULE OfferRoom ------------------------------
(***************************************************************************)
(* The offer room of one House disposition case                            *)
(* (services/disposition_offer_room.py): buyers' offers and their          *)
(* revisions, the approved buyer coverage, the assignment packages bound   *)
(* to it, the primary buyer's deposit and the funded close.  Every command *)
(* runs under the case lock, so a command is one step; what races is what  *)
(* staff have on their screens when they send it.                          *)
(***************************************************************************)
EXTENDS Naturals, FiniteSets, Sequences

CONSTANTS Offers,         \* offers, each of a different buyer
          Reps,          \* disposition representatives
          Assignments,    \* assignment packages of the transaction
          Strategies,     \* bound: strategies of the case that are explored
          Terms,          \* bound: earnest money terms that are explored
          Reasons,        \* bound: outcomes of a lost buyer that are explored
          MaxVersion,     \* bound: revisions of an offer
          MaxSelections,  \* bound: versions of the buyer coverage
          NoOffer

VARIABLES room,        \* DispositionCase: status, strategy, primary, backup
          offer,       \* BuyerOffer: status, lock version, earnest money, deposit received
          coverage,    \* DispositionBuyerSelection with its slots and deposit checkpoint
          assignment,  \* ContractPackage of type assignment_contract with its binding
          closing,     \* status of the transaction
          history,     \* what the outcomes have added to the buyers' history
          screen       \* per member of staff: the selection read last, and the offers
                       \* whose lock version has not changed since

roomVars == <<room, offer, coverage, assignment, closing, history, screen>>

Viable == {"received", "countering", "backup", "selected"}
Settled == {"completed", "waived", "cancelled"}
Obliging == {"approved", "sending", "sent", "executed"}
Outcomes == [pass |-> "passed", withdrawal |-> "withdrawn", fallout |-> "fell_out",
             missed_deadline |-> "fell_out", retrade |-> "countering"]
OfferStatus == {"none", "closed"} \cup Viable \cup {Outcomes[x] : x \in DOMAIN Outcomes}

RoomInit ==
    /\ room \in [status : {"marketed"}, strategy : Strategies,
                 buyer : {NoOffer}, backup : {NoOffer}]
    /\ offer = [o \in Offers |-> [status |-> "none", version |-> 0, money |-> "unknown",
                                  paid |-> FALSE, retraded |-> 0]]
    /\ coverage = << >>
    /\ assignment = [a \in Assignments |-> [status |-> "none", offer |-> NoOffer,
                                            version |-> 0, selection |-> 0]]
    /\ closing = "open"
    /\ history = [o \in Offers |-> [completed |-> 0, failed |-> 0]]
    /\ screen = [s \in Reps |-> [selection |-> 0, fresh |-> {}]]

(* The number of the active selection, 0 when there is none.               *)
Active == {i \in DOMAIN coverage : coverage[i].active}
Current == IF Active = {} THEN 0 ELSE CHOOSE i \in Active : TRUE
InRoom == room.status \in {"marketed", "offers_received", "buyer_selected"}
Advance(milestone) ==
    LET rank == [marketed |-> 2, offers_received |-> 3, buyer_selected |-> 4]
    IN IF rank[milestone] > rank[room.status] THEN milestone ELSE room.status

(* _require_no_live_assignment_obligation, for one offer or for any.       *)
Unobliged(of) ==
    \A a \in Assignments : ~ (assignment[a].status \in Obliging /\ assignment[a].offer \in of)

(* A member of staff opens the offer room.                                 *)
ReadWorkspace(s) ==
    /\ screen' = [screen EXCEPT ![s] =
                    [selection |-> Current,
                     fresh |-> {o \in Offers : offer[o].status # "none"}]]
    /\ UNCHANGED <<room, offer, coverage, assignment, closing, history>>

(* The request's expected lock version of offer o is the current one.      *)
Known(s, o) == o \in screen[s].fresh
Changed(os) == screen' = [s \in Reps |-> [screen[s] EXCEPT !.fresh = @ \ os]]

CreateOffer(o) ==
    /\ InRoom
    /\ offer[o].status = "none"
    /\ \E money \in Terms :
         offer' = [offer EXCEPT ![o].status = "received", ![o].version = 1, ![o].money = money]
    /\ room' = [room EXCEPT !.status = Advance("offers_received")]
    /\ UNCHANGED <<coverage, assignment, closing, history, screen>>

(* Faulty: the selected offer's terms change under a live agreement.       *)
ReviseObliged(s, o) ==
    /\ InRoom
    /\ offer[o].status \in Viable
    /\ Known(s, o)
    /\ offer[o].version < MaxVersion
    /\ \E money \in Terms :
         offer' = [offer EXCEPT ![o].version = @ + 1, ![o].money = money]
    /\ Changed({o})
    /\ UNCHANGED <<room, coverage, assignment, closing, history>>

ReviseOffer(s, o) ==
    /\ InRoom
    /\ offer[o].status \in Viable
    /\ Known(s, o)
    /\ offer[o].status = "selected" => Unobliged({o})
    /\ offer[o].version < MaxVersion
    /\ \E money \in Terms :
         offer' = [offer EXCEPT ![o].version = @ + 1, ![o].money = money]
    /\ Changed({o})
    /\ UNCHANGED <<room, coverage, assignment, closing, history>>

RecordNegotiation(o) ==
    /\ InRoom
    /\ offer[o].status = "received"
    /\ offer' = [offer EXCEPT ![o].status = "countering"]
    /\ UNCHANGED <<room, coverage, assignment, closing, history, screen>>

(* The deposit checkpoint of a selection after _sync_canonical_checkpoints *)
(* with the terms t of its primary offer.                                  *)
Synced(point, t) ==
    LET derived == IF t.paid THEN "completed" ELSE "pending" IN
    CASE t.money = "zero" /\ point.status \in Settled \cup {"none"} -> point
      [] t.money = "zero" /\ point.status = "pending" -> [point EXCEPT !.status = "cancelled"]
      [] t.money # "zero" /\ point.status = "waived" /\ ~ t.paid -> point
      [] OTHER -> [point EXCEPT !.status = derived]

Cancelled(point) ==
    IF point.status \in Settled \cup {"none"} THEN point ELSE [point EXCEPT !.status = "cancelled"]
Unpointed == [status |-> "none", note |-> FALSE]

(* _create_selection_record over the offers as they are in table, then     *)
(* _cancel_selection_checkpoints of the old one and the sync of the new.   *)
(* Faulty: a backup is marked as selected too.                             *)
SelectedAll(table, p, backups) ==
    [o \in Offers |-> IF o \in {p} \cup backups THEN [table[o] EXCEPT !.status = "selected"]
                      ELSE table[o]]
Selected(table, p, backups) ==
    [o \in Offers |-> IF o = p THEN [table[o] EXCEPT !.status = "selected"]
                      ELSE IF o \in backups THEN [table[o] EXCEPT !.status = "backup"]
                      ELSE table[o]]
(* Faulty: the replaced selection's checkpoints stay open.                 *)
SupersededOpen(next) ==
    [i \in DOMAIN coverage |->
       IF i # Current THEN coverage[i]
       ELSE [coverage[i] EXCEPT !.active = FALSE, !.next = next]]
Superseded(next) ==
    [i \in DOMAIN coverage |->
       IF i # Current THEN coverage[i]
       ELSE [coverage[i] EXCEPT !.active = FALSE, !.next = next, !.deposit = Cancelled(@)]]
Approve(table, p, backups) ==
    LET made == Selected(table, p, backups) IN
    /\ Len(coverage) < MaxSelections
    /\ offer' = made
    /\ coverage' = Append(Superseded(Len(coverage) + 1),
                          [primary |-> p, backups |-> backups, version |-> made[p].version,
                           active |-> TRUE, next |-> 0,
                           deposit |-> Synced(Unpointed, made[p])])
    /\ \E b \in IF backups = {} THEN {NoOffer} ELSE backups :
         room' = [room EXCEPT !.status = Advance("buyer_selected"), !.buyer = p, !.backup = b]

Slots(i) == IF i = 0 THEN {} ELSE {coverage[i].primary} \cup coverage[i].backups

(* select_buyers: the request carries the lock versions of the offers and  *)
(* the lock version of the selection on the screen, which is 1 for every   *)
(* active selection, so that it tells a selection only from none.          *)
SelectBuyers(s, p, backups) ==
    LET dropped == {o \in Slots(Current) \ ({p} \cup backups) :
                      offer[o].status \in {"selected", "backup"}}
    IN /\ InRoom
       /\ Current # 0 /\ coverage[Current].primary # p => Unobliged(Offers)
       /\ \A o \in {p} \cup backups : Known(s, o) /\ offer[o].status \in Viable
       /\ screen[s].selection = 0 <=> Current = 0
       /\ \A o \in dropped : offer[o].version < MaxVersion
       /\ Approve([o \in Offers |-> IF o \in dropped
                                    THEN [offer[o] EXCEPT !.status = "received",
                                                          !.version = @ + 1]
                                    ELSE offer[o]],
                  p, backups)
       /\ Changed(dropped)
       /\ UNCHANGED <<assignment, closing, history>>

(* _record_outcome_locked on the offer table and on the buyers' history.   *)
MayRecord(o, why) == why = "retrade" => offer[o].retraded # offer[o].version
After(o, why) ==
    [offer EXCEPT ![o].status = Outcomes[why],
                  ![o].retraded = IF why = "retrade" THEN offer[o].version ELSE @]
Charged(o, why, cause) ==
    IF cause = "buyer" /\ why \in {"fallout", "withdrawal", "missed_deadline"}
    THEN [history EXCEPT ![o].failed = @ + 1] ELSE history

(* replace_primary with another viable offer, on the screen's selection.   *)
ReplacePrimary(s, r, why, cause) ==
    LET old == coverage[Current].primary
        table == After(old, why)
        remaining == {o \in coverage[Current].backups \ {r} : offer[o].status \in Viable}
    IN /\ room.status = "buyer_selected"
       /\ Current # 0 /\ screen[s].selection = Current
       /\ Unobliged(Offers)
       /\ r # old /\ offer[r].status \in Viable
       /\ Known(s, r)
       /\ MayRecord(old, why)
       /\ history' = Charged(old, why, cause)
       /\ Approve(table, r, remaining)
       /\ UNCHANGED <<assignment, closing, screen>>

(* replace_primary with no replacement: shopping is open again.            *)
ReopenShopping(s, why, cause) ==
    LET old == coverage[Current].primary
        table == After(old, why)
    IN /\ room.status = "buyer_selected"
       /\ Current # 0 /\ screen[s].selection = Current
       /\ Unobliged(Offers)
       /\ MayRecord(old, why)
       /\ history' = Charged(old, why, cause)
       /\ offer' = [o \in Offers |->
                      IF o \in coverage[Current].backups /\ table[o].status = "backup"
                      THEN [table[o] EXCEPT !.status = "received"] ELSE table[o]]
       /\ coverage' = Superseded(0)
       /\ room' = [room EXCEPT !.status = "offers_received",
                               !.buyer = NoOffer, !.backup = NoOffer]
       /\ UNCHANGED <<assignment, closing, screen>>

(* record_outcome: any viable offer but the current primary.               *)
RecordOutcome(o, why, cause) ==
    /\ InRoom
    /\ offer[o].status \in Viable
    /\ why # "missed_deadline" /\ MayRecord(o, why)
    /\ ~ (Current # 0 /\ coverage[Current].primary = o)
    /\ offer' = After(o, why)
    /\ history' = Charged(o, why, cause)
    /\ IF Current # 0 /\ o \in coverage[Current].backups
       THEN LET left == {b \in coverage[Current].backups \ {o} : offer[b].status = "backup"}
            IN \E b \in IF left = {} THEN {NoOffer} ELSE left : room' = [room EXCEPT !.backup = b]
       ELSE room' = room
    /\ UNCHANGED <<coverage, assignment, closing, screen>>

(* The sync of a deadline scan or of an edit of the transaction.           *)
SyncCheckpoints ==
    /\ Current # 0
    /\ coverage' = [coverage EXCEPT ![Current].deposit =
                                      Synced(@, offer[coverage[Current].primary])]
    /\ UNCHANGED <<room, offer, assignment, closing, history, screen>>

(* update_checkpoint: the deposit received, or waived by a manager, each   *)
(* with a support note.                                                    *)
SettleDeposit(how) ==
    /\ InRoom
    /\ Current # 0
    /\ coverage[Current].deposit.status = "pending"
    /\ coverage' = [coverage EXCEPT ![Current].deposit = [status |-> how, note |-> TRUE]]
    /\ offer' = [offer EXCEPT ![coverage[Current].primary].paid = @ \/ how = "completed"]
    /\ UNCHANGED <<room, assignment, closing, history, screen>>
------------------------------------------------------------------------------
(* load_current_assignment_authority: the primary offer that may be        *)
(* assigned now, and the package's binding against it.                     *)
Authority ==
    /\ room.status = "buyer_selected" /\ room.strategy = "assignment"
    /\ Current # 0
    /\ offer[coverage[Current].primary].status = "selected"
    /\ offer[coverage[Current].primary].version = coverage[Current].version

(* superseded_by_selection_id leads from i to j: a selection is replaced   *)
(* only by the one made next, unless shopping was reopened.                *)
Leads(i, j) == i \in 1..j /\ \A k \in i..(j - 1) : coverage[k].next = k + 1

Bound(a) ==
    /\ Current # 0
    /\ assignment[a].offer = coverage[Current].primary
    /\ assignment[a].version = offer[assignment[a].offer].version
    /\ Leads(assignment[a].selection, Current)

DraftAssignment(a) ==
    /\ closing = "open"
    /\ assignment[a].status = "none"
    /\ Authority
    /\ assignment' = [assignment EXCEPT ![a] =
                        [status |-> "draft", offer |-> coverage[Current].primary,
                         version |-> coverage[Current].version, selection |-> Current]]
    /\ UNCHANGED <<room, offer, coverage, closing, history, screen>>

(* request_contract_approval, apply_contract_decision, mark_contract_sent, *)
(* mark_contract_executed: each validates the binding under the locks.     *)
Gates == {<<"draft", "pending_approval">>, <<"pending_approval", "approved">>,
          <<"approved", "sent">>, <<"approved", "executed">>, <<"sent", "executed">>}
PassGate(a, gate) ==
    /\ gate[1] = assignment[a].status
    /\ gate[2] = "executed" => closing = "open"
    /\ Authority /\ Bound(a)
    /\ assignment' = [assignment EXCEPT ![a].status = gate[2]]
    /\ UNCHANGED <<room, offer, coverage, closing, history, screen>>

(* A rejected or cancelled approval, or a withdrawal.                      *)
Backs == {<<"pending_approval", "draft">>, <<"pending_approval", "void">>,
          <<"approved", "void">>, <<"sent", "void">>}
TakeBack(a, back) ==
    /\ back[1] = assignment[a].status
    /\ assignment' = [assignment EXCEPT ![a].status = back[2]]
    /\ UNCHANGED <<room, offer, coverage, closing, history, screen>>

(* close_transaction, funded, with record_funded_transaction_buyer_outcome *)
(* in the same transaction.                                                *)
Documented(point, money) ==
    /\ money = "unknown" => point.status = "waived"
    /\ money = "due" => point.status \in {"completed", "waived"}
    /\ money # "zero" => point.note

(* Faulty: a repeated close credits the buyer again.                       *)
CloseFundedAgain ==
    LET p == coverage[Current].primary
        point == Synced(coverage[Current].deposit, offer[p])
    IN /\ room.status = "buyer_selected" /\ Current # 0 /\ room.buyer = p
       /\ room.strategy = "assignment" =>
            \E a \in Assignments : assignment[a].status = "executed" /\ Bound(a)
       /\ Documented(point, offer[p].money)
       /\ closing' = "funded"
       /\ offer' = [offer EXCEPT ![p].status = "closed"]
       /\ history' = [history EXCEPT ![p].completed = @ + 1]
       /\ coverage' = [coverage EXCEPT ![Current].deposit = Cancelled(point)]
       /\ UNCHANGED <<room, assignment, screen>>

CloseFunded ==
    LET p == coverage[Current].primary
        point == Synced(coverage[Current].deposit, offer[p])
    IN /\ closing = "open"
       /\ room.status = "buyer_selected" /\ Current # 0 /\ room.buyer = p
       /\ offer[p].status = "selected" /\ offer[p].version = coverage[Current].version
       /\ room.strategy = "assignment" =>
            \E a \in Assignments : assignment[a].status = "executed" /\ Bound(a)
       /\ Documented(point, offer[p].money)
       /\ closing' = "funded"
       /\ offer' = [offer EXCEPT ![p].status = "closed"]
       /\ history' = [history EXCEPT ![p].completed = @ + 1]
       /\ coverage' = [coverage EXCEPT ![Current].deposit = Cancelled(point)]
       /\ UNCHANGED <<room, assignment, screen>>

(* close_transaction, cancelled: the case itself stays where it is.        *)
Retired == {"draft", "pending_approval", "approved"}
CancelDeal ==
    /\ closing = "open"
    /\ \A a \in Assignments : assignment[a].status \notin {"sending", "sent"}
    /\ closing' = "cancelled"
    /\ assignment' = [a \in Assignments |->
                        IF assignment[a].status \in Retired
                        THEN [assignment[a] EXCEPT !.status = "void"] ELSE assignment[a]]
    /\ coverage' = [i \in DOMAIN coverage |->
                      [coverage[i] EXCEPT !.deposit = Cancelled(@)]]
    /\ UNCHANGED <<room, offer, history, screen>>

(* decide_reconciliation, approved.                                        *)
ReconcileDeal ==
    /\ closing = "funded" /\ room.status = "buyer_selected"
    /\ room' = [room EXCEPT !.status = "reconciled"]
    /\ UNCHANGED <<offer, coverage, assignment, closing, history, screen>>

RoomNext ==
    \/ \E s \in Reps : ReadWorkspace(s)
    \/ \E o \in Offers : CreateOffer(o) \/ RecordNegotiation(o)
    \/ \E s \in Reps, o \in Offers : ReviseOffer(s, o)
    \/ \E s \in Reps, p \in Offers : \E backups \in SUBSET (Offers \ {p}) :
         SelectBuyers(s, p, backups)
    \/ \E why \in Reasons, cause \in {"buyer", "external"} :
         \/ \E s \in Reps : ReopenShopping(s, why, cause)
         \/ \E s \in Reps, r \in Offers : ReplacePrimary(s, r, why, cause)
         \/ \E o \in Offers : RecordOutcome(o, why, cause)
    \/ SyncCheckpoints
    \/ \E how \in {"completed", "waived"} : SettleDeposit(how)
    \/ \E a \in Assignments :
         \/ DraftAssignment(a)
         \/ \E gate \in Gates : PassGate(a, gate)
         \/ \E back \in Backs : TakeBack(a, back)
    \/ CloseFunded
    \/ CancelDeal
    \/ ReconcileDeal

RoomSpec == RoomInit /\ [][RoomNext]_roomVars
------------------------------------------------------------------------------
RoomTypeOK ==
    /\ room.status \in {"marketed", "offers_received", "buyer_selected", "reconciled"}
    /\ {room.buyer, room.backup} \subseteq Offers \cup {NoOffer}
    /\ offer \in [Offers -> [status : OfferStatus, version : 0..MaxVersion,
                             money : Terms \cup {"unknown"}, paid : BOOLEAN,
                             retraded : 0..MaxVersion]]
    /\ \A i \in DOMAIN coverage :
         /\ coverage[i].primary \in Offers /\ coverage[i].backups \subseteq Offers
         /\ coverage[i].next \in 0..MaxSelections
         /\ coverage[i].deposit.status \in Settled \cup {"none", "pending"}
    /\ closing \in {"open", "funded", "cancelled"}

(* The case, its only active selection and the offers name the same        *)
(* primary, through revisions, replacements, lost backups and the close    *)
(* (uq_disposition_selection_current, case pointers, offer statuses are    *)
(* written by five different commands).                                    *)
PrimaryAgrees ==
    /\ Cardinality(Active) <= 1
    /\ room.buyer = IF Current = 0 THEN NoOffer ELSE coverage[Current].primary
    /\ \A o \in Offers : offer[o].status = "selected" => o = room.buyer
    /\ Current # 0 /\ closing = "open" => offer[room.buyer].status = "selected"
    /\ room.backup # NoOffer =>
         Current # 0 /\ room.backup \in coverage[Current].backups

(* An assignment that is approved, with the buyer or executed stays bound  *)
(* to the primary buyer and to the terms it was drafted on for as long as  *)
(* the deal is open: no order of revisions, replacements, reapprovals and  *)
(* withdrawals leaves a live agreement with somebody else, or on other     *)
(* terms, than the selection.                                              *)
LiveAssignmentIsBound ==
    closing = "open" =>
      \A a \in Assignments : assignment[a].status \in Obliging => Authority /\ Bound(a)

(* Coverage that was replaced has nothing left to watch: its deposit       *)
(* checkpoint is settled and is never brought back by a later sync.        *)
SupersededIsSettled ==
    \A i \in DOMAIN coverage :
      ~ coverage[i].active => coverage[i].deposit.status \in Settled \cup {"none"}

(* One buyer holds the deal: the one every pointer names, bound by every   *)
(* live assignment, and no replaced buyer is still watched.                *)
OneBuyerHoldsTheDeal == PrimaryAgrees /\ LiveAssignmentIsBound /\ SupersededIsSettled

(* A buyer is credited once for the deal, and under the assignment         *)
(* strategy never charged with a failure for the deal that was closed.     *)
CreditedOnce ==
    /\ Cardinality({o \in Offers : history[o].completed > 0}) <= 1
    /\ \A o \in Offers : /\ history[o].completed <= 1
                         /\ room.strategy = "assignment" /\ history[o].completed = 1 =>
                              offer[o].status = "closed"

(* The claim that buyer-deposit evidence is what funding asks for: once    *)
(* the primary's deposit was received and documented, its checkpoint is    *)
(* fit for funding.  Refuted: the note stays with the replaced selection.  *)
DocumentedDepositCounts ==
    Current # 0 /\ closing = "open" =>
      LET p == coverage[Current].primary IN
      offer[p].paid /\ offer[p].money = "due" =>
        Documented(Synced(coverage[Current].deposit, offer[p]), "due")
==============================================================================
