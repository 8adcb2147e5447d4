--------------------------- MODULE ServicesProofs ---------------------------
(***************************************************************************)
(* The intake of leads and the service's machinery.  For any number of     *)
(* contacts, requests, workers, clients and operations:                    *)
(*   - nothing is left to do on a closed-out lead (LeadWork);              *)
(*   - whoever has submitted something has a lead, and one unless the code *)
(*     keeps two on purpose (SellerIntake);                                *)
(*   - the staff hear of a seller in order, and again only for a call that *)
(*     got no answer, a failure or a manager (StaffAlerts);                *)
(*   - the rate limiter is exact (RateLimiter);                            *)
(*   - a worker that falls silent is shown as such (WorkerLoop).           *)
(* The five components share no variable; each part states the inductive   *)
(* invariant of one and proves it on its own.                              *)
(***************************************************************************)
EXTENDS LeadWork, SellerIntake, StaffAlerts, RateLimiter, WorkerLoop, FiniteSetTheorems, TLAPS

-----------------------------------------------------------------------------
(***************************************************************************)
(* LeadWork.  The invariant adds to ClosedLeadRests what the close-out has *)
(* looked at before its commit: while it holds the lock no deal is begun,  *)
(* and a lead it marks is none that was closed.                            *)
(***************************************************************************)
LeadRow == [stage : Pipeline \cup Inactive, archived : BOOLEAN, marked : BOOLEAN,
            spam : BOOLEAN, before : Pipeline \cup {"closed"}]
PlanRow == [enrolled : BOOLEAN, approval : BOOLEAN]
DealRow == [active : BOOLEAN, funded : BOOLEAN]
BriefStatus == {"none", "queued", "processing", "needs_review", "blocked", "failed",
                "completed", "dismissed"}
BriefRow == [status : BriefStatus, stale : BOOLEAN]

(* The rows the argument is about; contacts, workers and crashes are not.  *)
RowsTyped ==
  /\ lead \in LeadRow /\ plan \in PlanRow /\ deal \in DealRow /\ brief \in BriefRow
  /\ closing \in [on : BOOLEAN, stage : Terminal, mark : {"none", "other", "spam"}]

ClosingIsFree ==
  closing.on =>
    /\ ~deal.active /\ ~deal.funded
    /\ closing.mark # "none" => lead.stage \notin Terminal

IInv == RowsTyped /\ ClosedLeadRests /\ ClosingIsFree

LEMMA LeadMoves ==
  ASSUME NEW l \in LeadRow, NEW s \in Pipeline \cup Inactive
  PROVE  /\ [l EXCEPT !.stage = s] \in LeadRow
         /\ [l EXCEPT !.stage = s].stage = s
  BY DEF LeadRow

LEMMA BriefMoves ==
  ASSUME NEW b \in BriefRow
  PROVE  /\ [b EXCEPT !.status = "completed"] \in BriefRow
         /\ [b EXCEPT !.status = "completed"].status = "completed"
         /\ [b EXCEPT !.stale = TRUE] \in BriefRow
         /\ [b EXCEPT !.stale = TRUE].status = b.status
  BY DEF BriefRow, BriefStatus

LEMMA StagesApart == Pipeline \cap Terminal = {} /\ Pipeline \cap Inactive = {}
  BY DEF Pipeline, Terminal, Inactive

LEMMA InitHolds == Init => IInv
  BY DEF Init, IInv, RowsTyped, LeadRow, PlanRow, DealRow, BriefRow, BriefStatus, ClosedLeadRests, ClosingIsFree, ClosedOut, NotClosing,
         Pipeline, Inactive, Terminal

-----------------------------------------------------------------------------
(* Closing out: what it has looked at still holds at its commit, which     *)
(* cancels everything else.                                                *)
LEMMA BeginCloseHolds ==
  ASSUME IInv, NEW s \in Terminal, NEW m \in {"none", "other", "spam"}, BeginClose(s, m),
         m # "none" => lead.stage \notin Terminal
  PROVE  IInv'
  BY DEF IInv, RowsTyped, ClosedLeadRests, ClosingIsFree, ClosedOut, BeginClose, work, ai

LEMMA CommitCloseHolds == IInv /\ CommitClose => IInv'
<1> SUFFICES ASSUME IInv, CommitClose PROVE IInv'
  OBVIOUS
<1>1. closing.stage \in Terminal /\ closing.mark \in {"none", "other", "spam"}
      /\ ~deal.active /\ ~deal.funded
  BY DEF CommitClose, IInv, RowsTyped, ClosingIsFree
<1>2. lead'.before \in Pipeline \cup {"closed"}
  BY <1>1 DEF CommitClose, IInv, RowsTyped, LeadRow, ClosingIsFree, Inactive
<1>3. RowsTyped'
  BY <1>1, <1>2 DEF CommitClose, IInv, RowsTyped, LeadRow, PlanRow, DealRow, BriefRow, BriefStatus, NotClosing,
                    Inactive, Terminal
<1>4. ClosedLeadRests'
  BY <1>1 DEF CommitClose, IInv, RowsTyped, ClosedLeadRests
<1>5. ClosingIsFree'
  BY DEF CommitClose, ClosingIsFree, NotClosing
<1> QED
  BY <1>3, <1>4, <1>5 DEF IInv

-----------------------------------------------------------------------------
(* What opens a lead or finds it open leaves it open.                      *)
LEMMA OpenLeadHolds ==
  ASSUME IInv, RowsTyped', UNCHANGED closing, ~closing.on,
         lead'.stage \notin Terminal
  PROVE  IInv'
  BY DEF IInv, ClosedLeadRests, ClosingIsFree, ClosedOut

LEMMA UndoNotALeadHolds == IInv /\ UndoNotALead => IInv'
<1> SUFFICES ASSUME IInv, UndoNotALead PROVE IInv'
  OBVIOUS
<1> DEFINE s == IF lead.before \in Inactive THEN "new" ELSE lead.before
<1>1. s \in Pipeline
  BY DEF IInv, RowsTyped, LeadRow, Pipeline, Inactive
<1>2. lead' = [lead EXCEPT !.stage = s, !.archived = FALSE, !.marked = FALSE, !.spam = FALSE]
  BY DEF UndoNotALead
<1> HIDE DEF s
<1>3. lead' \in LeadRow /\ lead'.stage \notin Terminal
  BY <1>1, <1>2, StagesApart DEF IInv, RowsTyped, LeadRow
<1>4. UNCHANGED <<plan, deal, closing, brief>>
  BY DEF UndoNotALead, work, ai
<1> QED
  BY <1>3, <1>4, OpenLeadHolds DEF UndoNotALead, Locks, IInv, RowsTyped

LEMMA ReopenedRow == RowsTyped => Reopened \in LeadRow /\ Reopened.stage \notin Terminal
<1>1. "reopened" \in Pipeline
  BY DEF Pipeline
<1> QED
  BY <1>1, StagesApart DEF RowsTyped, LeadRow, Reopened

LEMMA ReopenHolds == IInv /\ Reopen => IInv'
<1> SUFFICES ASSUME IInv, Reopen PROVE IInv'
  OBVIOUS
<1>1. lead' \in LeadRow /\ lead'.stage \notin Terminal
  BY ReopenedRow DEF Reopen, IInv
<1>2. UNCHANGED <<plan, deal, closing, brief>>
  BY DEF Reopen, ai
<1> QED
  BY <1>1, <1>2, OpenLeadHolds DEF Reopen, Locks, IInv, RowsTyped

LEMMA ArchiveHolds == IInv /\ Archive => IInv'
<1> SUFFICES ASSUME IInv, Archive PROVE IInv'
  OBVIOUS
<1>1. RowsTyped' /\ lead'.stage \notin Terminal
  BY DEF IInv, RowsTyped, LeadRow, Archive, work, ai
<1> QED
  BY <1>1, OpenLeadHolds DEF Archive, Locks

(* The operations of the staff that find the lead open.                    *)
LEMMA SetStageHolds ==
  ASSUME IInv, NEW s \in Pipeline, SetStage(s) \/ HandOff(s)
  PROVE  IInv'
<1>1. lead' = [lead EXCEPT !.stage = s] /\ UNCHANGED <<plan, deal, closing, brief>>
  BY DEF SetStage, HandOff, work, ai
<1>2. lead' \in LeadRow /\ lead'.stage \notin Terminal
  BY <1>1, LeadMoves, StagesApart DEF IInv, RowsTyped
<1> QED
  BY <1>1, <1>2, OpenLeadHolds DEF SetStage, HandOff, Locks, IInv, RowsTyped

LEMMA WorksHold ==
  ASSUME IInv,
         \/ FollowUp \/ CompleteTask \/ Schedule \/ UpdateAppointment \/ Enroll \/ Decide
         \/ OpenDeal \/ Fund
  PROVE  IInv'
<1>1. OpenForWork /\ UNCHANGED closing /\ ~closing.on
  BY DEF FollowUp, CompleteTask, Schedule, UpdateAppointment, Enroll, Decide, OpenDeal, Fund, Locks
<1>2. lead.stage \notin Inactive
  BY <1>1 DEF OpenForWork
<1>3. CASE FollowUp \/ CompleteTask \/ Enroll \/ Decide \/ OpenDeal
  <2>1. UNCHANGED <<lead, brief, closing>>
    BY <1>3 DEF FollowUp, CompleteTask, Enroll, Decide, OpenDeal, ai
  <2>2. plan' \in PlanRow
    <3>1. CASE Enroll
      BY <3>1 DEF PlanRow, Enroll
    <3>2. CASE Decide
      BY <3>2 DEF IInv, RowsTyped, PlanRow, Decide
    <3>3. CASE FollowUp \/ CompleteTask \/ OpenDeal
      BY <3>3 DEF IInv, RowsTyped, FollowUp, CompleteTask, OpenDeal
    <3> QED
      BY <1>3, <3>1, <3>2, <3>3
  <2>3. deal' \in DealRow
    BY <1>3 DEF IInv, RowsTyped, DealRow, FollowUp, CompleteTask, Enroll, Decide, OpenDeal
  <2> QED
    BY <1>1, <1>2, <2>1, <2>2, <2>3, OpenLeadHolds DEF IInv, RowsTyped, Inactive
<1>4. CASE Schedule \/ UpdateAppointment \/ Fund
  <2>1. \E s \in (Pipeline \cup Inactive) \ Terminal : lead' = [lead EXCEPT !.stage = s]
    <3>1. lead.stage \in (Pipeline \cup Inactive) \ Terminal
      BY <1>2 DEF IInv, RowsTyped, LeadRow, Inactive
    <3> QED
      BY <1>4, <3>1 DEF Schedule, UpdateAppointment, Fund, Pipeline, Inactive, Terminal
  <2>2. lead' \in LeadRow /\ lead'.stage \notin Terminal
    <3>1. PICK s \in (Pipeline \cup Inactive) \ Terminal : lead' = [lead EXCEPT !.stage = s]
      BY <2>1
    <3> QED
      BY <3>1, LeadMoves DEF IInv, RowsTyped
  <2>3. UNCHANGED <<plan, brief, closing>>
    BY <1>4 DEF Schedule, UpdateAppointment, Fund, ai
  <2>4. deal' \in DealRow
    <3>1. CASE Fund
      BY <3>1 DEF DealRow, Fund
    <3>2. CASE Schedule \/ UpdateAppointment
      BY <3>2 DEF IInv, RowsTyped, Schedule, UpdateAppointment
    <3> QED
      BY <1>4, <3>1, <3>2
  <2> QED
    BY <1>1, <2>2, <2>3, <2>4, OpenLeadHolds DEF IInv, RowsTyped
<1> QED
  BY <1>3, <1>4

(* A deal that is cancelled was under way, so its lead is not closed out.  *)
LEMMA CancelDealHolds == IInv /\ CancelDeal => IInv'
<1> SUFFICES ASSUME IInv, CancelDeal PROVE IInv'
  OBVIOUS
<1>1. RowsTyped' /\ lead'.stage \in {lead.stage, "later"}
  <2>1. \E s \in {lead.stage, "later"} : lead' = [lead EXCEPT !.stage = s]
    BY DEF CancelDeal
  <2>2. lead.stage \in Pipeline \cup Inactive /\ "later" \in Pipeline
    BY DEF IInv, RowsTyped, LeadRow, Pipeline
  <2>3. deal' \in DealRow /\ UNCHANGED <<plan, brief, closing>>
    BY DEF IInv, RowsTyped, DealRow, CancelDeal, ai
  <2> QED
    <3>1. PICK s \in {lead.stage, "later"} : lead' = [lead EXCEPT !.stage = s]
      BY <2>1
    <3>2. lead' \in LeadRow /\ lead'.stage = s
      BY <2>2, <3>1, LeadMoves DEF IInv, RowsTyped
    <3> QED
      BY <2>3, <3>1, <3>2 DEF IInv, RowsTyped
<1>2. ~ClosedOut /\ UNCHANGED closing /\ ~closing.on
  BY DEF IInv, ClosedLeadRests, CancelDeal, Locks
<1>3. ClosedLeadRests'
  BY <1>1, <1>2 DEF IInv, RowsTyped, DealRow, LeadRow, ClosedLeadRests, CancelDeal, ClosedOut,
                    OpenForWork, Terminal
<1> QED
  BY <1>1, <1>2, <1>3 DEF IInv, ClosingIsFree

-----------------------------------------------------------------------------
(* The seller reopens the lead, or adds a task to one that is open.        *)
LEMMA SellerHolds == IInv /\ Seller => IInv'
<1> SUFFICES ASSUME IInv, NEW c \in Contacts, Arrive(c) \/ Handle(c) \/ MissCall(c)
             PROVE  IInv'
  BY DEF Seller
<1>1. CASE Arrive(c)
  BY <1>1 DEF IInv, RowsTyped, ClosedLeadRests, ClosingIsFree, ClosedOut, Arrive, work, ai
<1>2. CASE (Handle(c) \/ MissCall(c)) /\ Reactivates(c)
  <2>1. lead' \in LeadRow /\ lead'.stage \notin Terminal
    BY <1>2, ReopenedRow DEF Handle, MissCall, IInv
  <2>2. UNCHANGED <<plan, deal, closing, brief>> /\ ~closing.on
    BY <1>2 DEF Handle, MissCall, ai
  <2> QED
    BY <2>1, <2>2, OpenLeadHolds DEF IInv, RowsTyped
<1>3. CASE (Handle(c) \/ MissCall(c)) /\ ~Reactivates(c)
  <2>1. UNCHANGED <<lead, primary, plan, appointment, deal, closing, brief>>
    BY <1>3 DEF Handle, MissCall, ai
  <2>2. ClosedOut => UNCHANGED others
    BY <1>3 DEF Handle, MissCall, ClosedOut, OpenForWork, Inactive
  <2> QED
    BY <2>1, <2>2 DEF IInv, RowsTyped, ClosedLeadRests, ClosingIsFree, ClosedOut
<1> QED
  BY <1>1, <1>2, <1>3

(* Only the end of a run can leave a brief to be reviewed, and it looks at *)
(* the lead again.                                                         *)
LEMMA BriefHolds == IInv /\ (Background \/ Review) => IInv'
<1> SUFFICES ASSUME IInv, Background \/ Review PROVE IInv'
  OBVIOUS
<1>1. UNCHANGED <<lead, primary, others, plan, appointment, deal, closing>>
  BY DEF Background, Review, Enqueue, Claim, BriefAges, Finish, Crash, staff, work
<1>2. /\ brief' \in BriefRow
      /\ brief'.status = "needs_review" => brief.status = "needs_review" \/ ~ClosedOut
  <2>1. CASE Enqueue \/ \E w \in Workers : Claim(w)
    <3>1. \E s \in {"queued", "processing"} : brief' = [status |-> s, stale |-> FALSE]
      BY <2>1 DEF Enqueue, Claim
    <3> QED
      BY <3>1 DEF BriefRow, BriefStatus
  <2>2. CASE Review \/ BriefAges \/ \E w \in Workers : Crash(w)
    <3>1. \/ brief' = [brief EXCEPT !.status = "completed"]
          \/ brief' = [brief EXCEPT !.stale = TRUE]
          \/ brief' = brief
      BY <2>2 DEF Review, BriefAges, Crash
    <3> QED
      BY <3>1, BriefMoves DEF IInv, RowsTyped
  <2>3. CASE \E w \in Workers : Finish(w)
    BY <2>3 DEF IInv, RowsTyped, BriefRow, BriefStatus, Finish, ClosedOut
  <2> QED
    BY <2>1, <2>2, <2>3 DEF Background
<1> QED
  BY <1>1, <1>2 DEF IInv, RowsTyped, ClosedLeadRests, ClosingIsFree, ClosedOut

-----------------------------------------------------------------------------
LEMMA NextHolds == IInv /\ [Next]_vars => IInv'
<1> SUFFICES ASSUME IInv, [Next]_vars PROVE IInv'
  OBVIOUS
<1>1. CASE \E s \in Terminal : CloseOut(s)
  BY <1>1, BeginCloseHolds DEF CloseOut
<1>2. CASE \E m \in {"other", "spam"} : MarkNotALead(m)
  BY <1>2, BeginCloseHolds DEF MarkNotALead, Terminal
<1>3. CASE CommitClose \/ UndoNotALead \/ Reopen \/ Archive
  BY <1>3, CommitCloseHolds, UndoNotALeadHolds, ReopenHolds, ArchiveHolds
<1>4. CASE \E s \in Pipeline : SetStage(s)
  BY <1>4, SetStageHolds
<1>5. CASE Works
  <2>1. CASE \E s \in {"qualified", "appointment_scheduled"} : HandOff(s)
    BY <2>1, SetStageHolds DEF Pipeline
  <2> QED
    BY <1>5, <2>1, WorksHold, CancelDealHolds, BriefHolds DEF Works
<1>6. CASE Seller \/ Background
  BY <1>6, SellerHolds, BriefHolds
<1>7. CASE UNCHANGED vars
  BY <1>7 DEF IInv, RowsTyped, ClosedLeadRests, ClosingIsFree, ClosedOut, vars, work, ai
<1> QED
  BY <1>1, <1>2, <1>3, <1>4, <1>5, <1>6, <1>7 DEF Next, Lifecycle

(* A closed-out lead has no task, appointment, follow-up, approval, brief  *)
(* to be reviewed or deal, and a funded one is never called dead           *)
(* (apply_lead_close_out_transition and the operations that take the lead's*)
(* lock).                                                                  *)
THEOREM ClosedLeadsRest == Spec => []ClosedLeadRests
<1>1. IInv => ClosedLeadRests
  BY DEF IInv
<1> QED
  BY InitHolds, NextHolds, <1>1, PTL DEF Spec

-----------------------------------------------------------------------------
(* No contact is lost.  A close-out under way has either looked later than *)
(* every contact that was taken up, or closes a closed lead again and      *)
(* marks nothing; the contacts that arrive meanwhile wait for its lock.    *)

ContactRow == [at : {"none", "arrived", "handled", "missed"}, after : BOOLEAN]

TakenUp(c) == contact[c].at \in {"handled", "missed"} /\ contact[c].after

Heard ==
  /\ contact \in [Contacts -> ContactRow]
  /\ NoContactLost
  /\ closing.on => \A c \in Contacts : TakenUp(c) => ClosedOut /\ closing.mark = "none"

LEMMA HeardFromInit == Init => Heard
  BY DEF Init, Heard, ContactRow, NoContactLost, TakenUp, ClosedOut, NotClosing

LEMMA OpenHears ==
  ASSUME ~ClosedOut', ~closing'.on, contact' \in [Contacts -> ContactRow]
  PROVE  Heard'
  BY DEF Heard, NoContactLost

LEMMA QuietHears ==
  ASSUME Heard, UNCHANGED <<lead, closing, contact>>
  PROVE  Heard'
  BY DEF Heard, NoContactLost, TakenUp, ClosedOut

LEMMA BeginCloseHears ==
  ASSUME Heard, NEW s, NEW m, BeginClose(s, m), m # "none" => ~ClosedOut
  PROVE  Heard'
<1>1. UNCHANGED lead /\ closing' = [on |-> TRUE, stage |-> s, mark |-> m]
  BY DEF BeginClose
<1>2. CASE contact' = [c \in Contacts |-> [contact[c] EXCEPT !.after = FALSE]]
  <2>1. \A c \in Contacts : contact'[c] \in ContactRow /\ ~contact'[c].after
    BY <1>2 DEF Heard, ContactRow
  <2> QED
    BY <1>2, <2>1 DEF Heard, NoContactLost, TakenUp
<1>3. CASE ClosedOut /\ UNCHANGED contact
  BY <1>1, <1>3 DEF Heard, NoContactLost, TakenUp, ClosedOut
<1> QED
  BY <1>2, <1>3 DEF BeginClose

LEMMA CommitCloseHears == Heard /\ CommitClose => Heard'
<1> SUFFICES ASSUME Heard, CommitClose PROVE Heard'
  OBVIOUS
<1>1. UNCHANGED contact /\ ~closing'.on
  BY DEF CommitClose, NotClosing
<1>2. ASSUME NEW c \in Contacts, TakenUp(c) PROVE lead'.marked /\ lead'.spam
  <2>1. ClosedOut /\ closing.mark = "none"
    BY <1>2 DEF Heard, CommitClose
  <2>2. lead.marked /\ lead.spam
    BY <1>2, <2>1 DEF Heard, NoContactLost, TakenUp
  <2> QED
    BY <2>1, <2>2 DEF CommitClose
<1> QED
  BY <1>1, <1>2 DEF Heard, NoContactLost, TakenUp

LEMMA SellerHears == IInv /\ Heard /\ Seller => Heard'
<1> SUFFICES ASSUME IInv, Heard, NEW c \in Contacts, Arrive(c) \/ Handle(c) \/ MissCall(c)
             PROVE  Heard'
  BY DEF Seller
<1>1. CASE Arrive(c)
  <2>1. UNCHANGED <<lead, closing>> /\ contact' = [contact EXCEPT ![c] = [at |-> "arrived", after |-> TRUE]]
    BY <1>1 DEF Arrive
  <2> QED
    BY <2>1 DEF Heard, ContactRow, NoContactLost, TakenUp, ClosedOut
<1>2. CASE Handle(c) \/ MissCall(c)
  <2>1. /\ ~closing.on /\ UNCHANGED closing
        /\ \E t \in {"handled", "missed"} : contact' = [contact EXCEPT ![c].at = t]
    BY <1>2 DEF Handle, MissCall
  <2>2. /\ contact' \in [Contacts -> ContactRow]
        /\ contact'[c].after = contact[c].after
        /\ \A d \in Contacts \ {c} : contact'[d] = contact[d]
    BY <2>1 DEF Heard, ContactRow
  <2>3. CASE Reactivates(c)
    <3>1. lead' = Reopened
      BY <1>2, <2>3 DEF Handle, MissCall
    <3>2. ~ClosedOut'
      BY <3>1, ReopenedRow DEF ClosedOut, IInv
    <3> QED
      BY <2>1, <2>2, <3>2, OpenHears
  <2>4. CASE ~Reactivates(c)
    <3>1. UNCHANGED lead
      BY <1>2, <2>4 DEF Handle, MissCall
    <3>2. ClosedOut /\ contact[c].after => lead.marked /\ lead.spam
      BY <2>4 DEF Reactivates
    <3>3. NoContactLost'
      BY <2>2, <3>1, <3>2 DEF Heard, NoContactLost, ClosedOut
    <3> QED
      BY <2>1, <2>2, <3>3 DEF Heard
  <2> QED
    BY <2>3, <2>4
<1> QED
  BY <1>1, <1>2

(* Whatever else moves the lead has its lock and leaves it open.           *)
LEMMA MovesHear ==
  ASSUME IInv, Heard,
         \/ UndoNotALead \/ Reopen \/ Archive \/ Schedule \/ UpdateAppointment \/ Fund \/ CancelDeal
         \/ \E s \in Pipeline : SetStage(s) \/ HandOff(s)
  PROVE  Heard'
<1>1. UNCHANGED <<closing, contact>> /\ ~closing.on
  BY DEF UndoNotALead, Reopen, Archive, Schedule, UpdateAppointment, Fund, CancelDeal, SetStage,
         HandOff, Locks
<1>2. ~ClosedOut'
  <2>1. CASE UndoNotALead \/ Reopen
    BY <2>1 DEF UndoNotALead, Reopen, Reopened, ClosedOut, IInv, RowsTyped, LeadRow
  <2>2. CASE Archive
    BY <2>2 DEF Archive, ClosedOut, IInv, RowsTyped, LeadRow
  <2>3. ASSUME NEW s, lead' = [lead EXCEPT !.stage = s], ~lead.archived
        PROVE  ~ClosedOut'
    BY <2>3 DEF ClosedOut, IInv, RowsTyped, LeadRow
  <2>4. CASE Schedule \/ UpdateAppointment \/ Fund \/ \E s \in Pipeline : SetStage(s) \/ HandOff(s)
    <3>1. ~lead.archived
      BY <2>4 DEF Schedule, UpdateAppointment, Fund, SetStage, HandOff, OpenForWork
    <3>2. \E s : lead' = [lead EXCEPT !.stage = s]
      BY <2>4 DEF Schedule, UpdateAppointment, Fund, SetStage, HandOff
    <3> QED
      BY <2>3, <3>1, <3>2
  <2>5. CASE CancelDeal
    <3>1. ~ClosedOut
      BY <2>5 DEF CancelDeal, IInv, ClosedLeadRests
    <3>2. \E s \in {"later", lead.stage} : lead' = [lead EXCEPT !.stage = s]
      BY <2>5 DEF CancelDeal
    <3> QED
      BY <3>1, <3>2 DEF ClosedOut, IInv, RowsTyped, LeadRow, Terminal
  <2> QED
    BY <2>1, <2>2, <2>4, <2>5
<1> QED
  BY <1>1, <1>2, OpenHears DEF Heard

LEMMA EveryStepHears == IInv /\ Heard /\ [Next]_vars => Heard'
<1> SUFFICES ASSUME IInv, Heard, [Next]_vars PROVE Heard'
  OBVIOUS
<1>1. CASE \E s \in Terminal : CloseOut(s)
  BY <1>1, BeginCloseHears DEF CloseOut
<1>2. CASE \E m \in {"other", "spam"} : MarkNotALead(m)
  BY <1>2, BeginCloseHears DEF MarkNotALead, ClosedOut
<1>3. CASE CommitClose
  BY <1>3, CommitCloseHears
<1>4. CASE UndoNotALead \/ Reopen \/ Archive \/ \E s \in Pipeline : SetStage(s)
  BY <1>4, MovesHear
<1>5. CASE Works
  <2>1. CASE Schedule \/ UpdateAppointment \/ Fund \/ CancelDeal
    BY <2>1, MovesHear
  <2>2. CASE \E s \in {"qualified", "appointment_scheduled"} : HandOff(s)
    BY <2>2, MovesHear DEF Pipeline
  <2>3. CASE FollowUp \/ CompleteTask \/ Enroll \/ Decide \/ OpenDeal \/ Review
    BY <2>3, QuietHears DEF FollowUp, CompleteTask, Enroll, Decide, OpenDeal, Review, staff, ai
  <2> QED
    BY <1>5, <2>1, <2>2, <2>3 DEF Works
<1>6. CASE Seller
  BY <1>6, SellerHears
<1>7. CASE Background
  BY <1>7, QuietHears DEF Background, Enqueue, Claim, BriefAges, Finish, Crash, staff
<1>8. CASE UNCHANGED vars
  BY <1>8, QuietHears DEF vars
<1> QED
  BY <1>1, <1>2, <1>3, <1>4, <1>5, <1>6, <1>7, <1>8 DEF Next, Lifecycle

(* A contact that came after a close-out does not leave the lead closed,   *)
(* unless it is marked as spam (reactivate_closed_lead_for_inbound).       *)
THEOREM ContactsAreHeard == Spec => []NoContactLost
<1>1. Heard => NoContactLost
  BY DEF Heard
<1> QED
  BY InitHolds, NextHolds, HeardFromInit, EveryStepHears, <1>1, PTL DEF Spec

-----------------------------------------------------------------------------
(***************************************************************************)
(* SellerIntake.  A request writes on what it has read.  The invariant says*)
(* what of it still holds at the commit: a matched lead cannot lose its    *)
(* contact, and the placeholder a journey leaves behind was worked on,     *)
(* given an owner or closed when it was read and stays so.  While requests *)
(* do not overlap, what was not found is also still missing, hence one     *)
(* active lead among those that have the class they were sought by.        *)
(***************************************************************************)
SellerLeadRow == [status : {"none", "open", "closed", "gone"}, contact : Leads \cup {None},
            place : Places \cup {None}, asset : AssetClasses, used : BOOLEAN, owned : BOOLEAN,
            astray : BOOLEAN, by : Sources \cup {None}]
FormRow ==
  [status : {"none", "pending", "processing", "retry", "processed", "needs_review", "exhausted"},
   attempts : 0..FormAttempts, lead : Leads \cup {None}, stale : BOOLEAN]
RequestRow ==
  [at : {"idle", "claimed", "writing", "created"}, for : Sources \cup {None},
   seller : Sellers \cup {None}, place : Places \cup {None}, asset : AssetClasses,
   contact : Leads \cup {None}, match : Leads \cup {None}, discard : BOOLEAN]

IntakeState ==
  /\ leads \in [Leads -> SellerLeadRow]
  /\ contacts \in [Leads -> Sellers \cup {"none", "placeholder"}]
  /\ submission \in [Journeys ->
       [status : {"none", "address_only", "completed"}, lead : Leads \cup {None}]]
  /\ form \in [Forms -> FormRow]
  /\ request \in [Requests -> RequestRow]

Exists(l) == leads[l].status \in {"open", "closed"}

(* A lead of a seller, not a placeholder. *)
OfSeller(l) == l \in Leads /\ Exists(l) /\ leads[l].contact \in Leads
                 /\ contacts[leads[l].contact] \in Sellers

(* Every lead has a contact; a placeholder is the contact of its own lead. *)
ContactsExist ==
  \A l \in Leads : 
    /\ leads[l].status = "none" => contacts[l] = "none" /\ leads[l].by = None
    /\ Exists(l) => /\ leads[l].contact \in Leads /\ contacts[leads[l].contact] # "none"
                    /\ contacts[leads[l].contact] = "placeholder" => leads[l].contact = l

(* A journey at its first step holds a placeholder of its own. *)
Placeholder(j) ==
  LET own == submission[j].lead IN
  /\ own \in Leads /\ Exists(own) /\ leads[own].contact = own /\ contacts[own] = "placeholder"
  /\ leads[own].by = j /\ (leads[own].used \/ leads[own].asset = "house")
  /\ \A l \in Leads : leads[l].by = j => l = own

JourneyFits(j) ==
  /\ submission[j].status = "none" =>
       submission[j].lead = None /\ \A l \in Leads : leads[l].by # j
  /\ submission[j].status = "address_only" => Placeholder(j)
  /\ submission[j].status = "completed" => OfSeller(submission[j].lead)

(* NoPlaceholderLeft for one journey. *)
NothingLeft(j) ==
  submission[j].status = "completed" =>
    \A l \in Leads : leads[l].by = j /\ leads[l].status = "open"
                      => l = submission[j].lead \/ leads[l].used \/ leads[l].owned

FormsFit == \A f \in Forms : form[f].lead # None => OfSeller(form[f].lead)

(* The placeholder that a request of its journey leaves has been worked on,*)
(* given an owner or closed.                                               *)
Left(j) ==
  LET own == submission[j].lead IN
  leads[own].used \/ leads[own].owned \/ leads[own].status = "closed"

WritingFits(q) ==
  /\ q.for \in Sources /\ q.seller \in Sellers /\ q.place \in Places
  /\ q.contact # None => contacts[q.contact] = q.seller
  /\ q.match # None =>
       q.contact # None /\ OfSeller(q.match) /\ leads[q.match].contact = q.contact
  /\ q.for \in Journeys =>
       /\ submission[q.for].status # "completed"
       /\ submission[q.for].status = "address_only" /\ q.match # None /\ ~q.discard => Left(q.for)

RequestFits(q) ==
  /\ q.at = "claimed" => q.for \in Forms
  /\ q.at = "created" => q.for \in Forms /\ OfSeller(q.match)
  /\ q.at = "writing" => WritingFits(q)

RequestsFit == \A r \in Requests : RequestFits(request[r])

JourneysExclude ==
  \A q, r \in Requests :
    (/\ request[q].at # "idle" /\ request[r].at # "idle"
     /\ request[q].for = request[r].for /\ request[q].for \in Journeys) => q = r

(* While requests do not overlap: one contact per seller, and what a       *)
(* request has not found is not there.                                     *)
OneContact == \A c, d \in Leads : contacts[c] = contacts[d] /\ contacts[c] \in Sellers => c = d

NoneFound(q) == \A l \in Matches(q.contact, q.place, q.asset) : leads[l].astray

StillMissing(q) ==
  q.at = "writing" =>
    /\ q.contact = None => \A c \in Leads : contacts[c] # q.seller
    /\ q.contact # None /\ q.match = None => NoneFound(q)

OneLead ==
  \A k, l \in Leads :
    (/\ leads[k].status = "open" /\ leads[l].status = "open" /\ leads[k].place = leads[l].place
     /\ leads[k].asset = leads[l].asset /\ ~leads[k].astray /\ ~leads[l].astray
     /\ leads[k].contact = leads[l].contact /\ contacts[leads[k].contact] \in Sellers)
      => k = l

Alone == OneAtATime => OneContact /\ OneLead /\ \A r \in Requests : StillMissing(request[r])

IntakeIInv ==
  /\ IntakeState /\ ContactsExist /\ FormsFit /\ RequestsFit /\ JourneysExclude
  /\ \A j \in Journeys : JourneyFits(j) /\ NothingLeft(j)
  /\ Alone

-----------------------------------------------------------------------------
LEMMA IntakeInitInv == IntakeInit => IntakeIInv
<1> SUFFICES ASSUME IntakeInit PROVE IntakeIInv
  OBVIOUS
<1> USE DEF IntakeInit
<1>1. /\ Unused \in SellerLeadRow /\ Unused.status = "none" /\ Unused.by = None
      /\ NoRequest \in RequestRow /\ NoRequest.at = "idle"
  BY AssetsAssumption DEF Unused, SellerLeadRow, NoRequest, RequestRow
<1>2. IntakeState
  <2>1. [status |-> "none", attempts |-> 0, lead |-> None, stale |-> FALSE] \in FormRow
    BY FormAttemptsAssumption DEF FormRow
  <2>2. [status |-> "none", lead |-> None]
          \in [status : {"none", "address_only", "completed"}, lead : Leads \cup {None}]
    OBVIOUS
  <2> QED BY <1>1, <2>1, <2>2 DEF IntakeState
<1>3. ContactsExist
  BY <1>1 DEF ContactsExist, Exists
<1>4. FormsFit
  BY DEF FormsFit
<1>5. RequestsFit /\ JourneysExclude
  BY <1>1 DEF RequestsFit, RequestFits, JourneysExclude
<1>6. ASSUME NEW j \in Journeys PROVE JourneyFits(j) /\ NothingLeft(j)
  BY <1>1, SourcesAssumption DEF JourneyFits, NothingLeft
<1>7. Alone
  BY <1>1, SellersAssumption DEF Alone, OneContact, OneLead, StillMissing, NoneFound
<1> QED BY <1>2, <1>3, <1>4, <1>5, <1>6, <1>7 DEF IntakeIInv

-----------------------------------------------------------------------------
(* Steps of one request that leave the leads alone. *)
LEMMA RequestStepKeeps ==
  ASSUME IntakeIInv, UNCHANGED <<leads, contacts, submission>>,
         form' \in [Forms -> FormRow],
         \A f \in Forms : form'[f].lead # None => OfSeller(form'[f].lead),
         NEW r \in Requests, NEW q \in RequestRow, request' = [request EXCEPT ![r] = q],
         RequestFits(q),
         q.at # "idle" /\ q.for \in Journeys =>
           \A v \in Requests \ {r} : request[v].at # "idle" => request[v].for # q.for,
         OneAtATime => StillMissing(q)
  PROVE  IntakeIInv'
<1>1. IntakeState'
  BY DEF IntakeIInv, IntakeState
<1>2. request'[r] = q /\ \A v \in Requests \ {r} : request'[v] = request[v]
  BY DEF IntakeIInv, IntakeState
<1>3. ContactsExist'
  BY DEF IntakeIInv, ContactsExist, Exists
<1>4. FormsFit'
  BY DEF FormsFit, OfSeller, Exists
<1>5. RequestsFit'
  <2> SUFFICES ASSUME NEW v \in Requests PROVE RequestFits(request[v])'
    BY DEF RequestsFit
  <2>1. PICK u : u = request'[v]
    OBVIOUS
  <2>2. RequestFits(u)
    BY <1>2, <2>1 DEF IntakeIInv, RequestsFit
  <2>3. RequestFits(u)'
    BY <2>2 DEF RequestFits, WritingFits, OfSeller, Exists, Left
  <2> QED BY <2>1, <2>3 DEF RequestFits, WritingFits, OfSeller, Exists, Left
<1>6. JourneysExclude'
  BY <1>2 DEF IntakeIInv, JourneysExclude
<1>7. ASSUME NEW j \in Journeys PROVE (JourneyFits(j) /\ NothingLeft(j))'
  BY DEF IntakeIInv, JourneyFits, Placeholder, OfSeller, Exists, NothingLeft
<1>8. Alone'
  <2> SUFFICES ASSUME OneAtATime'
               PROVE  (OneContact /\ OneLead /\ \A v \in Requests : StillMissing(request[v]))'
    BY DEF Alone
  <2>1. OneAtATime
    BY DEF OneAtATime, IntakeIInv, IntakeState
  <2>2. OneContact' /\ OneLead'
    BY <2>1 DEF IntakeIInv, Alone, OneContact, OneLead
  <2>3. \A v \in Requests : v = r
    BY <2>1 DEF OneAtATime, IntakeIInv, IntakeState
  <2>4. StillMissing(q)'
    BY <2>1 DEF StillMissing, NoneFound, Matches
  <2> QED BY <1>2, <2>2, <2>3, <2>4 DEF StillMissing, NoneFound, Matches
<1> QED BY <1>1, <1>3, <1>4, <1>5, <1>6, <1>7, <1>8 DEF IntakeIInv

LEMMA OwnIsColdLead ==
  ASSUME IntakeIInv, NEW j \in Journeys, submission[j].status = "address_only"
  PROVE  /\ submission[j].lead \in Leads /\ ~OfSeller(submission[j].lead)
         /\ \A k \in Journeys \ {j} : submission[k].lead # submission[j].lead
<1> DEFINE own == submission[j].lead
<1>1. Placeholder(j)
  BY DEF IntakeIInv, JourneyFits
<1>2. own \in Leads /\ ~OfSeller(own)
  BY <1>1, SellersAssumption DEF Placeholder, OfSeller
<1>3. ASSUME NEW k \in Journeys \ {j}, submission[k].lead = own PROVE FALSE
  <2>1. JourneyFits(k)
    BY DEF IntakeIInv
  <2>2. submission[k].status \in {"none", "address_only", "completed"}
    BY DEF IntakeIInv, IntakeState
  <2>3. submission[k].status # "none"
    BY <1>2, <1>3, <2>1, LeadsAssumption DEF JourneyFits
  <2>4. submission[k].status # "completed"
    BY <1>2, <1>3, <2>1 DEF JourneyFits
  <2>5. submission[k].status # "address_only"
    BY <1>1, <1>3, <2>1 DEF JourneyFits, Placeholder
  <2> QED BY <2>2, <2>3, <2>4, <2>5
<1> QED BY <1>2, <1>3

LEMMA ResolveFits ==
  ASSUME IntakeIInv, NEW r \in Requests, NEW x \in Sources, NEW s \in Sellers, NEW p \in Places,
         ResolveRecords(r, x, s, p), x \in Journeys => submission[x].status # "completed"
  PROVE  \E q \in RequestRow :
           /\ request' = [request EXCEPT ![r] = q] /\ q.at = "writing" /\ q.for = x
           /\ RequestFits(q) /\ StillMissing(q)
<1> DEFINE known == {c \in Leads : contacts[c] = s}
           own == IF x \in Journeys THEN submission[x].lead ELSE None
<1> DEFINE Read(a, c, l) ==
             [at |-> "writing", for |-> x, seller |-> s, place |-> p, asset |-> a,
              contact |-> c, match |-> l,
              discard |-> l \notin {None, own} /\ own # None /\ Discardable(x, own)]
<1>0. PICK a \in AssetClasses, c \in OrNone(known) :
        \E l \in OrNone(Matches(c, p, a)) : request' = [request EXCEPT ![r] = Read(a, c, l)]
  BY DEF ResolveRecords
<1>1. PICK l \in OrNone(Matches(c, p, a)) : request' = [request EXCEPT ![r] = Read(a, c, l)]
  BY <1>0
<1>2. PICK d \in BOOLEAN : d = (l \notin {None, own} /\ own # None /\ Discardable(x, own))
  OBVIOUS
<1>3. PICK q : q = [at |-> "writing", for |-> x, seller |-> s, place |-> p, asset |-> a,
                    contact |-> c, match |-> l, discard |-> d]
  OBVIOUS
<1>4. request' = [request EXCEPT ![r] = q]
  BY <1>1, <1>2, <1>3
<1>5. /\ c # None => c \in Leads /\ contacts[c] = s
      /\ c = None => known = {}
      /\ c \in Leads \cup {None}
  BY LeadsAssumption DEF OrNone
<1>6. c = None => Matches(c, p, a) = {}
  <2> SUFFICES ASSUME c = None, NEW k \in Matches(c, p, a) PROVE FALSE
    OBVIOUS
  <2>1. k \in Leads /\ Exists(k) /\ leads[k].contact = None
    BY DEF Matches, Exists
  <2> QED BY <2>1, LeadsAssumption DEF IntakeIInv, ContactsExist
<1>7. /\ l # None => l \in Leads /\ l \in Matches(c, p, a) /\ c # None
      /\ l = None => Matches(c, p, a) = {}
      /\ l \in Leads \cup {None}
  BY <1>6, LeadsAssumption DEF OrNone, Matches
<1>8. l # None => OfSeller(l) /\ leads[l].contact = c
  BY <1>5, <1>7 DEF OfSeller, Exists, Matches
<1>9. q \in RequestRow /\ q.at = "writing" /\ q.for = x
  BY <1>3, <1>5, <1>7 DEF RequestRow
<1>10. StillMissing(q)
  BY <1>3, <1>5, <1>7 DEF StillMissing, NoneFound
<1>11. ASSUME x \in Journeys, submission[x].status = "address_only", l # None, ~d
       PROVE  Left(x)
  <2>1. /\ submission[x].lead \in Leads /\ ~OfSeller(submission[x].lead) /\ Placeholder(x)
        /\ \A k \in Journeys \ {x} : submission[k].lead # submission[x].lead
    BY <1>11, OwnIsColdLead DEF IntakeIInv, JourneyFits
  <2>2. own = submission[x].lead /\ l \notin {None, own} /\ own # None
    BY <1>8, <1>11, <2>1, LeadsAssumption
  <2>3. ~Discardable(x, own)
    BY <1>2, <1>11, <2>2
  <2> QED BY <2>1, <2>2, <2>3 DEF Discardable, Placeholder, Left, Exists, IntakeIInv, IntakeState, SellerLeadRow
<1>12. WritingFits(q)
  BY <1>3, <1>5, <1>7, <1>8, <1>11 DEF WritingFits
<1> QED BY <1>4, <1>9, <1>10, <1>12 DEF RequestFits


LEMMA Step2Keeps ==
  ASSUME IntakeIInv, NEW r \in Requests, NEW j \in Journeys, NEW s \in Sellers, NEW p \in Places,
         Step2(r, j, s, p)
  PROVE  IntakeIInv'
<1>1. PICK q \in RequestRow :
        /\ request' = [request EXCEPT ![r] = q] /\ q.at = "writing" /\ q.for = j
        /\ RequestFits(q) /\ StillMissing(q)
  BY ResolveFits DEF Step2, Sources
<1>2. \A v \in Requests \ {r} : request[v].at # "idle" => request[v].for # q.for
  BY <1>1 DEF Step2, Busy
<1>3. /\ form' \in [Forms -> FormRow]
      /\ \A f \in Forms : form'[f].lead # None => OfSeller(form'[f].lead)
  BY DEF Step2, IntakeIInv, IntakeState, FormsFit
<1>4. UNCHANGED <<leads, contacts, submission>>
  BY DEF Step2
<1> QED BY <1>1, <1>2, <1>3, <1>4, RequestStepKeeps

LEMMA ReadFormKeeps ==
  ASSUME IntakeIInv, NEW r \in Requests, NEW s \in Sellers, NEW p \in Places, ReadForm(r, s, p)
  PROVE  IntakeIInv'
<1>1. request[r].for \in Forms /\ request[r].for \in Sources /\ request[r].for \notin Journeys
  BY SourcesAssumption DEF ReadForm, IntakeIInv, RequestsFit, RequestFits, Sources
<1>2. PICK q \in RequestRow :
        /\ request' = [request EXCEPT ![r] = q] /\ q.at = "writing" /\ q.for = request[r].for
        /\ RequestFits(q) /\ StillMissing(q)
  BY <1>1, ResolveFits DEF ReadForm
<1>3. /\ form' \in [Forms -> FormRow]
      /\ \A f \in Forms : form'[f].lead # None => OfSeller(form'[f].lead)
  BY DEF ReadForm, IntakeIInv, IntakeState, FormsFit
<1>4. UNCHANGED <<leads, contacts, submission>>
  BY DEF ReadForm
<1> QED BY <1>1, <1>2, <1>3, <1>4, RequestStepKeeps

(* A request that ends leaves nothing to hold. *)
LEMMA IdleFits ==
  /\ NoRequest \in RequestRow /\ NoRequest.at = "idle" /\ RequestFits(NoRequest)
  /\ StillMissing(NoRequest)
BY AssetsAssumption DEF NoRequest, RequestRow, RequestFits, StillMissing

LEMMA EventFacts ==
  ASSUME NEW e \in FormRow
  PROVE  /\ Failed(e) \in FormRow /\ Failed(e).lead = e.lead
         /\ Claimed(e) \in FormRow /\ Claimed(e).lead = e.lead
<1>1. PICK n : n = IF e.attempts < FormAttempts THEN e.attempts + 1 ELSE e.attempts
  OBVIOUS
<1>2. n \in 0..FormAttempts
  BY <1>1, FormAttemptsAssumption DEF FormRow
<1>3. Claimed(e) = [[[e EXCEPT !.status = "processing"] EXCEPT !.stale = FALSE] EXCEPT !.attempts = n]
  BY <1>1 DEF Claimed
<1>4. PICK s \in {"exhausted", "retry"} :
        s = IF e.attempts >= FormAttempts THEN "exhausted" ELSE "retry"
  OBVIOUS
<1>5. Failed(e) = [e EXCEPT !.status = s]
  BY <1>4 DEF Failed
<1>6. Claimed(e) \in FormRow /\ Claimed(e).lead = e.lead
  BY <1>2, <1>3 DEF FormRow
<1>7. Failed(e) \in FormRow /\ Failed(e).lead = e.lead
  BY <1>5 DEF FormRow
<1> QED BY <1>6, <1>7

(* An event whose lead stays leaves FormsFit alone. *)
LEMMA FormChanges ==
  ASSUME IntakeIInv, NEW f \in Forms, NEW e \in FormRow, form' = [form EXCEPT ![f] = e],
         e.lead # None => OfSeller(e.lead)
  PROVE  /\ form' \in [Forms -> FormRow]
         /\ \A g \in Forms : form'[g].lead # None => OfSeller(form'[g].lead)
BY DEF IntakeIInv, IntakeState, FormsFit

LEMMA FormSame ==
  ASSUME IntakeIInv, UNCHANGED form
  PROVE  /\ form' \in [Forms -> FormRow]
         /\ \A g \in Forms : form'[g].lead # None => OfSeller(form'[g].lead)
BY DEF IntakeIInv, IntakeState, FormsFit

LEMMA FormRows ==
  ASSUME IntakeIInv, NEW f \in Forms
  PROVE  form[f] \in FormRow /\ (form[f].lead # None => OfSeller(form[f].lead))
BY DEF IntakeIInv, IntakeState, FormsFit

LEMMA FailKeeps ==
  ASSUME IntakeIInv, NEW r \in Requests, Fail(r)
  PROVE  IntakeIInv'
<1>1. /\ form' \in [Forms -> FormRow]
      /\ \A g \in Forms : form'[g].lead # None => OfSeller(form'[g].lead)
  <2>1. CASE UNCHANGED form
    BY <2>1, FormSame
  <2>2. CASE /\ request[r].for \in Forms
             /\ form' = [form EXCEPT ![request[r].for] = Failed(form[request[r].for])]
    <3>1. PICK e : e = Failed(form[request[r].for])
      OBVIOUS
    <3>2. e \in FormRow /\ (e.lead # None => OfSeller(e.lead))
      BY <2>2, <3>1, FormRows, EventFacts
    <3> QED BY <2>2, <3>1, <3>2, FormChanges
  <2> QED BY <2>1, <2>2 DEF Fail
<1> QED BY <1>1, IdleFits, RequestStepKeeps DEF Fail

LEMMA ClaimFormKeeps ==
  ASSUME IntakeIInv, NEW r \in Requests, NEW f \in Forms, ClaimForm(r, f)
  PROVE  IntakeIInv'
<1>1. PICK q : q = [[NoRequest EXCEPT !.at = "claimed"] EXCEPT !.for = f]
  OBVIOUS
<1>2. /\ q \in RequestRow /\ q.at = "claimed" /\ q.for = f
  BY <1>1, IdleFits DEF RequestRow, Sources
<1>3. request' = [request EXCEPT ![r] = q]
  BY <1>1 DEF ClaimForm
<1>4. RequestFits(q) /\ StillMissing(q) /\ q.for \notin Journeys
  BY <1>2, SourcesAssumption DEF RequestFits, StillMissing
<1>5. PICK e : e = Claimed(form[f])
  OBVIOUS
<1>6. e \in FormRow /\ (e.lead # None => OfSeller(e.lead))
  BY <1>5, FormRows, EventFacts
<1>7. form' = [form EXCEPT ![f] = e]
  BY <1>5 DEF ClaimForm
<1>8. /\ form' \in [Forms -> FormRow]
      /\ \A g \in Forms : form'[g].lead # None => OfSeller(form'[g].lead)
  BY <1>6, <1>7, FormChanges
<1>9. UNCHANGED <<leads, contacts, submission>>
  BY DEF ClaimForm
<1> QED BY <1>2, <1>3, <1>4, <1>8, <1>9, RequestStepKeeps

LEMMA MarkProcessedKeeps ==
  ASSUME IntakeIInv, NEW r \in Requests, MarkProcessed(r)
  PROVE  IntakeIInv'
<1> DEFINE f == request[r].for
           l == request[r].match
<1>1. f \in Forms /\ OfSeller(l) /\ l \in Leads
  BY DEF MarkProcessed, IntakeIInv, RequestsFit, RequestFits, OfSeller
<1>2. PICK e : e = [[form[f] EXCEPT !.status = "processed"] EXCEPT !.lead = l]
  OBVIOUS
<1>3. e \in FormRow /\ e.lead = l
  BY <1>1, <1>2, FormRows DEF FormRow
<1>4. form' = [form EXCEPT ![f] = e]
  BY <1>2 DEF MarkProcessed
<1>5. /\ form' \in [Forms -> FormRow]
      /\ \A g \in Forms : form'[g].lead # None => OfSeller(form'[g].lead)
  BY <1>1, <1>3, <1>4, FormChanges
<1> QED BY <1>5, IdleFits, RequestStepKeeps DEF MarkProcessed

LEMMA NeedsReviewKeeps ==
  ASSUME IntakeIInv, NEW r \in Requests, NeedsReview(r)
  PROVE  IntakeIInv'
<1> DEFINE f == request[r].for
<1>1. f \in Forms
  BY DEF NeedsReview, IntakeIInv, RequestsFit, RequestFits
<1>2. PICK e : e = [form[f] EXCEPT !.status = "needs_review"]
  OBVIOUS
<1>3. e \in FormRow /\ e.lead = form[f].lead
  BY <1>1, <1>2, FormRows DEF FormRow
<1>4. form' = [form EXCEPT ![f] = e]
  BY <1>2 DEF NeedsReview
<1>5. /\ form' \in [Forms -> FormRow]
      /\ \A g \in Forms : form'[g].lead # None => OfSeller(form'[g].lead)
  BY <1>1, <1>3, <1>4, FormRows, FormChanges
<1> QED BY <1>5, IdleFits, RequestStepKeeps DEF NeedsReview

(* The events by themselves. *)
LEMMA FormStepKeeps ==
  ASSUME IntakeIInv, UNCHANGED <<leads, contacts, submission, request>>,
         NEW f \in Forms, NEW e \in FormRow, form' = [form EXCEPT ![f] = e], e.lead = form[f].lead
  PROVE  IntakeIInv'
<1>1. /\ form' \in [Forms -> FormRow]
      /\ \A g \in Forms : form'[g].lead # None => OfSeller(form'[g].lead)
  BY FormRows, FormChanges
<1>2. IntakeState' /\ ContactsExist'
  BY <1>1 DEF IntakeIInv, IntakeState, ContactsExist, Exists
<1>3. FormsFit'
  BY <1>1 DEF FormsFit, OfSeller, Exists
<1>4. RequestsFit' /\ JourneysExclude'
  BY DEF IntakeIInv, RequestsFit, RequestFits, WritingFits, OfSeller, Exists, Left, JourneysExclude
<1>5. ASSUME NEW j \in Journeys PROVE (JourneyFits(j) /\ NothingLeft(j))'
  BY DEF IntakeIInv, JourneyFits, Placeholder, OfSeller, Exists, NothingLeft
<1>6. Alone'
  BY DEF IntakeIInv, Alone, OneAtATime, OneContact, OneLead, StillMissing, NoneFound, Matches
<1> QED BY <1>2, <1>3, <1>4, <1>5, <1>6 DEF IntakeIInv

LEMMA ReceiveKeeps ==
  ASSUME IntakeIInv, NEW f \in Forms, Receive(f) \/ FiveMinutes(f)
  PROVE  IntakeIInv'
<1>1. PICK e : e = [form[f] EXCEPT !.status = "pending"]
  OBVIOUS
<1>2. PICK d : d = [form[f] EXCEPT !.stale = TRUE]
  OBVIOUS
<1>3. e \in FormRow /\ e.lead = form[f].lead /\ d \in FormRow /\ d.lead = form[f].lead
  BY <1>1, <1>2, FormRows DEF FormRow
<1>4. form' = [form EXCEPT ![f] = e] \/ form' = [form EXCEPT ![f] = d]
  BY <1>1, <1>2 DEF Receive, FiveMinutes
<1>5. UNCHANGED <<leads, contacts, submission, request>>
  BY DEF Receive, FiveMinutes
<1> QED BY <1>3, <1>4, <1>5, FormStepKeeps


-----------------------------------------------------------------------------
(* What a step may do to the leads: it makes new ones, and takes no lead of*)
(* a seller away; only the journey that moves changes its own placeholder. *)
OfSellerNext(l) ==
  /\ l \in Leads /\ leads'[l].status \in {"open", "closed"} /\ leads'[l].contact \in Leads
  /\ contacts'[leads'[l].contact] \in Sellers

SellersStay ==
  /\ \A c \in Leads : contacts[c] \in Sellers => contacts'[c] = contacts[c]
  /\ \A l \in Leads : OfSeller(l) =>
       leads'[l].status \in {"open", "closed"} /\ leads'[l].contact = leads[l].contact

SellerLeadMoves(l) ==
  \/ leads[l].status = "none"
  \/ /\ leads'[l].by = leads[l].by
     /\ (leads[l].used => leads'[l].used) /\ (leads[l].owned => leads'[l].owned)
     /\ leads'[l].status = "open" => leads[l].status = "open"

JourneyStays(k) ==
  /\ submission'[k] = submission[k]
  /\ \A l \in Leads : leads'[l].by = k => leads[l].by = k
  /\ submission[k].status = "address_only" =>
       LET own == submission[k].lead IN
       /\ leads'[own].status \in {"open", "closed"} /\ leads'[own].by = leads[own].by
       /\ leads'[own].contact = leads[own].contact /\ contacts'[own] = contacts[own]
       /\ (leads[own].status = "closed" => leads'[own].status = "closed")
       /\ leads'[own].used \/ (leads'[own].asset = leads[own].asset /\ ~leads[own].used)

RequestMoves(r, j) ==
  \/ request'[r] = request[r] /\ (request[r].at # "idle" /\ j \in Journeys => request[r].for # j)
  \/ request'[r].at = "idle"
  \/ request'[r].at = "created" /\ request'[r].for \in Forms /\ OfSellerNext(request'[r].match)

LEMMA SellersKept ==
  ASSUME SellersStay, NEW l, OfSeller(l)
  PROVE  OfSellerNext(l) /\ leads'[l].contact = leads[l].contact
BY DEF SellersStay, OfSeller, OfSellerNext, Exists

LEMMA LeadStepKeeps ==
  ASSUME IntakeIInv, NEW j, SellersStay,
         leads' \in [Leads -> SellerLeadRow],
         contacts' \in [Leads -> Sellers \cup {"none", "placeholder"}],
         submission' \in [Journeys ->
           [status : {"none", "address_only", "completed"}, lead : Leads \cup {None}]],
         request' \in [Requests -> RequestRow], UNCHANGED form,
         ContactsExist', Alone',
         \A l \in Leads : SellerLeadMoves(l),
         \A k \in Journeys : k # j => JourneyStays(k),
         j \in Journeys => (JourneyFits(j) /\ NothingLeft(j))',
         \A r \in Requests : RequestMoves(r, j)
  PROVE  IntakeIInv'
<1>1. IntakeState'
  BY DEF IntakeIInv, IntakeState
<1>2. \A l : OfSellerNext(l) <=> OfSeller(l)'
  BY DEF OfSellerNext, OfSeller, Exists
<1>3. FormsFit'
  BY <1>2, SellersKept DEF IntakeIInv, FormsFit, OfSellerNext, OfSeller, Exists
<1>4. ASSUME NEW k \in Journeys, k # j PROVE JourneyFits(k)' /\ NothingLeft(k)'
  <2>1. JourneyStays(k) /\ JourneyFits(k) /\ NothingLeft(k)
    BY <1>4 DEF IntakeIInv
  <2>2. submission'[k].status = "none" =>
          submission'[k].lead = None /\ \A l \in Leads : leads'[l].by # k
    BY <2>1 DEF JourneyStays, JourneyFits
  <2>3. submission[k].status = "address_only" => Placeholder(k)'
    BY <2>1 DEF JourneyStays, JourneyFits, Placeholder, Exists
  <2>4. submission[k].status = "completed" => OfSellerNext(submission[k].lead)
    BY <2>1, SellersKept DEF JourneyFits
  <2>5. JourneyFits(k)'
    BY <2>1, <2>2, <2>3, <2>4 DEF JourneyStays, JourneyFits, OfSellerNext, OfSeller, Exists
  <2>6. NothingLeft(k)'
    <3> SUFFICES ASSUME submission[k].status = "completed", NEW l \in Leads, leads'[l].by = k,
                        leads'[l].status = "open"
                 PROVE  l = submission[k].lead \/ leads'[l].used \/ leads'[l].owned
      BY <2>1 DEF NothingLeft, JourneyStays
    <3>1. leads[l].by = k
      BY <2>1 DEF JourneyStays
    <3>2. leads[l].status # "none"
      BY <3>1, SourcesAssumption DEF IntakeIInv, ContactsExist
    <3>3. /\ leads[l].status = "open" /\ (leads[l].used => leads'[l].used)
          /\ leads[l].owned => leads'[l].owned
      BY <3>2 DEF SellerLeadMoves
    <3> QED BY <2>1, <3>1, <3>3 DEF NothingLeft
  <2> QED BY <2>5, <2>6
<1>5. RequestsFit'
  <2> SUFFICES ASSUME NEW r \in Requests PROVE RequestFits(request[r])'
    BY DEF RequestsFit
  <2>1. RequestMoves(r, j)
    OBVIOUS
  <2>2. CASE request'[r].at = "idle"
    BY <2>2 DEF RequestFits
  <2>3. CASE request'[r].at = "created" /\ request'[r].for \in Forms
               /\ OfSellerNext(request'[r].match)
    BY <2>3 DEF RequestFits, OfSellerNext, OfSeller, Exists
  <2>4. CASE /\ request'[r] = request[r] /\ request[r].at # "idle"
             /\ j \in Journeys => request[r].for # j
    <3> DEFINE q == request[r]
    <3>1. RequestFits(q) /\ q \in RequestRow
      BY DEF IntakeIInv, RequestsFit, IntakeState
    <3>2. CASE q.at = "claimed"
      BY <2>4, <3>1, <3>2 DEF RequestFits
    <3>3. CASE q.at = "created"
      <4>1. OfSellerNext(q.match)
        BY <3>1, <3>3, SellersKept DEF RequestFits
      <4> QED BY <2>4, <3>1, <3>3, <4>1 DEF RequestFits, OfSellerNext, OfSeller, Exists
    <3>4. CASE q.at = "writing"
      <4>1. WritingFits(q)
        BY <3>1, <3>4 DEF RequestFits
      <4>2. q.contact # None => contacts'[q.contact] = q.seller
        BY <3>1, <4>1 DEF WritingFits, SellersStay, RequestRow
      <4>3. q.match # None => /\ q.contact # None /\ OfSellerNext(q.match)
                              /\ leads'[q.match].contact = q.contact
        BY <4>1, SellersKept DEF WritingFits
      <4>4. ASSUME q.for \in Journeys
            PROVE  /\ submission'[q.for].status # "completed"
                   /\ submission'[q.for].status = "address_only" /\ q.match # None /\ ~q.discard
                        => Left(q.for)'
        <5>1. JourneyStays(q.for) /\ JourneyFits(q.for)
          BY <2>4, <4>4 DEF IntakeIInv
        <5>2. submission'[q.for] = submission[q.for] /\ submission[q.for].status # "completed"
          BY <4>1, <4>4, <5>1 DEF JourneyStays, WritingFits
        <5>3. ASSUME submission[q.for].status = "address_only", q.match # None, ~q.discard
              PROVE  Left(q.for)'
          <6> DEFINE own == submission[q.for].lead
          <6>1. Left(q.for) /\ Placeholder(q.for)
            BY <4>1, <4>4, <5>1, <5>3 DEF WritingFits, JourneyFits
          <6>2. (leads[own].used => leads'[own].used) /\ (leads[own].owned => leads'[own].owned)
            BY <6>1 DEF SellerLeadMoves, Placeholder, Exists
          <6>3. leads[own].status = "closed" => leads'[own].status = "closed"
            BY <5>1, <5>3 DEF JourneyStays
          <6> QED BY <2>4, <5>2, <6>1, <6>2, <6>3 DEF Left
        <5> QED BY <5>2, <5>3
      <4>5. WritingFits(request[r])'
        BY <2>4, <4>1, <4>2, <4>3, <4>4 DEF WritingFits, OfSellerNext, OfSeller, Exists
      <4> QED BY <2>4, <3>4, <4>5 DEF RequestFits
    <3> QED BY <2>4, <3>1, <3>2, <3>3, <3>4 DEF RequestRow
  <2> QED BY <2>1, <2>2, <2>3, <2>4 DEF RequestMoves
<1>6. JourneysExclude'
  <2>1. \A r \in Requests : request'[r].at # "idle" /\ request'[r].for \in Journeys
                              => request'[r] = request[r]
    BY SourcesAssumption DEF RequestMoves
  <2> QED BY <2>1 DEF IntakeIInv, JourneysExclude
<1>7. \A k \in Journeys : (JourneyFits(k) /\ NothingLeft(k))'
  BY <1>4
<1> QED BY <1>1, <1>3, <1>5, <1>6, <1>7 DEF IntakeIInv


(* Steps that leave the sellers' leads alone do not make a second one.     *)
Quiet ==
  /\ \A c \in Leads : contacts'[c] \in Sellers => contacts'[c] = contacts[c]
  /\ \A l \in Leads : leads'[l].status = "open" /\ contacts'[leads'[l].contact] \in Sellers =>
       /\ leads[l].status = "open" /\ leads'[l].contact = leads[l].contact
       /\ leads'[l].place = leads[l].place
       /\ leads'[l].astray \/ (leads'[l].asset = leads[l].asset /\ ~leads[l].astray)

LEMMA QuietKeepsAlone ==
  ASSUME IntakeIInv, Quiet, SellersStay, ContactsExist',
         leads' \in [Leads -> SellerLeadRow], request' \in [Requests -> RequestRow],
         \A r \in Requests : request'[r] = request[r] \/ request'[r].at # "writing"
  PROVE  Alone'
<1> SUFFICES ASSUME OneAtATime'
             PROVE  (OneContact /\ OneLead /\ \A v \in Requests : StillMissing(request[v]))'
  BY DEF Alone
<1>1. OneAtATime
  BY DEF OneAtATime, IntakeIInv, IntakeState
<1>2. OneContact /\ OneLead /\ \A r \in Requests : StillMissing(request[r])
  BY <1>1 DEF IntakeIInv, Alone
<1>3. OneContact'
  BY <1>2 DEF OneContact, Quiet
<1>4. OneLead'
  <2> SUFFICES ASSUME NEW k \in Leads, NEW l \in Leads,
                      leads'[k].status = "open", leads'[l].status = "open",
                      leads'[k].place = leads'[l].place, leads'[k].contact = leads'[l].contact,
                      leads'[k].asset = leads'[l].asset, ~leads'[k].astray, ~leads'[l].astray,
                      contacts'[leads'[k].contact] \in Sellers
               PROVE  k = l
    BY DEF OneLead
  <2>1. leads'[k].contact \in Leads
    BY DEF ContactsExist, Exists
  <2>2. contacts[leads[k].contact] \in Sellers
    BY <2>1 DEF Quiet
  <2> QED BY <1>2, <2>2 DEF Quiet, OneLead
<1>5. ASSUME NEW r \in Requests PROVE StillMissing(request[r])'
  <2> SUFFICES ASSUME request'[r] = request[r], request[r].at = "writing"
               PROVE  StillMissing(request[r])'
    BY DEF StillMissing
  <2> DEFINE q == request[r]
  <2>1. q \in RequestRow /\ WritingFits(q) /\ StillMissing(q)
    BY <1>2 DEF IntakeIInv, IntakeState, RequestsFit, RequestFits
  <2>2. q.contact = None => \A c \in Leads : contacts'[c] # q.seller
    BY <2>1 DEF StillMissing, Quiet, WritingFits
  <2>3. ASSUME q.contact # None, q.match = None,
               NEW l \in Leads, leads'[l].status = "open", leads'[l].contact = q.contact,
               leads'[l].place = q.place, leads'[l].asset = q.asset, ~leads'[l].astray
        PROVE  FALSE
    <3>1. contacts'[q.contact] \in Sellers
      BY <2>1, <2>3 DEF WritingFits, SellersStay, RequestRow
    <3>2. l \in Matches(q.contact, q.place, q.asset) /\ ~leads[l].astray
      BY <2>3, <3>1 DEF Quiet, Matches
    <3> QED BY <2>1, <2>3, <3>2 DEF StillMissing, NoneFound
  <2> QED BY <2>2, <2>3 DEF StillMissing, NoneFound, Matches
<1> QED BY <1>3, <1>4, <1>5

LEMMA UseKeeps ==
  ASSUME IntakeIInv, NEW l \in Leads, NEW k \in AssetClasses,
         Use(l) \/ Close(l) \/ Own(l) \/ Reclassify(l, k)
  PROVE  IntakeIInv'
<1>1. PICK u : u = [leads[l] EXCEPT !.used = TRUE]
  OBVIOUS
<1>2. PICK c : c = [leads[l] EXCEPT !.status = "closed"]
  OBVIOUS
<1>3. PICK o : o = [leads[l] EXCEPT !.owned = TRUE]
  OBVIOUS
<1>4. PICK a : a = [[leads[l] EXCEPT !.asset = k] EXCEPT !.astray = TRUE]
  OBVIOUS
<1>5. /\ leads \in [Leads -> SellerLeadRow] /\ leads[l] \in SellerLeadRow /\ request \in [Requests -> RequestRow]
      /\ contacts \in [Leads -> Sellers \cup {"none", "placeholder"}]
      /\ submission \in [Journeys ->
           [status : {"none", "address_only", "completed"}, lead : Leads \cup {None}]]
  BY DEF IntakeIInv, IntakeState
<1>6. PICK n : /\ leads' = [leads EXCEPT ![l] = n]
               /\ n \in {u, c, o} \/ (n = a /\ leads[l].used)
  <2>1. CASE Use(l) \/ Close(l) \/ Own(l)
    BY <1>1, <1>2, <1>3, <2>1 DEF Use, Close, Own
  <2>2. CASE Reclassify(l, k)
    <3>1. leads' = [leads EXCEPT ![l] = a] /\ leads[l].used
      BY <1>4, <1>5, <2>2 DEF Reclassify
    <3> QED BY <3>1
  <2> QED BY <2>1, <2>2
<1>7. leads[l].status = "open"
  BY DEF Use, Close, Own, Reclassify
<1>8. /\ n \in SellerLeadRow /\ n.by = leads[l].by /\ n.contact = leads[l].contact
      /\ n.place = leads[l].place /\ (leads[l].used => n.used) /\ (leads[l].owned => n.owned)
      /\ n.status \in {"open", "closed"}
      /\ n.asset = leads[l].asset \/ (n.used /\ n.astray)
      /\ n.astray = leads[l].astray \/ n.astray
  BY <1>1, <1>2, <1>3, <1>4, <1>5, <1>6, <1>7 DEF SellerLeadRow
<1>9. /\ leads' \in [Leads -> SellerLeadRow] /\ leads'[l] = n
      /\ \A b \in Leads : b # l => leads'[b] = leads[b]
      /\ UNCHANGED <<contacts, submission, form, request>>
  BY <1>5, <1>6, <1>8 DEF Use, Close, Own, Reclassify
<1>10. \A b \in Leads :
         /\ SellerLeadMoves(b) /\ leads'[b].by = leads[b].by
         /\ leads'[b].contact = leads[b].contact /\ leads'[b].place = leads[b].place
         /\ leads'[b].status = "open" => leads[b].status = "open"
         /\ Exists(b) => leads'[b].status \in {"open", "closed"}
         /\ leads'[b].status \in {"open", "closed"} => Exists(b)
         /\ leads[b].status = "none" <=> leads'[b].status = "none"
         /\ leads[b].status = "closed" => leads'[b].status = "closed"
         /\ leads[b].used => leads'[b].used
         /\ leads'[b].asset = leads[b].asset \/ (leads'[b].used /\ leads'[b].astray)
         /\ leads'[b].astray = leads[b].astray \/ leads'[b].astray
  BY <1>7, <1>8, <1>9 DEF SellerLeadMoves, Exists
<1>11. SellersStay
  BY <1>9, <1>10 DEF SellersStay, OfSeller
<1>12. Quiet
  BY <1>5, <1>9, <1>10 DEF Quiet, SellerLeadRow
<1>13. ContactsExist'
  BY <1>9, <1>10 DEF IntakeIInv, ContactsExist, Exists
<1>14. Alone'
  BY <1>5, <1>9, <1>11, <1>12, <1>13, QuietKeepsAlone
<1>15. ASSUME NEW j \in Journeys PROVE JourneyStays(j)
  <2>1. submission[j].status = "address_only" => submission[j].lead \in Leads
                                                 /\ Exists(submission[j].lead)
    BY DEF IntakeIInv, JourneyFits, Placeholder
  <2> QED BY <1>9, <1>10, <2>1 DEF JourneyStays
<1>16. \A r \in Requests : RequestMoves(r, None)
  BY <1>9, SourcesAssumption DEF RequestMoves
<1> QED
  BY <1>5, <1>9, <1>10, <1>11, <1>13, <1>14, <1>15, <1>16, SourcesAssumption, LeadStepKeeps


LEMMA IntakeTypes ==
  ASSUME IntakeIInv
  PROVE  /\ leads \in [Leads -> SellerLeadRow] /\ request \in [Requests -> RequestRow]
         /\ contacts \in [Leads -> Sellers \cup {"none", "placeholder"}]
         /\ submission \in [Journeys ->
              [status : {"none", "address_only", "completed"}, lead : Leads \cup {None}]]
BY DEF IntakeIInv, IntakeState

(* What the rest of the leads sees of a new lead. *)
LEMMA NewLead ==
  ASSUME IntakeIInv, NEW l \in Leads, leads[l].status = "none", NEW n \in SellerLeadRow,
         n.status = "open", leads' = [leads EXCEPT ![l] = n],
         NEW c \in Sellers \cup {"none", "placeholder"}, contacts' = [contacts EXCEPT ![l] = c]
  PROVE  /\ leads' \in [Leads -> SellerLeadRow] /\ leads'[l] = n
         /\ \A k \in Leads : k # l => leads'[k] = leads[k] /\ contacts'[k] = contacts[k]
         /\ contacts' \in [Leads -> Sellers \cup {"none", "placeholder"}] /\ contacts'[l] = c
         /\ contacts[l] = "none" /\ leads[l].by = None
         /\ SellersStay /\ \A k \in Leads : SellerLeadMoves(k)
         /\ \A k \in Leads : Exists(k) => leads[k].contact # l
         /\ \A k \in Journeys : submission'[k] = submission[k] /\ n.by # k => JourneyStays(k)
<1>1. /\ leads' \in [Leads -> SellerLeadRow] /\ leads'[l] = n
      /\ \A k \in Leads : k # l => leads'[k] = leads[k] /\ contacts'[k] = contacts[k]
      /\ contacts' \in [Leads -> Sellers \cup {"none", "placeholder"}] /\ contacts'[l] = c
  BY IntakeTypes
<1>2. contacts[l] = "none" /\ leads[l].by = None
  BY DEF IntakeIInv, ContactsExist
<1>3. \A k \in Leads : Exists(k) => leads[k].contact # l
  BY <1>2 DEF IntakeIInv, ContactsExist
<1>4. SellersStay
  BY <1>1, <1>2, SellersAssumption DEF SellersStay, OfSeller, Exists
<1>5. \A k \in Leads : SellerLeadMoves(k)
  BY <1>1 DEF SellerLeadMoves
<1>6. ASSUME NEW k \in Journeys, submission'[k] = submission[k], n.by # k PROVE JourneyStays(k)
  <2>1. submission[k].status = "address_only" => Placeholder(k)
    BY DEF IntakeIInv, JourneyFits
  <2> QED BY <1>1, <1>6, <2>1 DEF JourneyStays, Placeholder, Exists
<1> QED BY <1>1, <1>2, <1>3, <1>4, <1>5, <1>6

LEMMA Step1Keeps ==
  ASSUME IntakeIInv, NEW j \in Journeys, NEW p \in Places, Step1(j, p)
  PROVE  IntakeIInv'
<1>1. /\ UNCHANGED <<form, request>>
      /\ \A r \in Requests : RequestMoves(r, j)
      /\ request' \in [Requests -> RequestRow]
  BY IntakeTypes DEF Step1, Busy, RequestMoves
<1>2. ASSUME submission[j].status = "none", NEW l \in Fresh, NEW routed \in BOOLEAN,
             leads' = [leads EXCEPT ![l] = [Unused EXCEPT
               !.status = "open", !.contact = l, !.place = p, !.owned = routed, !.by = j]],
             contacts' = [contacts EXCEPT ![l] = "placeholder"],
             submission' = [submission EXCEPT ![j] = [status |-> "address_only", lead |-> l]]
      PROVE  IntakeIInv'
  <2>1. PICK n : n = [Unused EXCEPT
          !.status = "open", !.contact = l, !.place = p, !.owned = routed, !.by = j]
    OBVIOUS
  <2>2. /\ l \in Leads /\ leads[l].status = "none" /\ leads' = [leads EXCEPT ![l] = n]
        /\ n \in SellerLeadRow /\ n.status = "open" /\ n.by = j /\ n.contact = l /\ n.asset = "house"
    BY <1>2, <2>1, AssetsAssumption DEF Fresh, Unused, SellerLeadRow, Sources
  <2>3. /\ leads' \in [Leads -> SellerLeadRow] /\ leads'[l] = n
        /\ \A k \in Leads : k # l => leads'[k] = leads[k] /\ contacts'[k] = contacts[k]
        /\ contacts' \in [Leads -> Sellers \cup {"none", "placeholder"}]
        /\ contacts'[l] = "placeholder" /\ contacts[l] = "none"
        /\ SellersStay /\ \A k \in Leads : SellerLeadMoves(k)
        /\ \A k \in Leads : Exists(k) => leads[k].contact # l
        /\ \A k \in Journeys : submission'[k] = submission[k] /\ n.by # k => JourneyStays(k)
    <3>1. PICK c \in Sellers \cup {"none", "placeholder"} : c = "placeholder"
      OBVIOUS
    <3>2. contacts' = [contacts EXCEPT ![l] = c]
      BY <1>2, <3>1
    <3>3. /\ leads' \in [Leads -> SellerLeadRow] /\ leads'[l] = n
          /\ \A k \in Leads : k # l => leads'[k] = leads[k] /\ contacts'[k] = contacts[k]
          /\ contacts' \in [Leads -> Sellers \cup {"none", "placeholder"}]
          /\ contacts'[l] = c /\ contacts[l] = "none"
          /\ SellersStay /\ \A k \in Leads : SellerLeadMoves(k)
          /\ \A k \in Leads : Exists(k) => leads[k].contact # l
          /\ \A k \in Journeys : submission'[k] = submission[k] /\ n.by # k => JourneyStays(k)
      BY <2>2, <3>2, NewLead
    <3> QED BY <3>1, <3>3
  <2>4. /\ submission' \in [Journeys ->
             [status : {"none", "address_only", "completed"}, lead : Leads \cup {None}]]
        /\ submission'[j].status = "address_only" /\ submission'[j].lead = l
        /\ \A k \in Journeys : k # j => submission'[k] = submission[k]
    BY <1>2, <2>2, IntakeTypes
  <2>5. ContactsExist'
    BY <2>2, <2>3 DEF IntakeIInv, ContactsExist, Exists
  <2>6. Quiet
    BY <2>2, <2>3, <2>5, SellersAssumption DEF Quiet, ContactsExist, Exists
  <2>7. Alone'
    BY <1>1, <2>3, <2>5, <2>6, QuietKeepsAlone
  <2>8. JourneyFits(j)' /\ NothingLeft(j)'
    <3>1. \A k \in Leads : leads'[k].by = j => k = l
      BY <1>2, <2>3 DEF IntakeIInv, JourneyFits
    <3> QED BY <2>2, <2>3, <2>4, <3>1 DEF JourneyFits, Placeholder, NothingLeft, Exists
  <2> QED BY <1>1, <2>2, <2>3, <2>4, <2>5, <2>7, <2>8, LeadStepKeeps
<1>3. ASSUME submission[j].status = "address_only", UNCHANGED <<contacts, submission>>,
             leads' = [leads EXCEPT ![submission[j].lead].place = p]
      PROVE  IntakeIInv'
  <2> DEFINE own == submission[j].lead
  <2>1. Placeholder(j) /\ own \in Leads
    BY <1>3 DEF IntakeIInv, JourneyFits, Placeholder
  <2>2. PICK n : n = [leads[own] EXCEPT !.place = p]
    OBVIOUS
  <2>3. /\ n \in SellerLeadRow /\ n.status = leads[own].status /\ n.by = leads[own].by
        /\ n.contact = leads[own].contact /\ n.used = leads[own].used
        /\ n.owned = leads[own].owned /\ n.asset = leads[own].asset
    BY <2>1, <2>2, IntakeTypes DEF SellerLeadRow
  <2>4. leads' = [leads EXCEPT ![own] = n]
    BY <1>3, <2>2
  <2>5. /\ leads' \in [Leads -> SellerLeadRow]
        /\ \A k \in Leads : k # own => leads'[k] = leads[k]
        /\ \A k \in Leads : /\ leads'[k].status = leads[k].status /\ leads'[k].by = leads[k].by
                            /\ leads'[k].contact = leads[k].contact
                            /\ leads'[k].used = leads[k].used /\ leads'[k].owned = leads[k].owned
                            /\ leads'[k].asset = leads[k].asset
    BY <2>1, <2>3, <2>4, IntakeTypes
  <2>6. SellersStay /\ \A k \in Leads : SellerLeadMoves(k)
    BY <1>3, <2>5 DEF SellersStay, SellerLeadMoves, OfSeller, Exists
  <2>7. Quiet
    BY <1>3, <2>1, <2>5, SellersAssumption DEF Quiet, Placeholder
  <2>8. ContactsExist'
    BY <1>3, <2>5 DEF IntakeIInv, ContactsExist, Exists
  <2>9. Alone'
    BY <1>1, <2>5, <2>6, <2>7, <2>8, QuietKeepsAlone
  <2>10. \A k \in Journeys : JourneyStays(k)
    BY <1>3, <2>5 DEF JourneyStays, IntakeIInv, JourneyFits, Placeholder, Exists
  <2>11. JourneyFits(j)' /\ NothingLeft(j)'
    BY <1>3, <2>1, <2>5 DEF JourneyFits, Placeholder, NothingLeft, Exists
  <2> QED BY <1>1, <1>3, <2>5, <2>6, <2>8, <2>9, <2>10, <2>11, IntakeTypes, LeadStepKeeps
<1> QED BY <1>2, <1>3 DEF Step1


-----------------------------------------------------------------------------
(* The commit of a request. *)
LEMMA AfterFacts ==
  ASSUME IntakeIInv, NEW r \in Requests, request[r].at = "writing", NEW l \in Leads,
         After(r, l), OfSellerNext(l)
  PROVE  /\ submission' \in [Journeys ->
              [status : {"none", "address_only", "completed"}, lead : Leads \cup {None}]]
         /\ request' \in [Requests -> RequestRow]
         /\ \A v \in Requests : RequestMoves(v, request[r].for)
         /\ \A v \in Requests : request'[v] = request[v] \/ request'[v].at # "writing"
         /\ request'[r].at # "writing"
         /\ \A k \in Journeys : k # request[r].for => submission'[k] = submission[k]
         /\ request[r].for \in Journeys =>
              /\ submission'[request[r].for].status = "completed"
              /\ submission'[request[r].for].lead = l
<1> DEFINE x == request[r].for
<1>1. x \in Sources
  BY DEF IntakeIInv, RequestsFit, RequestFits, WritingFits
<1>2. PICK q : q = IF x \in Journeys THEN NoRequest ELSE Created(x, l)
  OBVIOUS
<1>3. request' = [request EXCEPT ![r] = q]
  BY <1>2 DEF After
<1>4. /\ q \in RequestRow
      /\ q.at = "idle" \/ (q.at = "created" /\ q.for = x /\ q.match = l /\ x \in Forms)
  <2>1. CASE x \in Journeys
    BY <1>2, <2>1, IdleFits
  <2>2. CASE x \notin Journeys
    <3>1. q = [[[NoRequest EXCEPT !.at = "created"] EXCEPT !.for = x] EXCEPT !.match = l]
      BY <1>2, <2>2 DEF Created
    <3> QED BY <1>1, <2>2, <3>1, IdleFits DEF RequestRow, Sources
  <2> QED BY <2>1, <2>2
<1>5. /\ request' \in [Requests -> RequestRow] /\ request'[r] = q
      /\ \A v \in Requests : v # r => request'[v] = request[v]
  BY <1>3, <1>4, IntakeTypes
<1>6. RequestMoves(r, x)
  BY <1>4, <1>5 DEF RequestMoves
<1>7. ASSUME NEW v \in Requests, v # r PROVE RequestMoves(v, x)
  BY <1>5, <1>7 DEF RequestMoves, IntakeIInv, JourneysExclude
<1>8. /\ submission' \in [Journeys ->
           [status : {"none", "address_only", "completed"}, lead : Leads \cup {None}]]
      /\ \A k \in Journeys : k # x => submission'[k] = submission[k]
      /\ x \in Journeys => submission'[x].status = "completed" /\ submission'[x].lead = l
  BY IntakeTypes DEF After
<1> QED BY <1>4, <1>5, <1>6, <1>7, <1>8

LEMMA CommitStepKeeps ==
  ASSUME IntakeIInv, NEW r \in Requests, request[r].at = "writing", NEW l \in Leads,
         After(r, l), OfSellerNext(l), SellersStay, UNCHANGED form,
         leads' \in [Leads -> SellerLeadRow],
         contacts' \in [Leads -> Sellers \cup {"none", "placeholder"}],
         ContactsExist', OneAtATime => OneContact' /\ OneLead',
         \A k \in Leads : SellerLeadMoves(k),
         \A k \in Journeys :
           k # request[r].for /\ submission'[k] = submission[k] => JourneyStays(k),
         request[r].for \in Journeys =>
           \A k \in Leads : leads'[k].by = request[r].for /\ leads'[k].status = "open"
                              => k = l \/ leads'[k].used \/ leads'[k].owned
  PROVE  IntakeIInv'
<1>0. PICK x : x = request[r].for
  OBVIOUS
<1>1. /\ submission' \in [Journeys ->
           [status : {"none", "address_only", "completed"}, lead : Leads \cup {None}]]
      /\ request' \in [Requests -> RequestRow]
      /\ \A v \in Requests : RequestMoves(v, x)
      /\ request'[r].at # "writing"
      /\ \A k \in Journeys : k # x => submission'[k] = submission[k]
      /\ x \in Journeys => submission'[x].status = "completed" /\ submission'[x].lead = l
  BY <1>0, AfterFacts
<1>2. Alone'
  <2> SUFFICES ASSUME OneAtATime'
               PROVE  (OneContact /\ OneLead /\ \A v \in Requests : StillMissing(request[v]))'
    BY DEF Alone
  <2>1. OneAtATime /\ \A v \in Requests : v = r
    BY <1>1, IntakeTypes DEF OneAtATime
  <2> QED BY <1>1, <2>1 DEF StillMissing
<1>3. ASSUME x \in Journeys PROVE (JourneyFits(x) /\ NothingLeft(x))'
  <2>1. submission'[x].status = "completed" /\ submission'[x].lead = l
    BY <1>1, <1>3
  <2>2. JourneyFits(x)'
    BY <2>1 DEF JourneyFits, OfSeller, OfSellerNext, Exists
  <2>3. NothingLeft(x)'
    BY <1>0, <1>3, <2>1 DEF NothingLeft
  <2> QED BY <2>2, <2>3
<1>4. \A k \in Journeys : k # x => JourneyStays(k)
  BY <1>0, <1>1
<1> QED BY <1>1, <1>2, <1>3, <1>4, LeadStepKeeps

(* What is known of a journey that commits with a placeholder of its own.  *)
OwnCommits(r, x, own) ==
  /\ request[r].at = "writing" /\ request[r].for = x /\ x \in Journeys
  /\ submission[x].status = "address_only" /\ own = submission[x].lead

LEMMA OwnFacts ==
  ASSUME IntakeIInv, NEW r \in Requests, NEW x \in Journeys, NEW own, OwnCommits(r, x, own)
  PROVE  /\ own \in Leads /\ Exists(own) /\ leads[own].contact = own
         /\ contacts[own] = "placeholder" /\ leads[own].by = x /\ ~OfSeller(own)
         /\ \A l \in Leads : leads[l].by = x => l = own
         /\ WritingFits(request[r])
         /\ \A l \in Leads : l # own /\ Exists(l) => leads[l].contact # own
         /\ \A k \in Journeys : k # x => submission[k].lead # own
<1>1. Placeholder(x) /\ ~OfSeller(own) /\ \A k \in Journeys : k # x => submission[k].lead # own
  BY OwnIsColdLead DEF OwnCommits, IntakeIInv, JourneyFits
<1>2. \A l \in Leads : l # own /\ Exists(l) => leads[l].contact # own
  BY <1>1 DEF OwnCommits, Placeholder, IntakeIInv, ContactsExist
<1>3. WritingFits(request[r])
  BY DEF OwnCommits, IntakeIInv, RequestsFit, RequestFits
<1> QED BY <1>1, <1>2, <1>3 DEF OwnCommits, Placeholder

(* What the others see of a change of the placeholder and its contact.     *)
LEMMA OwnChanges ==
  ASSUME IntakeIInv, NEW r \in Requests, NEW x \in Journeys, NEW own, OwnCommits(r, x, own),
         \A k \in Leads : k # own => leads'[k] = leads[k] /\ contacts'[k] = contacts[k],
         leads'[own].by = x, leads[own].used => leads'[own].used,
         leads[own].owned => leads'[own].owned,
         leads'[own].status = leads[own].status \/ leads'[own].status = "gone"
  PROVE  /\ SellersStay /\ \A k \in Leads : SellerLeadMoves(k)
         /\ \A k \in Journeys : k # x /\ submission'[k] = submission[k] => JourneyStays(k)
<1>1. /\ own \in Leads /\ Exists(own) /\ leads[own].contact = own
      /\ contacts[own] = "placeholder" /\ leads[own].by = x /\ ~OfSeller(own)
      /\ \A k \in Journeys : k # x => submission[k].lead # own
  BY OwnFacts
<1>2. SellersStay
  <2>1. \A c \in Leads : contacts[c] \in Sellers => c # own
    BY <1>1, SellersAssumption
  <2>2. \A l \in Leads : OfSeller(l) => l # own /\ leads[l].status \in {"open", "closed"}
    BY <1>1 DEF OfSeller, Exists
  <2> QED BY <2>1, <2>2 DEF SellersStay
<1>3. \A k \in Leads : SellerLeadMoves(k)
  BY <1>1 DEF SellerLeadMoves
<1>4. ASSUME NEW k \in Journeys, k # x, submission'[k] = submission[k] PROVE JourneyStays(k)
  <2>1. submission[k].status = "address_only" => Placeholder(k)
    BY DEF IntakeIInv, JourneyFits
  <2>2. \A l \in Leads : leads'[l].by = k => leads[l].by = k
    BY <1>4
  <2> QED BY <1>1, <1>4, <2>1, <2>2 DEF JourneyStays, Placeholder, Exists
<1> QED BY <1>2, <1>3, <1>4

(* The placeholder's new row and its contact's. *)
LEMMA OwnRows ==
  ASSUME IntakeIInv, NEW own \in Leads, NEW n \in SellerLeadRow, leads' = [leads EXCEPT ![own] = n],
         NEW c \in Sellers \cup {"none", "placeholder"}, contacts' = [contacts EXCEPT ![own] = c]
  PROVE  /\ leads' \in [Leads -> SellerLeadRow] /\ leads'[own] = n
         /\ \A k \in Leads : k # own => leads'[k] = leads[k] /\ contacts'[k] = contacts[k]
         /\ contacts' \in [Leads -> Sellers \cup {"none", "placeholder"}] /\ contacts'[own] = c
BY IntakeTypes

(* Nobody gets a second lead where only placeholders change.               *)
LEMMA QuietOneLead ==
  ASSUME IntakeIInv, Quiet, ContactsExist', OneAtATime
  PROVE  OneContact' /\ OneLead'
<1>1. OneContact /\ OneLead
  BY DEF IntakeIInv, Alone
<1>2. OneContact'
  BY <1>1 DEF OneContact, Quiet
<1>3. OneLead'
  <2> SUFFICES ASSUME NEW k \in Leads, NEW l \in Leads,
                      leads'[k].status = "open", leads'[l].status = "open",
                      leads'[k].place = leads'[l].place, leads'[k].contact = leads'[l].contact,
                      leads'[k].asset = leads'[l].asset, ~leads'[k].astray, ~leads'[l].astray,
                      contacts'[leads'[k].contact] \in Sellers
               PROVE  k = l
    BY DEF OneLead
  <2>1. leads'[k].contact \in Leads
    BY DEF ContactsExist, Exists
  <2>2. contacts[leads[k].contact] \in Sellers
    BY <2>1 DEF Quiet
  <2> QED BY <1>1, <2>2 DEF Quiet, OneLead
<1> QED BY <1>2, <1>3

LEMMA MergeKeeps ==
  ASSUME IntakeIInv, NEW r \in Requests, NEW x \in Journeys, NEW own, OwnCommits(r, x, own),
         Merges(r, own), Merge(r, own), UNCHANGED form
  PROVE  IntakeIInv'
<1> DEFINE q == request[r]
<1>1. /\ own \in Leads /\ Exists(own) /\ leads[own].contact = own
      /\ contacts[own] = "placeholder" /\ leads[own].by = x /\ leads[own] \in SellerLeadRow
      /\ \A l \in Leads : leads[l].by = x => l = own
      /\ \A l \in Leads : l # own /\ Exists(l) => leads[l].contact # own
      /\ WritingFits(q) /\ q.at = "writing" /\ q.for = x
  BY OwnFacts, IntakeTypes DEF OwnCommits
<1>2. PICK l : l = q.match
  OBVIOUS
<1>3. l # None /\ l \in Leads /\ OfSeller(l) /\ After(r, l)
  BY <1>1, <1>2 DEF Merges, Merge, WritingFits, OfSeller
<1>4. CASE /\ leads' = [leads EXCEPT ![own].status = "gone"]
           /\ contacts' = [contacts EXCEPT ![leads[own].contact] = "none"]
  <2>1. PICK n : n = [leads[own] EXCEPT !.status = "gone"]
    OBVIOUS
  <2>2. PICK c \in Sellers \cup {"none", "placeholder"} : c = "none"
    OBVIOUS
  <2>3. /\ n \in SellerLeadRow /\ n.status = "gone" /\ n.by = x
        /\ n.used = leads[own].used /\ n.owned = leads[own].owned
        /\ leads' = [leads EXCEPT ![own] = n] /\ contacts' = [contacts EXCEPT ![own] = c]
    BY <1>1, <1>4, <2>1, <2>2 DEF SellerLeadRow
  <2>4. /\ leads' \in [Leads -> SellerLeadRow] /\ leads'[own] = n
        /\ \A k \in Leads : k # own => leads'[k] = leads[k] /\ contacts'[k] = contacts[k]
        /\ contacts' \in [Leads -> Sellers \cup {"none", "placeholder"}] /\ contacts'[own] = c
        /\ SellersStay /\ \A k \in Leads : SellerLeadMoves(k)
        /\ \A k \in Journeys : k # x /\ submission'[k] = submission[k] => JourneyStays(k)
    <3>1. /\ leads' \in [Leads -> SellerLeadRow] /\ leads'[own] = n
          /\ \A k \in Leads : k # own => leads'[k] = leads[k] /\ contacts'[k] = contacts[k]
          /\ contacts' \in [Leads -> Sellers \cup {"none", "placeholder"}] /\ contacts'[own] = c
      BY <1>1, <2>2, <2>3, OwnRows
    <3> QED BY <2>3, <3>1, OwnChanges
  <2>5. ContactsExist'
    BY <1>1, <2>3, <2>4 DEF IntakeIInv, ContactsExist, Exists
  <2>6. Quiet
    BY <1>1, <2>2, <2>3, <2>4, SellersAssumption DEF Quiet
  <2>7. \A k \in Leads : ~(leads'[k].by = x /\ leads'[k].status = "open")
    BY <1>1, <2>3, <2>4
  <2>8. OfSellerNext(l)
    BY <1>3, <2>4, SellersKept
  <2> QED BY <1>1, <1>3, <2>4, <2>5, <2>6, <2>7, <2>8, QuietOneLead, CommitStepKeeps
<1>5. CASE /\ ~q.discard /\ leads' = [leads EXCEPT ![own].place = q.place] /\ UNCHANGED contacts
  <2>1. PICK n : n = [leads[own] EXCEPT !.place = q.place]
    OBVIOUS
  <2>2. PICK c \in Sellers \cup {"none", "placeholder"} : c = contacts[own]
    BY <1>1
  <2>3. /\ n \in SellerLeadRow /\ n.status = leads[own].status /\ n.by = x
        /\ n.used = leads[own].used /\ n.owned = leads[own].owned
        /\ n.contact = own /\ q.place \in Places
        /\ leads' = [leads EXCEPT ![own] = n] /\ contacts' = [contacts EXCEPT ![own] = c]
    BY <1>1, <1>5, <2>1, <2>2, IntakeTypes DEF SellerLeadRow, WritingFits
  <2>4. /\ leads' \in [Leads -> SellerLeadRow] /\ leads'[own] = n
        /\ \A k \in Leads : k # own => leads'[k] = leads[k] /\ contacts'[k] = contacts[k]
        /\ contacts' \in [Leads -> Sellers \cup {"none", "placeholder"}] /\ contacts'[own] = c
        /\ SellersStay /\ \A k \in Leads : SellerLeadMoves(k)
        /\ \A k \in Journeys : k # x /\ submission'[k] = submission[k] => JourneyStays(k)
    <3>1. /\ leads' \in [Leads -> SellerLeadRow] /\ leads'[own] = n
          /\ \A k \in Leads : k # own => leads'[k] = leads[k] /\ contacts'[k] = contacts[k]
          /\ contacts' \in [Leads -> Sellers \cup {"none", "placeholder"}] /\ contacts'[own] = c
      BY <1>1, <2>2, <2>3, OwnRows
    <3> QED BY <2>3, <3>1, OwnChanges
  <2>5. ContactsExist'
    BY <1>1, <2>2, <2>3, <2>4 DEF IntakeIInv, ContactsExist, Exists
  <2>6. Quiet
    BY <1>1, <2>2, <2>3, <2>4, <2>5, SellersAssumption DEF Quiet, ContactsExist, Exists
  <2>7. \A k \in Leads : leads'[k].by = x /\ leads'[k].status = "open"
                            => leads'[k].used \/ leads'[k].owned
    <3>1. Left(x) /\ submission[x].lead = own
      BY <1>1, <1>2, <1>3, <1>5 DEF WritingFits, OwnCommits
    <3> QED BY <1>1, <2>3, <2>4, <3>1 DEF Left
  <2>8. OfSellerNext(l)
    BY <1>3, <2>4, SellersKept
  <2> QED BY <1>1, <1>3, <2>4, <2>5, <2>6, <2>7, <2>8, QuietOneLead, CommitStepKeeps
<1> QED BY <1>4, <1>5 DEF Merge


LEMMA PromoteKeeps ==
  ASSUME IntakeIInv, NEW r \in Requests, NEW x \in Journeys, NEW own, OwnCommits(r, x, own),
         ~Merges(r, own), Promote(r, own), UNCHANGED form
  PROVE  IntakeIInv'
<1> DEFINE q == request[r]
<1>1. /\ own \in Leads /\ Exists(own) /\ leads[own].contact = own
      /\ contacts[own] = "placeholder" /\ leads[own].by = x /\ leads[own] \in SellerLeadRow
      /\ ~OfSeller(own)
      /\ \A l \in Leads : leads[l].by = x => l = own
      /\ \A l \in Leads : l # own /\ Exists(l) => leads[l].contact # own
      /\ WritingFits(q) /\ q.at = "writing" /\ q.for = x /\ q \in RequestRow
  BY OwnFacts, IntakeTypes DEF OwnCommits
<1>2. q.match = None
  BY <1>1 DEF Merges, WritingFits
<1>3. PICK new \in Leads : new = IF q.contact = None THEN own ELSE q.contact
  BY <1>1 DEF RequestRow
<1>4. q.contact # None => new # own /\ contacts[new] = q.seller
  BY <1>1, <1>3, SellersAssumption DEF WritingFits
<1>5. PICK c \in Sellers \cup {"none", "placeholder"} :
        c = IF q.contact = None THEN q.seller ELSE "none"
  BY <1>1 DEF WritingFits
<1>6. PICK a \in {q.asset, leads[own].asset} :
        leads' = [leads EXCEPT ![own] =
          [leads[own] EXCEPT !.place = q.place, !.contact = new, !.asset = a, !.used = TRUE,
                             !.astray = leads[own].astray \/ a # q.asset]]
  BY <1>1, <1>3 DEF Promote
<1>7. PICK astray \in BOOLEAN : astray = (leads[own].astray \/ a # q.asset)
  OBVIOUS
<1>8. PICK n : n = [leads[own] EXCEPT
        !.place = q.place, !.contact = new, !.asset = a, !.used = TRUE, !.astray = astray]
  OBVIOUS
<1>16. /\ n \in SellerLeadRow /\ n.status = leads[own].status /\ n.by = x /\ n.used = TRUE
       /\ n.contact = new /\ n.place = q.place /\ q.place \in Places /\ n.owned = leads[own].owned
       /\ ~n.astray => n.asset = q.asset
  BY <1>1, <1>3, <1>7, <1>8 DEF SellerLeadRow, RequestRow, WritingFits
<1>17. /\ leads' = [leads EXCEPT ![own] = n] /\ contacts' = [contacts EXCEPT ![own] = c]
       /\ After(r, own)
  <2>1. leads' = [leads EXCEPT ![own] = n]
    <3>1. n = [leads[own] EXCEPT
                 !.place = q.place, !.contact = new, !.asset = a, !.used = TRUE,
                 !.astray = leads[own].astray \/ a # q.asset]
      BY <1>7, <1>8
    <3> HIDE DEF q
    <3> QED BY <1>6, <3>1
  <2>2. contacts' = [contacts EXCEPT ![own] = c] /\ After(r, own)
    BY <1>1, <1>3, <1>4, <1>5 DEF Promote
  <2> QED BY <2>1, <2>2
<1>9. /\ leads' \in [Leads -> SellerLeadRow] /\ leads'[own] = n
      /\ \A k \in Leads : k # own => leads'[k] = leads[k] /\ contacts'[k] = contacts[k]
      /\ contacts' \in [Leads -> Sellers \cup {"none", "placeholder"}] /\ contacts'[own] = c
  <2>1. /\ own \in Leads /\ n \in SellerLeadRow /\ c \in Sellers \cup {"none", "placeholder"}
        /\ leads' = [leads EXCEPT ![own] = n] /\ contacts' = [contacts EXCEPT ![own] = c]
    BY <1>1, <1>5, <1>16, <1>17
  <2> HIDE DEF q
  <2> QED BY <2>1, OwnRows
<1>10. /\ SellersStay /\ \A k \in Leads : SellerLeadMoves(k)
       /\ \A k \in Journeys : k # x /\ submission'[k] = submission[k] => JourneyStays(k)
  BY <1>16, <1>9, OwnChanges
<1>11. contacts'[new] = q.seller /\ q.seller \in Sellers
  BY <1>1, <1>3, <1>4, <1>5, <1>9 DEF WritingFits
<1>12. ContactsExist'
  BY <1>1, <1>3, <1>16, <1>9, <1>11, SellersAssumption DEF IntakeIInv, ContactsExist, Exists
<1>13. OfSellerNext(own)
  BY <1>1, <1>3, <1>16, <1>9, <1>11 DEF OfSellerNext, Exists
<1>14. ASSUME OneAtATime PROVE OneContact' /\ OneLead'
  <2>1. OneContact /\ OneLead /\ StillMissing(q)
    BY <1>14 DEF IntakeIInv, Alone
  <2>2. /\ q.contact = None => \A d \in Leads : contacts[d] # q.seller
        /\ q.contact # None => NoneFound(q)
    BY <1>1, <1>2, <2>1 DEF StillMissing
  <2>3. \A d \in Leads : contacts'[d] \in Sellers /\ d # new => contacts'[d] = contacts[d] /\ d # own
    BY <1>3, <1>5, <1>9, SellersAssumption
  <2>4. \A d \in Leads : contacts'[d] = q.seller => d = new
    BY <1>1, <1>3, <1>4, <1>11, <2>1, <2>2, <2>3 DEF OneContact
  <2>5. OneContact'
    BY <1>11, <2>1, <2>3, <2>4 DEF OneContact
  <2>6. \A l \in Leads :
          (/\ leads'[l].status = "open" /\ leads'[l].contact = new
           /\ leads'[l].place = q.place /\ leads'[l].asset = q.asset /\ ~leads'[l].astray)
             => l = own
    <3> SUFFICES ASSUME NEW l \in Leads, leads'[l].status = "open", leads'[l].contact = new,
                        leads'[l].place = q.place, leads'[l].asset = q.asset, ~leads'[l].astray,
                        l # own
                 PROVE  FALSE
      OBVIOUS
    <3>0. leads'[l] = leads[l]
      BY <1>9
    <3>1. new # own
      BY <1>1, <3>0 DEF Exists
    <3>2. q.contact = new /\ q.contact # None
      BY <1>3, <3>1
    <3> QED BY <2>2, <3>0, <3>2 DEF NoneFound, Matches
  <2>7. OneLead'
    <3> SUFFICES ASSUME NEW k \in Leads, NEW l \in Leads,
                        leads'[k].status = "open", leads'[l].status = "open",
                        leads'[k].place = leads'[l].place, leads'[k].contact = leads'[l].contact,
                      leads'[k].asset = leads'[l].asset, ~leads'[k].astray, ~leads'[l].astray,
                        contacts'[leads'[k].contact] \in Sellers, k # l
                 PROVE  FALSE
      BY DEF OneLead
    <3>1. k # own /\ l # own
      BY <1>16, <1>9, <2>6
    <3>2. leads'[k] = leads[k] /\ leads'[l] = leads[l] /\ Exists(k)
      BY <1>9, <3>1 DEF Exists
    <3>3. leads[k].contact # own /\ leads[k].contact \in Leads
      BY <1>1, <3>1, <3>2 DEF IntakeIInv, ContactsExist
    <3>4. contacts[leads[k].contact] \in Sellers
      BY <1>9, <3>2, <3>3
    <3> QED BY <2>1, <3>2, <3>4 DEF OneLead
  <2> QED BY <2>5, <2>7
<1>15. \A k \in Leads : leads'[k].by = x /\ leads'[k].status = "open" => k = own
  BY <1>1, <1>9
<1> QED
  BY <1>1, <1>17, <1>9, <1>10, <1>12, <1>13, <1>14, <1>15, CommitStepKeeps


LEMMA CreateKeeps ==
  ASSUME IntakeIInv, NEW r \in Requests, request[r].at = "writing", Create(r), UNCHANGED form,
         request[r].for \in Journeys => submission[request[r].for].status # "address_only"
  PROVE  IntakeIInv'
<1> DEFINE q == request[r]
<1>1. PICK x : x = q.for
  OBVIOUS
<1>2. /\ q \in RequestRow /\ WritingFits(q) /\ x \in Sources
      /\ x \in Journeys => submission[x].status = "none" /\ \A l \in Leads : leads[l].by # x
  <2>1. q \in RequestRow /\ WritingFits(q) /\ x \in Sources
    BY <1>1, IntakeTypes DEF IntakeIInv, RequestsFit, RequestFits, WritingFits
  <2>2. x \in Journeys => submission[x].status = "none"
    BY <1>1, <2>1, IntakeTypes DEF WritingFits
  <2> QED BY <2>1, <2>2 DEF IntakeIInv, JourneyFits
<1>3. ASSUME NEW l, l = q.match, l # None, UNCHANGED <<leads, contacts>>, After(r, l)
      PROVE  IntakeIInv'
  <2>1. l \in Leads /\ OfSeller(l)
    BY <1>2, <1>3 DEF WritingFits, OfSeller
  <2>2. SellersStay /\ \A k \in Leads : SellerLeadMoves(k)
    BY <1>3 DEF SellersStay, SellerLeadMoves, OfSeller, Exists
  <2>3. OfSellerNext(l)
    BY <2>1, <2>2, SellersKept
  <2>4. ContactsExist' /\ (OneAtATime => OneContact' /\ OneLead')
    BY <1>3 DEF IntakeIInv, ContactsExist, Exists, Alone, OneContact, OneLead
  <2>5. \A k \in Journeys : submission'[k] = submission[k] => JourneyStays(k)
    BY <1>3 DEF JourneyStays, IntakeIInv, JourneyFits, Placeholder, Exists
  <2>6. x \in Journeys => \A k \in Leads : leads'[k].by # x
    BY <1>2, <1>3
  <2>7. leads' \in [Leads -> SellerLeadRow] /\ contacts' \in [Leads -> Sellers \cup {"none", "placeholder"}]
    BY <1>3, IntakeTypes
  <2> QED BY <1>1, <1>3, <2>1, <2>2, <2>3, <2>4, <2>5, <2>6, <2>7, CommitStepKeeps
<1>4. ASSUME q.match = None, NEW l \in Fresh,
             leads' = [leads EXCEPT ![l] = [Unused EXCEPT
               !.status = "open", !.contact = IF q.contact = None THEN l ELSE q.contact,
               !.place = q.place, !.asset = q.asset, !.used = TRUE, !.by = q.for]],
             contacts' = IF q.contact = None THEN [contacts EXCEPT ![l] = q.seller] ELSE contacts,
             After(r, l)
      PROVE  IntakeIInv'
  <2>1. l \in Leads /\ leads[l].status = "none" /\ contacts[l] = "none"
    BY <1>4 DEF Fresh, IntakeIInv, ContactsExist
  <2>2. PICK new \in Leads : new = IF q.contact = None THEN l ELSE q.contact
    BY <1>2, <2>1 DEF RequestRow
  <2>3. PICK c \in Sellers \cup {"none", "placeholder"} :
          c = IF q.contact = None THEN q.seller ELSE "none"
    BY <1>2 DEF WritingFits
  <2>4. PICK n : n = [Unused EXCEPT !.status = "open", !.contact = new, !.place = q.place,
                                    !.asset = q.asset, !.used = TRUE, !.by = x]
    OBVIOUS
  <2>5. leads' = [leads EXCEPT ![l] = n]
    BY <1>1, <1>4, <2>2, <2>4
  <2>6. contacts' = [contacts EXCEPT ![l] = c]
    <3>1. CASE q.contact = None
      BY <1>4, <2>3, <3>1
    <3>2. CASE q.contact # None
      <4>1. contacts' = contacts /\ c = contacts[l]
        BY <1>4, <2>1, <2>3, <3>2
      <4> QED BY <4>1, IntakeTypes
    <3> QED BY <3>1, <3>2
  <2>7. /\ n \in SellerLeadRow /\ n.status = "open" /\ n.contact = new /\ n.place = q.place
        /\ n.by = x /\ n.used = TRUE /\ n.asset = q.asset
    BY <1>2, <2>2, <2>4 DEF Unused, SellerLeadRow, RequestRow, WritingFits
  <2>8. /\ leads' \in [Leads -> SellerLeadRow] /\ leads'[l] = n
        /\ \A k \in Leads : k # l => leads'[k] = leads[k] /\ contacts'[k] = contacts[k]
        /\ contacts' \in [Leads -> Sellers \cup {"none", "placeholder"}] /\ contacts'[l] = c
        /\ SellersStay /\ \A k \in Leads : SellerLeadMoves(k)
        /\ \A k \in Leads : Exists(k) => leads[k].contact # l
        /\ \A k \in Journeys : submission'[k] = submission[k] /\ n.by # k => JourneyStays(k)
    <3>1. /\ l \in Leads /\ leads[l].status = "none" /\ n \in SellerLeadRow /\ n.status = "open"
          /\ c \in Sellers \cup {"none", "placeholder"}
          /\ leads' = [leads EXCEPT ![l] = n] /\ contacts' = [contacts EXCEPT ![l] = c]
      BY <2>1, <2>3, <2>5, <2>6, <2>7
    <3> HIDE DEF q
    <3> QED BY <3>1, NewLead
  <2>9. contacts'[new] = q.seller /\ q.seller \in Sellers
    BY <1>2, <2>1, <2>2, <2>3, <2>8, SellersAssumption DEF WritingFits
  <2>10. ContactsExist'
    BY <2>1, <2>2, <2>7, <2>8, <2>9, SellersAssumption DEF IntakeIInv, ContactsExist, Exists
  <2>11. OfSellerNext(l)
    BY <2>1, <2>2, <2>7, <2>8, <2>9 DEF OfSellerNext
  <2>12. ASSUME OneAtATime PROVE OneContact' /\ OneLead'
    <3>1. /\ OneContact /\ OneLead
          /\ q.contact = None => \A d \in Leads : contacts[d] # q.seller
          /\ q.contact # None => NoneFound(q)
      BY <1>4, <2>12 DEF IntakeIInv, Alone, StillMissing
    <3>2. \A d \in Leads : contacts'[d] \in Sellers /\ d # new => contacts'[d] = contacts[d]
      BY <2>1, <2>2, <2>3, <2>8, SellersAssumption
    <3>3. \A d \in Leads : contacts'[d] = q.seller => d = new
      <4> SUFFICES ASSUME NEW d \in Leads, contacts'[d] = q.seller, d # new PROVE FALSE
        OBVIOUS
      <4>1. contacts[d] = q.seller
        BY <2>9, <3>2
      <4>2. q.contact # None /\ new = q.contact /\ contacts[new] = q.seller
        BY <1>2, <2>2, <3>1, <4>1 DEF WritingFits
      <4> QED BY <2>9, <3>1, <4>1, <4>2 DEF OneContact
    <3>4. OneContact'
      BY <2>9, <3>1, <3>2, <3>3 DEF OneContact
    <3>5. \A k \in Leads :
            (/\ k # l /\ leads'[k].status = "open" /\ leads'[k].contact = new
             /\ leads'[k].asset = q.asset /\ ~leads'[k].astray)
               => leads'[k].place # q.place
      <4> SUFFICES ASSUME NEW k \in Leads, k # l, leads'[k].status = "open",
                          leads'[k].contact = new, leads'[k].place = q.place,
                          leads'[k].asset = q.asset, ~leads'[k].astray
                   PROVE  FALSE
        OBVIOUS
      <4>0. leads'[k] = leads[k]
        BY <2>8
      <4>1. new # l
        BY <2>8, <4>0 DEF Exists
      <4>2. q.contact = new /\ q.contact # None
        BY <2>2, <4>1
      <4> QED BY <3>1, <4>0, <4>2 DEF NoneFound, Matches
    <3>6. OneLead'
      <4> SUFFICES ASSUME NEW k \in Leads, NEW m \in Leads,
                          leads'[k].status = "open", leads'[m].status = "open",
                          leads'[k].place = leads'[m].place, leads'[k].contact = leads'[m].contact,
                          leads'[k].asset = leads'[m].asset, ~leads'[k].astray, ~leads'[m].astray,
                          contacts'[leads'[k].contact] \in Sellers, k # m
                   PROVE  FALSE
        BY DEF OneLead
      <4>1. k # l /\ m # l
        BY <2>7, <2>8, <3>5
      <4>2. leads'[k] = leads[k] /\ leads'[m] = leads[m] /\ Exists(k)
        BY <2>8, <4>1 DEF Exists
      <4>3. leads[k].contact # l /\ leads[k].contact \in Leads
        BY <2>8, <4>2 DEF IntakeIInv, ContactsExist
      <4>4. contacts[leads[k].contact] \in Sellers
        BY <2>8, <4>2, <4>3
      <4> QED BY <3>1, <4>2, <4>4 DEF OneLead
    <3> QED BY <3>4, <3>6
  <2>13. \A k \in Journeys : k # x /\ submission'[k] = submission[k] => JourneyStays(k)
    BY <2>7, <2>8
  <2>14. x \in Journeys => \A k \in Leads : leads'[k].by = x => k = l
    BY <1>2, <2>8
  <2> QED BY <1>1, <1>4, <2>1, <2>8, <2>10, <2>11, <2>12, <2>13, <2>14, CommitStepKeeps
<1> QED BY <1>3, <1>4 DEF Create

LEMMA CommitKeeps ==
  ASSUME IntakeIInv, NEW r \in Requests, Commit(r)
  PROVE  IntakeIInv'
<1>1. PICK x : x = request[r].for
  OBVIOUS
<1>2. request[r].at = "writing" /\ UNCHANGED form
  BY DEF Commit
<1>3. CASE x \in Journeys /\ submission[x].status = "address_only"
  <2>1. PICK own : own = submission[x].lead
    OBVIOUS
  <2>2. OwnCommits(r, x, own)
    BY <1>1, <1>2, <1>3, <2>1 DEF OwnCommits
  <2>3. CASE Merges(r, own)
    <3>1. Merge(r, own)
      BY <1>1, <1>3, <2>1, <2>3 DEF Commit
    <3> QED BY <1>2, <1>3, <2>2, <2>3, <3>1, MergeKeeps
  <2>4. CASE ~Merges(r, own)
    <3>1. Promote(r, own)
      BY <1>1, <1>3, <2>1, <2>4 DEF Commit
    <3> QED BY <1>2, <1>3, <2>2, <2>4, <3>1, PromoteKeeps
  <2> QED BY <2>3, <2>4
<1>4. CASE ~(x \in Journeys /\ submission[x].status = "address_only")
  <2>1. Create(r)
    BY <1>1, <1>4 DEF Commit
  <2> QED BY <1>1, <1>2, <1>4, <2>1, CreateKeeps
<1> QED BY <1>3, <1>4

-----------------------------------------------------------------------------
LEMMA IntakeUnchangedKeeps ==
  ASSUME IntakeIInv, UNCHANGED intakeVars
  PROVE  IntakeIInv'
<1> USE DEF intakeVars
<1>1. IntakeState' /\ ContactsExist' /\ FormsFit' /\ JourneysExclude'
  BY DEF IntakeIInv, IntakeState, ContactsExist, FormsFit, JourneysExclude, OfSeller, Exists
<1>2. RequestsFit'
  BY DEF IntakeIInv, RequestsFit, RequestFits, WritingFits, OfSeller, Exists, Left
<1>3. \A j \in Journeys : (JourneyFits(j) /\ NothingLeft(j))'
  BY DEF IntakeIInv, JourneyFits, Placeholder, OfSeller, Exists, NothingLeft
<1>4. Alone'
  BY DEF IntakeIInv, Alone, OneAtATime, OneContact, OneLead, StillMissing, NoneFound, Matches
<1> QED BY <1>1, <1>2, <1>3, <1>4 DEF IntakeIInv

LEMMA IntakeNextKeeps ==
  ASSUME IntakeIInv, [IntakeNext]_intakeVars
  PROVE  IntakeIInv'
<1>1. CASE UNCHANGED intakeVars
  BY <1>1, IntakeUnchangedKeeps
<1>2. ASSUME NEW j \in Journeys, NEW p \in Places, Step1(j, p) PROVE IntakeIInv'
  BY <1>2, Step1Keeps
<1>3. ASSUME NEW r \in Requests, NEW s \in Sellers, NEW p \in Places, ReadForm(r, s, p)
      PROVE  IntakeIInv'
  BY <1>3, ReadFormKeeps
<1>4. ASSUME NEW r \in Requests, NEW s \in Sellers, NEW p \in Places, NEW j \in Journeys,
             Step2(r, j, s, p)
      PROVE  IntakeIInv'
  BY <1>4, Step2Keeps
<1>5. ASSUME NEW r \in Requests, Commit(r) PROVE IntakeIInv'
  BY <1>5, CommitKeeps
<1>6. ASSUME NEW r \in Requests, Fail(r) PROVE IntakeIInv'
  BY <1>6, FailKeeps
<1>7. ASSUME NEW r \in Requests, MarkProcessed(r) PROVE IntakeIInv'
  BY <1>7, MarkProcessedKeeps
<1>8. ASSUME NEW r \in Requests, NeedsReview(r) PROVE IntakeIInv'
  BY <1>8, NeedsReviewKeeps
<1>9. ASSUME NEW r \in Requests, NEW f \in Forms, ClaimForm(r, f) PROVE IntakeIInv'
  BY <1>9, ClaimFormKeeps
<1>10. ASSUME NEW f \in Forms, Receive(f) \/ FiveMinutes(f) PROVE IntakeIInv'
  BY <1>10, ReceiveKeeps
<1>11. ASSUME NEW l \in Leads,
              Use(l) \/ Close(l) \/ Own(l) \/ \E k \in AssetClasses : Reclassify(l, k)
       PROVE  IntakeIInv'
  BY <1>11, AssetsAssumption, UseKeeps
<1> QED
  BY <1>1, <1>2, <1>3, <1>4, <1>5, <1>6, <1>7, <1>8, <1>9, <1>10, <1>11 DEF IntakeNext

LEMMA IntakeInvariance == IntakeSpec => []IntakeIInv
<1>1. IntakeInit => IntakeIInv
  BY IntakeInitInv
<1>2. IntakeIInv /\ [IntakeNext]_intakeVars => IntakeIInv'
  BY IntakeNextKeeps
<1> QED BY <1>1, <1>2, PTL DEF IntakeSpec

LEMMA IntakeIInvSuffices ==
  ASSUME IntakeIInv PROVE OneLeadPerSeller
<1>1. DOMAIN submission = Journeys /\ DOMAIN form = Forms /\ DOMAIN leads = Leads
  BY DEF IntakeIInv, IntakeState
<1>2. \A l : OfSeller(l) =>
        leads[l].status \in {"open", "closed"} /\ contacts[leads[l].contact] # "none"
  BY SellersAssumption DEF OfSeller, Exists
<1>3. ASSUME NEW j \in Journeys, submission[j].status # "none"
      PROVE  LET l == submission[j].lead IN
             leads[l].status \in {"open", "closed"} /\ contacts[leads[l].contact] # "none"
  <2>1. JourneyFits(j) /\ submission[j].status \in {"address_only", "completed"}
    BY <1>3, IntakeTypes DEF IntakeIInv
  <2> QED BY <1>2, <2>1 DEF JourneyFits, Placeholder, Exists
<1>4. SubmittedHasLead
  BY <1>1, <1>2, <1>3 DEF SubmittedHasLead, IntakeIInv, FormsFit
<1>5. NoPlaceholderLeft
  BY <1>1 DEF NoPlaceholderLeft, IntakeIInv, NothingLeft
<1>6. ASSUME OneAtATime PROVE OneActiveLead
  <2>1. OneContact /\ OneLead
    BY <1>6 DEF IntakeIInv, Alone
  <2> SUFFICES ASSUME NEW k \in Leads, NEW l \in Leads,
                      leads[k].status = "open", leads[l].status = "open",
                      leads[k].place = leads[l].place,
                      leads[k].asset = leads[l].asset, ~leads[k].astray, ~leads[l].astray,
                      contacts[leads[k].contact] = contacts[leads[l].contact],
                      contacts[leads[k].contact] \in Sellers
               PROVE  k = l
    BY <1>1 DEF OneActiveLead
  <2>2. leads[k].contact \in Leads /\ leads[l].contact \in Leads
    BY DEF IntakeIInv, ContactsExist, Exists
  <2>3. leads[k].contact = leads[l].contact
    BY <2>1, <2>2 DEF OneContact
  <2> QED BY <2>1, <2>3 DEF OneLead
<1> QED BY <1>4, <1>5, <1>6 DEF OneLeadPerSeller

(* resolve_full_intake_records: whoever has submitted something has a lead *)
(* with a contact, and comes back to no placeholder nobody owns or works on*)
(* and, while the transactions do not overlap, to one active lead for a    *)
(* place and an asset class, of those with the class they were sought by.  *)
THEOREM SubmissionsKeepOneLead == IntakeSpec => []OneLeadPerSeller
<1>1. IntakeIInv => OneLeadPerSeller
  BY IntakeIInvSuffices
<1> QED BY <1>1, IntakeInvariance, PTL

-----------------------------------------------------------------------------
(***************************************************************************)
(* StaffAlerts.  The invariant is about the row locks: a worker that calls *)
(* the provider holds the rows it chose from, no two hold the same, so the *)
(* row it is on is still as it was picked; and about the texts: every one  *)
(* but the alert's own has a cause, a call that got no answer, a failure   *)
(* or a manager.                                                           *)
(***************************************************************************)
SendRow == [at : {"idle", "picking", "calling", "taken"}, on : Rows \cup {Nothing},
            locks : SUBSET Rows]
Outcomes == Final \cup {"queued"}

(* An alert that has a message of its own. *)
Sent == Final \cup {"queued"}

AlertRow ==
  [status : Open \cup {"none", "queued", "delivered", "undelivered", "exhausted"},
   attempts : 0..AlertAttempts, due : BOOLEAN, sid : 0..MaxTexts]

AlertsState ==
  /\ row \in [Rows -> AlertRow]
  /\ outcome \in [Rows -> Seq(Outcomes)]
  /\ unanswered \in [Rows -> Nat] /\ excused \in [Rows -> Nat]
  /\ sends \in [Senders -> SendRow]
  /\ \A a \in Rows : Len(outcome[a]) <= MaxTexts

(* A worker that sends an alert has the locks of the alerts it found, and  *)
(* the one it sends is still open.                                         *)
SendersHold ==
  \A w \in Senders :
    \/ sends[w].at \in {"idle", "picking"} /\ sends[w].on = Nothing /\ sends[w].locks = {}
    \/ /\ sends[w].at \in {"calling", "taken"} /\ sends[w].on \in Rows
       /\ sends[w].on \in sends[w].locks /\ row[sends[w].on].status \in Open
       /\ sends[w].at = "calling" => Len(outcome[sends[w].on]) < MaxTexts

LocksExclude ==
  \A v, w \in Senders : \A a \in Rows : a \in sends[v].locks /\ a \in sends[w].locks => v = w

OwnMessage == \A a \in Rows : row[a].status \notin Sent => row[a].sid = 0

AddressFirst ==
  \A p \in Staff : <<"stage2", p>> \in Rows /\ row[<<"stage2", p>>].status # "none"
                     => row[<<"stage1", p>>].status # "none"

Taken(a) == \E w \in Senders : sends[w].at = "taken" /\ sends[w].on = a

(* What a repetition of an alert may have as its cause.                    *)
Causes(a) == unanswered[a] + excused[a]

TextsAccounted ==
  \A a \in Rows :
    /\ Len(outcome[a]) <= 1 + Causes(a)
    /\ row[a].status \notin Sent /\ ~Taken(a) => Len(outcome[a]) <= Causes(a)

AlertsIInv ==
  AlertsState /\ SendersHold /\ LocksExclude /\ OwnMessage /\ AddressFirst
    /\ StagesInOrder /\ TextsAccounted

LEMMA RowFacts ==
  ASSUME NEW r \in AlertRow
  PROVE  /\ Counted(r) \in 0..AlertAttempts
         /\ Blocked(r) \in AlertRow /\ Blocked(r).status = "blocked" /\ Blocked(r).sid = r.sid
         /\ Retried(r) \in AlertRow /\ Retried(r).status = "retry" /\ Retried(r).sid = r.sid
         /\ Exhausted(r) \in AlertRow /\ Exhausted(r).status = "exhausted"
         /\ Exhausted(r).sid = r.sid
<1>1. Counted(r) \in 0..AlertAttempts
  BY BoundsAssumption DEF Counted, AlertRow
<1>2. AlertAttempts \in 0..AlertAttempts
  BY BoundsAssumption
<1>3. PICK n : n = Counted(r)
  OBVIOUS
<1>4. n \in 0..AlertAttempts
  BY <1>1, <1>3
<1>5. /\ Blocked(r) = [[r EXCEPT !.status = "blocked"] EXCEPT !.attempts = n]
      /\ Retried(r) = [[[r EXCEPT !.status = "retry"] EXCEPT !.attempts = n] EXCEPT !.due = FALSE]
  BY <1>3 DEF Blocked, Retried
<1>6. Blocked(r) \in AlertRow /\ Blocked(r).status = "blocked" /\ Blocked(r).sid = r.sid
  BY <1>4, <1>5 DEF AlertRow, Open
<1>7. Retried(r) \in AlertRow /\ Retried(r).status = "retry" /\ Retried(r).sid = r.sid
  BY <1>4, <1>5 DEF AlertRow, Open
<1>8. Exhausted(r) \in AlertRow /\ Exhausted(r).status = "exhausted" /\ Exhausted(r).sid = r.sid
  BY <1>2 DEF Exhausted, AlertRow
<1> QED
  BY <1>1, <1>6, <1>7, <1>8

LEMMA QueuedIsRow ==
  Queued \in AlertRow /\ Absent \in AlertRow /\ Queued.status = "pending" /\ Queued.sid = 0
    /\ Absent.status = "none" /\ Absent.sid = 0
<1>1. /\ Absent.status = "none" /\ Absent.sid = 0
      /\ Absent \in [status : {"none"}, attempts : {0}, due : {TRUE}, sid : {0}]
  BY DEF Absent
<1>2. Queued = [Absent EXCEPT !.status = "pending"]
  BY DEF Queued
<1>3. Absent \in AlertRow
  <2>1. 0 \in 0..AlertAttempts /\ 0 \in 0..MaxTexts
    BY BoundsAssumption
  <2> QED BY <2>1 DEF Absent, AlertRow
<1>4. Queued \in AlertRow /\ Queued.status = "pending" /\ Queued.sid = Absent.sid
  BY <1>2, <1>3 DEF AlertRow, Open
<1> QED
  BY <1>1, <1>3, <1>4

LEMMA RowsAre == \A p \in Staff : <<"stage2", p>> \in Rows <=> <<"stage1", p>> \in Rows
BY KindsAssumption DEF Rows

LEMMA NothingIsNoRow == Nothing \notin Rows
BY NothingAssumption, KindsAssumption DEF Rows

LEMMA AlertsInitInv == AlertsInit => AlertsIInv
<1> SUFFICES ASSUME AlertsInit PROVE AlertsIInv
  OBVIOUS
<1> USE DEF AlertsInit
<1>1. AlertsState
  <2>1. <<>> \in Seq(Outcomes) /\ Len(<<>>) = 0
    OBVIOUS
  <2> QED BY <2>1, QueuedIsRow, BoundsAssumption DEF AlertsState, SendRow, Resting, Rows
<1>2. SendersHold BY DEF SendersHold, Resting
<1>3. LocksExclude BY DEF LocksExclude, Resting
<1>4. OwnMessage BY QueuedIsRow DEF OwnMessage
<1>5. AddressFirst BY QueuedIsRow DEF AddressFirst
<1>6. StagesInOrder
  BY NothingAssumption DEF StagesInOrder, Resting
<1>7. TextsAccounted BY DEF TextsAccounted, Causes
<1> QED BY <1>1, <1>2, <1>3, <1>4, <1>5, <1>6, <1>7 DEF AlertsIInv

-----------------------------------------------------------------------------
(* What a step may do to an alert: nothing, or queue it, or move it among  *)
(* the open states; its holder closes it; a report moves it among the      *)
(* sent ones; a manager queues a Facebook one again.                       *)
Released(w) ==
  /\ sends'[w].at \in {"idle", "picking"}
  /\ sends'[w].on = Nothing /\ sends'[w].locks = {}

ByHolder(a) == \A w \in Senders : sends[w].on = a => Released(w)

AlertMoves(a) ==
  \/ row'[a].status = row[a].status /\ row'[a].sid = row[a].sid
  \/ row[a].status = "none" /\ row'[a].status = "pending" /\ row'[a].sid = 0
  \/ row[a].status \in Open /\ row'[a].status \in Open /\ row'[a].sid = row[a].sid
  \/ /\ row[a].status \in Open /\ row'[a].status = "exhausted" /\ row'[a].sid = row[a].sid
     /\ ByHolder(a)
  \/ row[a].status \in Open /\ row'[a].status = "queued" /\ ByHolder(a)
  \/ row[a].status \in Sent /\ row'[a].status \in Sent
  \/ /\ a[1] = "facebook" /\ row'[a].status = "pending" /\ row'[a].sid = 0
     /\ row[a].status \in Open \cup {"exhausted"} \/ Causes(a)' > Causes(a)

SenderMoves(w) ==
  \/ sends'[w] = sends[w]
  \/ /\ Released(w)
     /\ \A a \in Rows : sends[w].at = "taken" /\ sends[w].on = a =>
          row'[a].status \in Sent \/ Causes(a)' > Causes(a)

AlertStep ==
  /\ row' \in [Rows -> AlertRow] /\ sends' \in [Senders -> SendRow]
  /\ outcome' \in [Rows -> Seq(Outcomes)]
  /\ unanswered' \in [Rows -> Nat] /\ excused' \in [Rows -> Nat]
  /\ \A a \in Rows : Len(outcome'[a]) = Len(outcome[a]) /\ Causes(a)' >= Causes(a)
  /\ \A a \in Rows : AlertMoves(a)
  /\ \A w \in Senders : SenderMoves(w)
  /\ AddressFirst'

LEMMA AlertStepKeeps == AlertsIInv /\ AlertStep => AlertsIInv'
<1> SUFFICES ASSUME AlertsIInv, AlertStep PROVE AlertsIInv'
  OBVIOUS
<1> USE DEF AlertStep
<1>1. AlertsState'
  BY DEF AlertsIInv, AlertsState
<1>2. SendersHold'
  <2> SUFFICES ASSUME NEW w \in Senders
               PROVE  \/ Released(w)
                      \/ /\ sends'[w].at \in {"calling", "taken"} /\ sends'[w].on \in Rows
                         /\ sends'[w].on \in sends'[w].locks
                         /\ row'[sends'[w].on].status \in Open
                         /\ sends'[w].at = "calling" => Len(outcome'[sends'[w].on]) < MaxTexts
    BY DEF SendersHold, Released
  <2>1. CASE Released(w)
    BY <2>1
  <2>2. CASE sends'[w] = sends[w] /\ ~Released(w)
    <3>1. /\ sends[w].at \in {"calling", "taken"} /\ sends[w].on \in Rows
          /\ sends[w].on \in sends[w].locks /\ row[sends[w].on].status \in Open
          /\ sends[w].at = "calling" => Len(outcome[sends[w].on]) < MaxTexts
      BY <2>2 DEF AlertsIInv, SendersHold, Released
    <3>2. AlertMoves(sends[w].on)
      BY <3>1
    <3>3. row'[sends[w].on].status \in Open
      BY <2>2, <3>1, <3>2 DEF AlertMoves, ByHolder, Open, Sent, Final
    <3> QED BY <2>2, <3>1, <3>3
  <2> QED BY <2>1, <2>2 DEF SenderMoves
<1>3. LocksExclude'
  BY DEF AlertsIInv, LocksExclude, SenderMoves, Released
<1>4. OwnMessage'
  <2> SUFFICES ASSUME NEW a \in Rows, row'[a].status \notin Sent PROVE row'[a].sid = 0
    BY DEF OwnMessage
  <2>1. AlertMoves(a) /\ (row[a].status \notin Sent => row[a].sid = 0)
    BY DEF AlertsIInv, OwnMessage
  <2> QED BY <2>1 DEF AlertMoves, Open, Sent, Final
<1>5. StagesInOrder'
  <2> SUFFICES ASSUME NEW w \in Senders, NEW p \in Staff, sends'[w].on = <<"stage2", p>>
               PROVE  row'[<<"stage1", p>>].status \notin Open \cup {"none"}
    BY DEF StagesInOrder
  <2> DEFINE a == <<"stage1", p>>
  <2>1. ~Released(w)
    BY NothingAssumption DEF Released
  <2>2. sends'[w] = sends[w]
    BY <2>1 DEF SenderMoves
  <2>3. sends[w].on \in Rows
    BY <2>1, <2>2 DEF AlertsIInv, SendersHold, Released
  <2>4. a \in Rows
    BY <2>2, <2>3, RowsAre
  <2>5. row[a].status \notin Open \cup {"none"}
    BY <2>2 DEF AlertsIInv, StagesInOrder, AlertsState
  <2>6. AlertMoves(a) /\ a[1] # "facebook"
    BY <2>4
  <2> QED BY <2>5, <2>6 DEF AlertMoves, Open, Sent, Final
<1>6. TextsAccounted'
  <2> SUFFICES ASSUME NEW a \in Rows
               PROVE  /\ Len(outcome'[a]) <= 1 + Causes(a)'
                      /\ row'[a].status \notin Sent /\ ~Taken(a)' => Len(outcome'[a]) <= Causes(a)'
    BY DEF TextsAccounted
  <2>1. /\ Len(outcome[a]) <= 1 + Causes(a)
        /\ row[a].status \notin Sent /\ ~Taken(a) => Len(outcome[a]) <= Causes(a)
        /\ Len(outcome'[a]) = Len(outcome[a]) /\ Causes(a)' >= Causes(a)
        /\ Causes(a) \in Nat /\ Causes(a)' \in Nat
        /\ Len(outcome[a]) \in Nat /\ Len(outcome'[a]) \in Nat
    BY DEF AlertsIInv, AlertsState, TextsAccounted, Causes
  <2>2. CASE Causes(a)' > Causes(a)
    BY <2>1, <2>2
  <2>3. CASE row'[a].status \in Sent \/ Taken(a)'
    BY <2>1, <2>3
  <2>4. CASE row'[a].status \notin Sent /\ ~Taken(a)' /\ ~(Causes(a)' > Causes(a))
    <3>1. ~Taken(a)
      <4> SUFFICES ASSUME NEW w \in Senders, sends[w].at = "taken", sends[w].on = a
                   PROVE  FALSE
        BY DEF Taken
      <4>1. SenderMoves(w)
        OBVIOUS
      <4> QED BY <4>1, <2>4 DEF SenderMoves, Taken
    <3>2. row[a].status \notin Sent
      <4>1. AlertMoves(a)
        OBVIOUS
      <4> QED BY <4>1, <2>4 DEF AlertMoves, Open, Sent, Final
    <3> QED BY <2>1, <3>1, <3>2
  <2> QED BY <2>2, <2>3, <2>4
<1> QED BY <1>1, <1>2, <1>3, <1>4, <1>5, <1>6 DEF AlertsIInv

LEMMA QueueAdds ==
  ASSUME AlertsIInv, NEW kinds, Queue(kinds),
         "stage2" \in kinds => "stage1" \in kinds \/ Missing("stage1") = {}
  PROVE  /\ row' \in [Rows -> AlertRow]
         /\ \A a \in Rows : row'[a] = row[a] \/ (row[a].status = "none" /\ row'[a] = Queued)
         /\ AddressFirst'
<1> USE DEF AlertsIInv, AlertsState
<1>1. /\ row' \in [Rows -> AlertRow]
      /\ \A a \in Rows : row'[a] = row[a] \/ (row[a].status = "none" /\ row'[a] = Queued)
  BY QueuedIsRow DEF Queue, Missing
<1>2. AddressFirst'
  <2> SUFFICES ASSUME NEW p \in Staff, <<"stage2", p>> \in Rows,
                      row'[<<"stage2", p>>].status # "none", row'[<<"stage1", p>>].status = "none"
               PROVE  FALSE
    BY DEF AddressFirst
  <2> DEFINE first == <<"stage1", p>>
             second == <<"stage2", p>>
  <2>1. first \in Rows
    BY RowsAre
  <2>2. row'[first] = row[first] /\ row[first].status = "none"
    BY <1>1, <2>1, QueuedIsRow
  <2>3. row[second].status = "none" /\ row'[second] # row[second]
    BY <2>2 DEF AddressFirst
  <2>4. PICK k \in kinds : second \in Missing(k)
    BY <2>3 DEF Queue
  <2>5. k = "stage2" /\ p \in eligible
    BY <2>4 DEF Missing
  <2>6. first \in Missing("stage1")
    BY <2>2, <2>5 DEF Missing
  <2>7. row'[first] = Queued
    BY <2>1, <2>4, <2>5, <2>6 DEF Queue
  <2> QED BY <2>2, <2>7, QueuedIsRow
<1> QED BY <1>1, <1>2

LEMMA QueueKeeps ==
  ASSUME AlertsIInv, NEW kinds, Queue(kinds),
         "stage2" \in kinds => "stage1" \in kinds \/ Missing("stage1") = {},
         UNCHANGED <<outcome, unanswered, excused>>,
         sends' \in [Senders -> SendRow],
         \A w \in Senders : sends'[w] = sends[w] \/ (Released(w) /\ sends[w].at # "taken")
  PROVE  AlertsIInv'
<1>1. \A w \in Senders : SenderMoves(w)
  BY DEF SenderMoves
<1>2. \A a \in Rows : AlertMoves(a)
  BY QueueAdds, QueuedIsRow DEF AlertMoves
<1>3. /\ outcome' \in [Rows -> Seq(Outcomes)]
      /\ unanswered' \in [Rows -> Nat] /\ excused' \in [Rows -> Nat]
      /\ \A a \in Rows : Len(outcome'[a]) = Len(outcome[a]) /\ Causes(a)' >= Causes(a)
  BY DEF AlertsIInv, AlertsState, Causes
<1> QED
  BY QueueAdds, <1>1, <1>2, <1>3, AlertStepKeeps DEF AlertStep

LEMMA VisitKeeps ==
  ASSUME AlertsIInv, NEW step \in {1, 2}, Visit(step)
  PROVE  AlertsIInv'
<1> DEFINE kinds == IF step = 1 THEN {"stage1"} ELSE {"stage1", "stage2"}
<1>1. Queue(kinds) /\ ("stage2" \in kinds => "stage1" \in kinds)
  BY DEF Visit
<1>2. UNCHANGED <<outcome, unanswered, excused, sends>> /\ sends \in [Senders -> SendRow]
  BY DEF Visit, AlertsIInv, AlertsState
<1> HIDE DEF kinds
<1> QED BY <1>1, <1>2, QueueKeeps

LEMMA FacebookLeadKeeps ==
  ASSUME AlertsIInv, FacebookLead
  PROVE  AlertsIInv'
<1>1. Queue({"facebook"}) /\ "stage2" \notin {"facebook"}
  BY DEF FacebookLead
<1>2. UNCHANGED <<outcome, unanswered, excused, sends>> /\ sends \in [Senders -> SendRow]
  BY DEF FacebookLead, AlertsIInv, AlertsState
<1> QED BY <1>1, <1>2, QueueKeeps

(* Only open alerts change: the proof of every step that leaves the texts  *)
(* alone and the alerts known to the rows.                                 *)
LEMMA SameTexts ==
  ASSUME AlertsIInv, UNCHANGED <<outcome, unanswered, excused>>
  PROVE  /\ outcome' \in [Rows -> Seq(Outcomes)]
         /\ unanswered' \in [Rows -> Nat] /\ excused' \in [Rows -> Nat]
         /\ \A a \in Rows : Len(outcome'[a]) = Len(outcome[a]) /\ Causes(a)' >= Causes(a)
BY DEF AlertsIInv, AlertsState, Causes

LEMMA SameRows ==
  ASSUME AlertsIInv, UNCHANGED row
  PROVE  /\ row' \in [Rows -> AlertRow] /\ AddressFirst'
         /\ \A a \in Rows : AlertMoves(a)
<1>1. row' \in [Rows -> AlertRow] /\ AddressFirst'
  BY DEF AlertsIInv, AlertsState, AddressFirst
<1>2. \A a \in Rows : AlertMoves(a)
  BY DEF AlertMoves
<1> QED BY <1>1, <1>2

LEMMA RestingIsReleased ==
  ASSUME AlertsIInv, NEW w \in Senders, sends' = [sends EXCEPT ![w] = Resting]
  PROVE  /\ sends' \in [Senders -> SendRow] /\ Released(w)
         /\ \A v \in Senders \ {w} : sends'[v] = sends[v]
<1>1. Resting \in SendRow
  BY DEF Resting, SendRow
<1> QED
  BY <1>1 DEF AlertsIInv, AlertsState, Released, Resting

LEMMA SweepKeeps ==
  ASSUME AlertsIInv, NEW w \in Senders, Sweep(w)
  PROVE  AlertsIInv'
<1>1. /\ sends' \in [Senders -> SendRow] /\ UNCHANGED <<outcome, unanswered, excused>>
      /\ \A v \in Senders : sends'[v] = sends[v] \/ (Released(v) /\ sends[v].at # "taken")
  <2>1. sends[w].on = Nothing /\ sends[w].locks = {} /\ sends[w].at = "idle"
    BY DEF Sweep, AlertsIInv, SendersHold
  <2>2. sends' = [sends EXCEPT ![w].at = "picking"]
    BY DEF Sweep
  <2>3. Released(w) /\ sends' \in [Senders -> SendRow]
    BY <2>1, <2>2 DEF Released, AlertsIInv, AlertsState, SendRow
  <2>4. \A v \in Senders \ {w} : sends'[v] = sends[v]
    BY <2>2 DEF AlertsIInv, AlertsState
  <2> QED BY <2>1, <2>3, <2>4 DEF Sweep
<1>2. CASE recent
  <2> DEFINE kinds == Lost \cup IF facebook THEN {"facebook"} ELSE {}
  <2>1. Queue(kinds)
    BY <1>2 DEF Sweep
  <2>2. "stage2" \in kinds => "stage1" \in kinds \/ Missing("stage1") = {}
    <3> SUFFICES ASSUME "stage2" \in kinds PROVE Missing("stage1") = {}
      OBVIOUS
    <3>1. "stage2" \in Lost
      OBVIOUS
    <3>2. ~(stage \in {1, 2} /\ Missing("stage1") # {}) /\ stage = 2
      BY <3>1 DEF Lost
    <3> QED BY <3>2
  <2> HIDE DEF kinds
  <2> QED BY <1>1, <2>1, <2>2, QueueKeeps
<1>3. CASE ~recent
  <2>1. UNCHANGED row
    BY <1>3 DEF Sweep
  <2> QED BY <1>1, <2>1, SameRows, SameTexts, AlertStepKeeps DEF AlertStep, SenderMoves
<1> QED BY <1>2, <1>3

(* The locks make a candidate nobody's, and the order of the stages makes  *)
(* sure that the address text is not open.                                 *)
LEMMA CandidateFacts ==
  ASSUME AlertsIInv, NEW a \in Candidates
  PROVE  /\ a \in Rows /\ row[a].status \in Open /\ \A v \in Senders : a \notin sends[v].locks
         /\ ByHolder(a)
         /\ \A p \in Staff : a = <<"stage2", p>> =>
              row[<<"stage1", p>>].status \notin Open \cup {"none"}
<1>1. /\ a \in Rows /\ row[a].status \in Open /\ ~Waits(a)
      /\ \A v \in Senders : a \notin sends[v].locks
  BY DEF Candidates, Ready, Locked, Open
<1>2. \A v \in Senders : sends[v].on # a
  BY <1>1, NothingAssumption, KindsAssumption DEF AlertsIInv, SendersHold, Rows
<1>3. ASSUME NEW p \in Staff, a = <<"stage2", p>>
      PROVE  row[<<"stage1", p>>].status \notin Open \cup {"none"}
  <2>1. row[<<"stage1", p>>].status \notin Open
    BY <1>1, <1>3 DEF Waits
  <2>2. row[<<"stage1", p>>].status # "none"
    BY <1>1, <1>3 DEF AlertsIInv, AddressFirst, Open
  <2> QED BY <2>1, <2>2
<1> QED BY <1>1, <1>2, <1>3 DEF ByHolder

LEMMA PickKeeps ==
  ASSUME AlertsIInv, NEW w \in Senders, Pick(w)
  PROVE  AlertsIInv'
<1> UNCHANGED <<outcome, unanswered, excused>> /\ sends[w].at = "picking"
  BY DEF Pick
<1>1. CASE UNCHANGED row /\ sends' = [sends EXCEPT ![w] = Resting]
  BY <1>1, SameRows, SameTexts, RestingIsReleased, AlertStepKeeps DEF AlertStep, SenderMoves
<1>2. ASSUME NEW a \in Candidates, row' = [row EXCEPT ![a] = Blocked(row[a])],
             sends' = [sends EXCEPT ![w] = Resting]
      PROVE  AlertsIInv'
  <2>1. /\ a \in Rows /\ row[a].status \in Open
        /\ row \in [Rows -> AlertRow]
    BY CandidateFacts DEF AlertsIInv, AlertsState
  <2>2. PICK r : r = Blocked(row[a])
    OBVIOUS
  <2>3. r \in AlertRow /\ r.status = "blocked" /\ r.sid = row[a].sid
    BY <2>1, <2>2, RowFacts
  <2>4. row' = [row EXCEPT ![a] = r]
    BY <1>2, <2>2
  <2>5. row' \in [Rows -> AlertRow] /\ \A b \in Rows : AlertMoves(b)
    BY <2>1, <2>3, <2>4 DEF AlertMoves, Open
  <2>6. AddressFirst'
    BY <2>1, <2>3, <2>4, RowsAre DEF AlertsIInv, AddressFirst, Open
  <2> QED
    BY <1>2, <2>5, <2>6, SameTexts, RestingIsReleased, AlertStepKeeps DEF AlertStep, SenderMoves
<1>3. ASSUME NEW a \in Candidates, Len(outcome[a]) < MaxTexts, UNCHANGED row,
             sends' = [sends EXCEPT ![w] = [at |-> "calling", on |-> a, locks |-> Candidates]]
      PROVE  AlertsIInv'
  <2> DEFINE call == [at |-> "calling", on |-> a, locks |-> Candidates]
  <2>1. a \in Rows /\ row[a].status \in Open /\ call \in SendRow
    BY CandidateFacts DEF SendRow, Candidates
  <2>2. sends' \in [Senders -> SendRow] /\ sends'[w] = call
    BY <1>3, <2>1 DEF AlertsIInv, AlertsState
  <2>3. \A v \in Senders \ {w} : sends'[v] = sends[v]
    BY <1>3 DEF AlertsIInv, AlertsState
  <2>4. AlertsState'
    BY <1>3, <2>2 DEF AlertsIInv, AlertsState
  <2>5. SendersHold'
    BY <1>3, <2>1, <2>2, <2>3 DEF AlertsIInv, SendersHold
  <2>6. LocksExclude'
    BY <2>2, <2>3, CandidateFacts DEF AlertsIInv, LocksExclude
  <2>7. OwnMessage' /\ AddressFirst'
    BY <1>3 DEF AlertsIInv, OwnMessage, AddressFirst
  <2>8. StagesInOrder'
    BY <1>3, <2>2, <2>3, CandidateFacts DEF AlertsIInv, AlertsState, StagesInOrder
  <2>9. TextsAccounted'
    <3>1. \A b \in Rows : Taken(b) => Taken(b)'
      BY <2>3 DEF Taken
    <3> QED BY <1>3, <3>1 DEF AlertsIInv, TextsAccounted, Causes
  <2> QED BY <2>4, <2>5, <2>6, <2>7, <2>8, <2>9 DEF AlertsIInv
<1> QED BY <1>1, <1>2, <1>3 DEF Pick

LEMMA TakeKeeps ==
  ASSUME AlertsIInv, NEW w \in Senders, Take(w)
  PROVE  AlertsIInv'
<1> DEFINE a == sends[w].on
<1> USE DEF Take
<1>1. /\ a \in Rows /\ a \in sends[w].locks /\ row[a].status \in Open
      /\ Len(outcome[a]) < MaxTexts /\ outcome[a] \in Seq(Outcomes)
  BY DEF AlertsIInv, AlertsState, SendersHold
<1>2. ~Taken(a)
  BY <1>1 DEF AlertsIInv, SendersHold, LocksExclude, Taken
<1>3. PICK texts : texts = Append(outcome[a], "queued")
  OBVIOUS
<1>4. texts \in Seq(Outcomes) /\ Len(texts) = Len(outcome[a]) + 1 /\ Len(outcome[a]) \in Nat
  BY <1>1, <1>3 DEF Outcomes
<1>5. outcome' = [outcome EXCEPT ![a] = texts]
  BY <1>3
<1>6. /\ outcome' \in [Rows -> Seq(Outcomes)] /\ outcome'[a] = texts
      /\ \A b \in Rows \ {a} : outcome'[b] = outcome[b]
  BY <1>1, <1>4, <1>5 DEF AlertsIInv, AlertsState
<1>7. /\ sends' \in [Senders -> SendRow]
      /\ sends'[w].at = "taken" /\ sends'[w].on = a /\ sends'[w].locks = sends[w].locks
      /\ \A v \in Senders \ {w} : sends'[v] = sends[v]
  <2>1. PICK call : call = [sends[w] EXCEPT !.at = "taken"]
    OBVIOUS
  <2>2. sends \in [Senders -> SendRow] /\ sends[w] \in SendRow
    BY DEF AlertsIInv, AlertsState
  <2>3. /\ call \in SendRow /\ call.at = "taken"
        /\ call.on = sends[w].on /\ call.locks = sends[w].locks
    BY <2>1, <2>2 DEF SendRow
  <2>4. sends' = [sends EXCEPT ![w] = call]
    BY <2>1
  <2> QED BY <2>2, <2>3, <2>4
<1>8. AlertsState'
  BY <1>1, <1>4, <1>6, <1>7, BoundsAssumption DEF AlertsIInv, AlertsState
<1>9. SendersHold'
  <2> SUFFICES ASSUME NEW v \in Senders
               PROVE  \/ /\ sends'[v].at \in {"idle", "picking"}
                         /\ sends'[v].on = Nothing /\ sends'[v].locks = {}
                      \/ /\ sends'[v].at \in {"calling", "taken"} /\ sends'[v].on \in Rows
                         /\ sends'[v].on \in sends'[v].locks
                         /\ row'[sends'[v].on].status \in Open
                         /\ sends'[v].at = "calling" => Len(outcome'[sends'[v].on]) < MaxTexts
    BY DEF SendersHold
  <2>1. CASE v = w
    BY <1>1, <1>7, <2>1
  <2>2. CASE v # w
    <3>1. sends[v].at = "calling" => sends[v].on # a
      BY <1>1, <2>2 DEF AlertsIInv, SendersHold, LocksExclude
    <3> QED BY <1>6, <1>7, <2>2, <3>1 DEF AlertsIInv, SendersHold
  <2> QED BY <2>1, <2>2
<1>10. LocksExclude'
  BY <1>7 DEF AlertsIInv, LocksExclude
<1>11. OwnMessage' /\ AddressFirst'
  BY DEF AlertsIInv, OwnMessage, AddressFirst
<1>12. StagesInOrder'
  BY <1>7 DEF AlertsIInv, AlertsState, StagesInOrder
<1>13. TextsAccounted'
  <2>1. Taken(a)' /\ \A b \in Rows : Taken(b) => Taken(b)'
    BY <1>7 DEF Taken
  <2>2. /\ Len(outcome[a]) <= Causes(a)
        /\ unanswered[a] \in Nat /\ excused[a] \in Nat
    BY <1>1, <1>2 DEF AlertsIInv, AlertsState, TextsAccounted, Open, Sent, Final
  <2>3. UNCHANGED <<unanswered, excused>>
    OBVIOUS
  <2>4. Len(outcome'[a]) <= 1 + Causes(a)'
    BY <1>1, <1>4, <1>6, <2>2 DEF Causes
  <2> QED BY <1>6, <2>1, <2>3, <2>4 DEF AlertsIInv, TextsAccounted, Causes
<1> QED BY <1>8, <1>9, <1>10, <1>11, <1>12, <1>13 DEF AlertsIInv

LEMMA AcceptedKeeps ==
  ASSUME AlertsIInv, NEW w \in Senders, Accepted(w)
  PROVE  AlertsIInv'
<1> DEFINE a == sends[w].on
<1> UNCHANGED <<outcome, unanswered, excused>> /\ sends' = [sends EXCEPT ![w] = Resting]
  BY DEF Accepted
<1>1. /\ a \in Rows /\ a \in sends[w].locks /\ row[a].status \in Open
      /\ row \in [Rows -> AlertRow] /\ Len(outcome[a]) \in 0..MaxTexts
  <2>1. a \in Rows /\ a \in sends[w].locks /\ row[a].status \in Open
    BY DEF AlertsIInv, SendersHold, Accepted
  <2>2. outcome[a] \in Seq(Outcomes) /\ Len(outcome[a]) <= MaxTexts
    BY <2>1 DEF AlertsIInv, AlertsState
  <2>3. Len(outcome[a]) \in 0..MaxTexts
    BY <2>2, BoundsAssumption
  <2> QED BY <2>1, <2>3 DEF AlertsIInv, AlertsState
<1>2. PICK r : r = [status |-> "queued", due |-> TRUE, sid |-> Len(outcome[a]),
                    attempts |-> Counted(row[a])]
  OBVIOUS
<1>3. r \in AlertRow /\ r.status = "queued"
  BY <1>1, <1>2, RowFacts DEF AlertRow
<1>4. row' = [row EXCEPT ![a] = r]
  BY <1>2 DEF Accepted
<1>5. Released(w) /\ ByHolder(a)
  <2>1. \A v \in Senders : sends[v].on = a => v = w
    BY <1>1, NothingIsNoRow DEF AlertsIInv, SendersHold, LocksExclude
  <2> QED BY <2>1, RestingIsReleased DEF ByHolder
<1>6. row' \in [Rows -> AlertRow] /\ \A b \in Rows : AlertMoves(b)
  BY <1>1, <1>3, <1>4, <1>5 DEF AlertMoves
<1>7. AddressFirst'
  BY <1>1, <1>3, <1>4, RowsAre DEF AlertsIInv, AddressFirst, Open
<1>8. row'[a].status \in Sent
  BY <1>1, <1>3, <1>4 DEF Sent
<1> QED
  BY <1>6, <1>7, <1>8, SameTexts, RestingIsReleased, AlertStepKeeps DEF AlertStep, SenderMoves

LEMMA FailureFacts ==
  ASSUME NEW r \in AlertRow
  PROVE  /\ AfterFailure(r) \in AlertRow /\ AfterFailure(r).status \in {"retry", "exhausted"}
         /\ AfterFailure(r).sid = r.sid
BY RowFacts DEF AfterFailure

LEMMA RefusedKeeps ==
  ASSUME AlertsIInv, NEW w \in Senders, Refused(w)
  PROVE  AlertsIInv'
<1> DEFINE a == sends[w].on
<1> UNCHANGED <<outcome, excused>> /\ sends' = [sends EXCEPT ![w] = Resting]
  BY DEF Refused
<1>1. /\ a \in Rows /\ a \in sends[w].locks /\ row[a].status \in Open
      /\ row \in [Rows -> AlertRow] /\ unanswered \in [Rows -> Nat] /\ excused \in [Rows -> Nat]
      /\ outcome \in [Rows -> Seq(Outcomes)]
  BY DEF AlertsIInv, AlertsState, SendersHold, Refused
<1>2. PICK r : r = AfterFailure(row[a])
  OBVIOUS
<1>3. r \in AlertRow /\ r.status \in {"retry", "exhausted"} /\ r.sid = row[a].sid
  BY <1>1, <1>2, FailureFacts
<1>4. row' = [row EXCEPT ![a] = r]
  BY <1>2 DEF Refused
<1>5. Released(w) /\ ByHolder(a)
  <2>1. \A v \in Senders : sends[v].on = a => v = w
    BY <1>1, NothingIsNoRow DEF AlertsIInv, SendersHold, LocksExclude
  <2> QED BY <2>1, RestingIsReleased DEF ByHolder
<1>6. row' \in [Rows -> AlertRow] /\ \A b \in Rows : AlertMoves(b)
  BY <1>1, <1>3, <1>4, <1>5 DEF AlertMoves, Open
<1>7. AddressFirst'
  BY <1>1, <1>3, <1>4, RowsAre DEF AlertsIInv, AddressFirst, Open
<1>8. /\ unanswered' \in [Rows -> Nat]
      /\ \A b \in Rows : Causes(b)' >= Causes(b)
      /\ \A b \in Rows : sends[w].at = "taken" /\ a = b => Causes(b)' > Causes(b)
  <2>1. CASE sends[w].at = "taken"
    BY <1>1, <2>1 DEF Refused, Causes
  <2>2. CASE sends[w].at # "taken"
    BY <1>1, <2>2 DEF Refused, Causes
  <2> QED BY <2>1, <2>2
<1> QED
  BY <1>1, <1>6, <1>7, <1>8, RestingIsReleased, AlertStepKeeps DEF AlertStep, SenderMoves

LEMMA SenderDiesKeeps ==
  ASSUME AlertsIInv, NEW w \in Senders, SenderDies(w)
  PROVE  AlertsIInv'
<1> UNCHANGED <<row, outcome, unanswered>> /\ sends' = [sends EXCEPT ![w] = Resting]
  BY DEF SenderDies
<1>1. sends[w].at = "taken" => sends[w].on \in Rows
  BY DEF AlertsIInv, SendersHold
<1>2. /\ excused' \in [Rows -> Nat]
      /\ \A a \in Rows : Causes(a)' >= Causes(a)
      /\ \A a \in Rows : sends[w].at = "taken" /\ sends[w].on = a => Causes(a)' > Causes(a)
  <2>1. CASE sends[w].at = "taken"
    BY <1>1, <2>1 DEF AlertsIInv, AlertsState, SenderDies, Causes
  <2>2. CASE sends[w].at # "taken"
    BY <2>2 DEF AlertsIInv, AlertsState, SenderDies, Causes
  <2> QED BY <2>1, <2>2
<1>3. /\ outcome' \in [Rows -> Seq(Outcomes)] /\ unanswered' \in [Rows -> Nat]
      /\ \A a \in Rows : Len(outcome'[a]) = Len(outcome[a])
  BY DEF AlertsIInv, AlertsState
<1> QED
  BY <1>2, <1>3, SameRows, RestingIsReleased, AlertStepKeeps DEF AlertStep, SenderMoves

LEMMA BackoffKeeps ==
  ASSUME AlertsIInv, NEW a \in Rows, Backoff(a)
  PROVE  AlertsIInv'
<1> UNCHANGED <<outcome, unanswered, excused, sends>>
  BY DEF Backoff
<1>1. PICK r : r = [row[a] EXCEPT !.due = TRUE]
  OBVIOUS
<1>2. row \in [Rows -> AlertRow] /\ row[a] \in AlertRow /\ sends \in [Senders -> SendRow]
  BY DEF AlertsIInv, AlertsState
<1>3. r \in AlertRow /\ r.status = row[a].status /\ r.sid = row[a].sid
  BY <1>1, <1>2 DEF AlertRow
<1>4. row' = [row EXCEPT ![a] = r]
  BY <1>1 DEF Backoff
<1>5. row' \in [Rows -> AlertRow] /\ \A b \in Rows : AlertMoves(b)
  BY <1>2, <1>3, <1>4 DEF AlertMoves
<1>6. \A b \in Rows : row'[b].status = row[b].status
  BY <1>2, <1>3, <1>4
<1>7. AddressFirst'
  BY <1>6, RowsAre DEF AlertsIInv, AddressFirst
<1> QED
  BY <1>2, <1>5, <1>7, SameTexts, AlertStepKeeps DEF AlertStep, SenderMoves

LEMMA ReportKeeps ==
  ASSUME AlertsIInv, NEW a \in Rows, NEW n \in DOMAIN outcome[a], NEW status \in Final,
         Report(a, n, status)
  PROVE  AlertsIInv'
<1> UNCHANGED <<unanswered, excused, sends>>
  BY DEF Report
<1>1. /\ row \in [Rows -> AlertRow] /\ row[a] \in AlertRow /\ sends \in [Senders -> SendRow]
      /\ outcome \in [Rows -> Seq(Outcomes)]
      /\ unanswered \in [Rows -> Nat] /\ excused \in [Rows -> Nat]
  BY DEF AlertsIInv, AlertsState
<1>2. PICK texts : texts = [outcome[a] EXCEPT ![n] = status]
  OBVIOUS
<1>3. texts \in Seq(Outcomes) /\ Len(texts) = Len(outcome[a])
  BY <1>1, <1>2 DEF Outcomes
<1>4. outcome' = [outcome EXCEPT ![a] = texts]
  BY <1>2 DEF Report
<1>5. /\ outcome' \in [Rows -> Seq(Outcomes)]
      /\ \A b \in Rows : Len(outcome'[b]) = Len(outcome[b]) /\ Causes(b)' >= Causes(b)
  BY <1>1, <1>3, <1>4 DEF Causes
<1>6. CASE row[a].sid = n /\ row[a].status \notin Final
  <2>1. n \in Nat \ {0}
    BY <1>1
  <2>2. row[a].status \in Sent
    BY <1>6, <2>1 DEF AlertsIInv, OwnMessage
  <2>3. PICK r : r = [row[a] EXCEPT !.status = status]
    OBVIOUS
  <2>4. r \in AlertRow /\ r.status = status /\ r.status \in Sent
    BY <1>1, <2>3 DEF AlertRow, Final, Sent
  <2>5. row' = [row EXCEPT ![a] = r]
    BY <1>6, <2>3 DEF Report
  <2>6. row' \in [Rows -> AlertRow] /\ \A b \in Rows : AlertMoves(b)
    BY <1>1, <2>2, <2>4, <2>5 DEF AlertMoves
  <2>7. AddressFirst'
    BY <1>1, <2>2, <2>4, <2>5, RowsAre DEF AlertsIInv, AddressFirst, Sent, Final
  <2> QED
    BY <1>1, <1>5, <2>6, <2>7, AlertStepKeeps DEF AlertStep, SenderMoves
<1>7. CASE ~(row[a].sid = n /\ row[a].status \notin Final)
  <2>1. UNCHANGED row
    BY <1>7 DEF Report
  <2> QED
    BY <1>1, <1>5, <2>1, SameRows, AlertStepKeeps DEF AlertStep, SenderMoves
<1> QED BY <1>6, <1>7

Requeued(a) ==
  \/ row'[a] = row[a] /\ unanswered'[a] = unanswered[a] /\ excused'[a] = excused[a]
  \/ /\ row[a].status = "none" /\ row'[a] = Queued
     /\ unanswered'[a] = unanswered[a] /\ excused'[a] = excused[a]
  \/ /\ a[1] = "facebook" /\ row'[a] = Queued /\ row[a].status \in Requeueable
     /\ unanswered'[a] = 0
     /\ \/ row[a].status = "undelivered" /\ excused'[a] = excused[a] + unanswered[a] + 1
        \/ row[a].status # "undelivered" /\ excused'[a] = excused[a] + unanswered[a]

LEMMA RequeueMoves ==
  ASSUME AlertsIInv, Requeue, NEW a \in Rows
  PROVE  Requeued(a)
<1> DEFINE again == {b \in Rows : b[1] = "facebook" /\ b[2] \in eligible
                                    /\ row[b].status \in Requeueable}
<1>1. /\ row'[a] = IF a \in again THEN Renewed(row[a])
                   ELSE IF a \in Missing("facebook") THEN Queued ELSE row[a]
      /\ excused'[a] = IF a \notin again THEN excused[a]
                       ELSE excused[a] + unanswered[a]
                              + IF row[a].status = "undelivered" THEN 1 ELSE 0
      /\ unanswered'[a] = IF a \in again THEN 0 ELSE unanswered[a]
  BY DEF Requeue
<1>2. a \in Missing("facebook") => row[a].status = "none"
  BY DEF Missing
<1>3. excused[a] \in Nat /\ unanswered[a] \in Nat
  BY DEF AlertsIInv, AlertsState
<1>4. CASE a \in again
  BY <1>1, <1>3, <1>4 DEF Renewed, Requeued
<1>5. CASE a \notin again
  <2> HIDE DEF again
  <2> QED BY <1>1, <1>2, <1>5 DEF Requeued
<1> QED BY <1>4, <1>5

LEMMA RequeueKeeps ==
  ASSUME AlertsIInv, Requeue
  PROVE  AlertsIInv'
<1> UNCHANGED <<outcome, sends>>
  BY DEF Requeue
<1>1. /\ row \in [Rows -> AlertRow] /\ sends \in [Senders -> SendRow]
      /\ outcome \in [Rows -> Seq(Outcomes)]
      /\ unanswered \in [Rows -> Nat] /\ excused \in [Rows -> Nat]
  BY DEF AlertsIInv, AlertsState
<1>2. \A a \in Rows : Requeued(a)
  BY RequeueMoves
<1>3. row' \in [Rows -> AlertRow] /\ unanswered' \in [Rows -> Nat] /\ excused' \in [Rows -> Nat]
  <2>1. /\ row' = [a \in Rows |-> row'[a]] /\ unanswered' = [a \in Rows |-> unanswered'[a]]
        /\ excused' = [a \in Rows |-> excused'[a]]
    BY DEF Requeue
  <2>2. ASSUME NEW a \in Rows
        PROVE  row'[a] \in AlertRow /\ unanswered'[a] \in Nat /\ excused'[a] \in Nat
    <3>1. Requeued(a) /\ row[a] \in AlertRow /\ unanswered[a] \in Nat /\ excused[a] \in Nat
      BY <1>1, <1>2
    <3> QED BY <3>1, QueuedIsRow DEF Requeued
  <2> QED BY <2>1, <2>2
<1>4. \A a \in Rows : Len(outcome'[a]) = Len(outcome[a]) /\ Causes(a)' >= Causes(a)
  <2> SUFFICES ASSUME NEW a \in Rows PROVE Causes(a)' >= Causes(a)
    OBVIOUS
  <2>1. Requeued(a) /\ unanswered[a] \in Nat /\ excused[a] \in Nat
    BY <1>1, <1>2
  <2> QED BY <2>1 DEF Requeued, Causes
<1>5. \A a \in Rows : AlertMoves(a)
  <2> SUFFICES ASSUME NEW a \in Rows PROVE AlertMoves(a)
    OBVIOUS
  <2>1. Requeued(a) /\ unanswered[a] \in Nat /\ excused[a] \in Nat
    BY <1>1, <1>2
  <2>2. row[a].status = "undelivered" /\ row'[a] # row[a] => Causes(a)' > Causes(a)
    BY <2>1 DEF Requeued, Causes
  <2>3. CASE row'[a] = row[a]
    BY <2>3 DEF AlertMoves
  <2>4. CASE row'[a] # row[a]
    BY <2>1, <2>2, <2>4, QueuedIsRow DEF Requeued, AlertMoves, Requeueable, Open
  <2> QED BY <2>3, <2>4
<1>6. AddressFirst'
  <2> SUFFICES ASSUME NEW p \in Staff, <<"stage2", p>> \in Rows
               PROVE  row'[<<"stage2", p>>].status # "none" => row'[<<"stage1", p>>].status # "none"
    BY DEF AddressFirst
  <2>1. <<"stage1", p>> \in Rows
    BY RowsAre
  <2>2. row'[<<"stage2", p>>] = row[<<"stage2", p>>]
    BY DEF Requeue, Missing
  <2>3. row'[<<"stage1", p>>] = row[<<"stage1", p>>]
    BY <2>1 DEF Requeue, Missing
  <2> QED BY <2>1, <2>2, <2>3 DEF AlertsIInv, AddressFirst
<1> QED
  BY <1>1, <1>3, <1>4, <1>5, <1>6, AlertStepKeeps DEF AlertStep, SenderMoves

LEMMA QuietKeeps ==
  ASSUME AlertsIInv, UNCHANGED <<row, outcome, sends, unanswered, excused>>
  PROVE  AlertsIInv'
<1>1. sends' \in [Senders -> SendRow]
  BY DEF AlertsIInv, AlertsState
<1> QED
  BY <1>1, SameRows, SameTexts, AlertStepKeeps DEF AlertStep, SenderMoves

LEMMA AlertsNextKeeps == AlertsIInv /\ [AlertsNext]_alertVars => AlertsIInv'
<1> SUFFICES ASSUME AlertsIInv, [AlertsNext]_alertVars PROVE AlertsIInv'
  OBVIOUS
<1>1. ASSUME NEW step \in {1, 2}, Visit(step) PROVE AlertsIInv'
  BY <1>1, VisitKeeps
<1>2. CASE FacebookLead
  BY <1>2, FacebookLeadKeeps
<1>3. CASE Configure \/ DayPasses
  BY <1>3, QuietKeeps DEF Configure, DayPasses
<1>4. CASE Requeue
  BY <1>4, RequeueKeeps
<1>5. ASSUME NEW p \in Staff, ChangeStaff(p) PROVE AlertsIInv'
  BY <1>5, QuietKeeps DEF ChangeStaff
<1>6. ASSUME NEW w \in Senders, Sends(w) \/ SenderDies(w) PROVE AlertsIInv'
  BY <1>6, SweepKeeps, PickKeeps, TakeKeeps, AcceptedKeeps, RefusedKeeps, SenderDiesKeeps
     DEF Sends
<1>7. ASSUME NEW a \in Rows, Backoff(a) PROVE AlertsIInv'
  BY <1>7, BackoffKeeps
<1>8. ASSUME NEW a \in Rows, NEW n \in DOMAIN outcome[a], NEW status \in Final,
             Report(a, n, status)
      PROVE  AlertsIInv'
  BY <1>8, ReportKeeps
<1>9. CASE UNCHANGED alertVars
  BY <1>9, QuietKeeps DEF alertVars
<1> QED
  BY <1>1, <1>2, <1>3, <1>4, <1>5, <1>6, <1>7, <1>8, <1>9 DEF AlertsNext

LEMMA AlertsInvariance == AlertsSpec => []AlertsIInv
<1> QED BY AlertsInitInv, AlertsNextKeeps, PTL DEF AlertsSpec

-----------------------------------------------------------------------------
(* Of lost answers.  Each is one of the attempts its row counts, which no  *)
(* step but the manager's resets, and the last attempt closes the row.     *)
LostCounted ==
  \A a \in Rows :
    /\ unanswered[a] <= AlertAttempts
    /\ row[a].status = "none" => unanswered[a] = 0
    /\ row[a].status \in Open => unanswered[a] <= row[a].attempts /\ unanswered[a] < AlertAttempts

LostMoves(a) ==
  \/ /\ unanswered'[a] = unanswered[a]
     /\ \/ row'[a].status = row[a].status /\ row'[a].attempts = row[a].attempts
        \/ row[a].status = "none" /\ row'[a] = Queued
        \/ /\ row[a].status \in Open /\ row'[a].status \in Open
           /\ row'[a].attempts >= row[a].attempts
        \/ row'[a].status \in Sent \cup {"exhausted"}
  \/ unanswered'[a] = 0 /\ row'[a] = Queued
  \/ /\ row[a].status \in Open /\ row'[a] = AfterFailure(row[a])
     /\ unanswered'[a] \in {unanswered[a], unanswered[a] + 1}

LEMMA FailureCounted ==
  ASSUME NEW r \in AlertRow, r.status \in Open
  PROVE  LET f == AfterFailure(r) IN
         \/ f.status = "exhausted"
         \/ f.status = "retry" /\ f.attempts = r.attempts + 1 /\ f.attempts < AlertAttempts
<1>1. AlertAttempts \in Nat /\ r.attempts \in 0..AlertAttempts
  BY BoundsAssumption DEF AlertRow
<1>2. PICK n : n = Counted(r)
  OBVIOUS
<1>3. n = IF r.attempts < AlertAttempts THEN r.attempts + 1 ELSE r.attempts
  BY <1>2 DEF Counted
<1>4. CASE n < AlertAttempts
  <2>1. AfterFailure(r) = Retried(r)
    BY <1>2, <1>4 DEF AfterFailure
  <2>2. Retried(r) = [[[r EXCEPT !.status = "retry"] EXCEPT !.attempts = n] EXCEPT !.due = FALSE]
    BY <1>2 DEF Retried
  <2>3. Retried(r).attempts = n /\ Retried(r).status = "retry"
    BY <2>2 DEF AlertRow
  <2>4. n = r.attempts + 1
    BY <1>1, <1>3, <1>4
  <2> QED BY <2>1, <2>3, <2>4, <1>4
<1>5. CASE ~(n < AlertAttempts)
  BY <1>2, <1>5, RowFacts DEF AfterFailure
<1> QED BY <1>4, <1>5

LEMMA LostMovesKeep ==
  ASSUME AlertsIInv, LostCounted, AlertsIInv', \A a \in Rows : LostMoves(a)
  PROVE  LostCounted'
<1> SUFFICES ASSUME NEW a \in Rows
             PROVE  /\ unanswered'[a] <= AlertAttempts
                    /\ row'[a].status = "none" => unanswered'[a] = 0
                    /\ row'[a].status \in Open =>
                         unanswered'[a] <= row'[a].attempts /\ unanswered'[a] < AlertAttempts
  BY DEF LostCounted
<1>1. /\ row[a] \in AlertRow /\ row'[a] \in AlertRow
      /\ unanswered[a] \in Nat /\ unanswered'[a] \in Nat
  BY DEF AlertsIInv, AlertsState
<1>2. AlertAttempts \in Nat \ {0} /\ row[a].attempts \in Nat /\ row'[a].attempts \in Nat
  BY <1>1, BoundsAssumption DEF AlertRow
<1>3. /\ unanswered[a] <= AlertAttempts
      /\ row[a].status = "none" => unanswered[a] = 0
      /\ row[a].status \in Open => unanswered[a] <= row[a].attempts /\ unanswered[a] < AlertAttempts
  BY DEF LostCounted
<1>4. Queued.attempts = 0 /\ Queued.status = "pending"
  BY DEF Queued, Absent
<1>5. CASE unanswered'[a] = unanswered[a] /\ row'[a].status = row[a].status
           /\ row'[a].attempts = row[a].attempts
  BY <1>3, <1>5
<1>6. CASE /\ row'[a] = Queued
           /\ \/ unanswered'[a] = 0
              \/ unanswered'[a] = unanswered[a] /\ row[a].status = "none"
  BY <1>2, <1>3, <1>4, <1>6
<1>7. CASE unanswered'[a] = unanswered[a] /\ row[a].status \in Open /\ row'[a].status \in Open
           /\ row'[a].attempts >= row[a].attempts
  BY <1>1, <1>2, <1>3, <1>7 DEF Open
<1>8. CASE unanswered'[a] = unanswered[a] /\ row'[a].status \in Sent \cup {"exhausted"}
  BY <1>3, <1>8 DEF Open, Sent, Final
<1>9. CASE /\ row[a].status \in Open /\ row'[a] = AfterFailure(row[a])
           /\ unanswered'[a] \in {unanswered[a], unanswered[a] + 1}
  BY <1>1, <1>2, <1>3, <1>9, FailureCounted DEF Open
<1> QED BY <1>5, <1>6, <1>7, <1>8, <1>9 DEF LostMoves

LEMMA LostStep == AlertsIInv /\ [AlertsNext]_alertVars => \A a \in Rows : LostMoves(a)
<1> SUFFICES ASSUME AlertsIInv, [AlertsNext]_alertVars, NEW a \in Rows PROVE LostMoves(a)
  OBVIOUS
<1>1. row \in [Rows -> AlertRow] /\ row[a] \in AlertRow /\ unanswered \in [Rows -> Nat]
  BY DEF AlertsIInv, AlertsState
<1>2. ASSUME UNCHANGED unanswered, row'[a] = row[a] PROVE LostMoves(a)
  BY <1>2 DEF LostMoves
<1>3. ASSUME UNCHANGED unanswered, NEW kinds, Queue(kinds) PROVE LostMoves(a)
  BY <1>3 DEF Queue, Missing, LostMoves
<1>4. ASSUME NEW w \in Senders, Sweep(w) PROVE LostMoves(a)
  BY <1>2, <1>3, <1>4 DEF Sweep
<1>5. ASSUME NEW w \in Senders, Pick(w) PROVE LostMoves(a)
  <2>1. UNCHANGED unanswered
    BY <1>5 DEF Pick
  <2>2. CASE UNCHANGED row
    BY <1>2, <2>1, <2>2
  <2>3. ASSUME NEW b \in Candidates, row' = [row EXCEPT ![b] = Blocked(row[b])]
        PROVE  LostMoves(a)
    <3>1. b \in Rows /\ row[b].status \in Open /\ row[b] \in AlertRow
      BY <1>1, CandidateFacts
    <3>2. PICK n : n = Counted(row[b])
      OBVIOUS
    <3>3. n >= row[b].attempts
      BY <3>1, <3>2, BoundsAssumption DEF Counted, AlertRow
    <3>4. Blocked(row[b]) = [[row[b] EXCEPT !.status = "blocked"] EXCEPT !.attempts = n]
      BY <3>2 DEF Blocked
    <3>5. Blocked(row[b]).status = "blocked" /\ Blocked(row[b]).attempts = n
      BY <3>1, <3>4 DEF AlertRow
    <3>6. CASE a = b
      BY <1>1, <2>1, <2>3, <3>1, <3>3, <3>5, <3>6 DEF LostMoves, Open
    <3>7. CASE a # b
      BY <1>1, <1>2, <2>1, <2>3, <3>7
    <3> QED BY <3>6, <3>7
  <2> QED BY <1>5, <2>2, <2>3 DEF Pick
<1>6. ASSUME NEW w \in Senders, Accepted(w) PROVE LostMoves(a)
  <2> DEFINE r == [status |-> "queued", due |-> TRUE, sid |-> Len(outcome[sends[w].on]),
                   attempts |-> Counted(row[sends[w].on])]
  <2>1. row' = [row EXCEPT ![sends[w].on] = r] /\ r.status = "queued" /\ UNCHANGED unanswered
    BY <1>6 DEF Accepted
  <2> HIDE DEF r
  <2>2. CASE a = sends[w].on
    BY <1>1, <2>1, <2>2 DEF LostMoves, Sent
  <2>3. CASE a # sends[w].on
    BY <1>1, <1>2, <2>1, <2>3
  <2> QED BY <2>2, <2>3
<1>7. ASSUME NEW w \in Senders, Refused(w) PROVE LostMoves(a)
  <2> DEFINE b == sends[w].on
  <2>1. b \in Rows /\ row[b].status \in Open
    BY <1>7 DEF AlertsIInv, SendersHold, Refused
  <2>2. /\ row' = [row EXCEPT ![b] = AfterFailure(row[b])]
        /\ unanswered' = [unanswered EXCEPT ![b] = @ + 1] \/ unanswered' = unanswered
    BY <1>7 DEF Refused
  <2> HIDE DEF b
  <2>3. CASE a = b
    BY <1>1, <2>1, <2>2, <2>3 DEF LostMoves
  <2>4. CASE a # b
    BY <1>1, <2>1, <2>2, <2>4 DEF LostMoves
  <2> QED BY <2>3, <2>4
<1>8. ASSUME NEW b \in Rows, Backoff(b) PROVE LostMoves(a)
  <2>1. row'[a].status = row[a].status /\ row'[a].attempts = row[a].attempts
    BY <1>1, <1>8 DEF Backoff, AlertRow
  <2> QED BY <1>8, <2>1 DEF Backoff, LostMoves
<1>9. ASSUME NEW b \in Rows, NEW n \in DOMAIN outcome[b], NEW status \in Final,
             Report(b, n, status)
      PROVE  LostMoves(a)
  <2>1. \/ row'[a].status = row[a].status /\ row'[a].attempts = row[a].attempts
        \/ row'[a].status = status
    BY <1>1, <1>9 DEF Report, AlertRow
  <2> QED BY <1>9, <2>1 DEF Report, LostMoves, Sent
<1>10. CASE Requeue
  <2>1. Requeued(a)
    BY <1>10, RequeueMoves
  <2> QED BY <2>1 DEF Requeued, LostMoves
<1>11. CASE \/ FacebookLead \/ Configure \/ DayPasses \/ UNCHANGED alertVars
            \/ \E step \in {1, 2} : Visit(step)
            \/ \E p \in Staff : ChangeStaff(p)
            \/ \E w \in Senders : Take(w) \/ SenderDies(w)
  BY <1>2, <1>3, <1>11
     DEF FacebookLead, Configure, DayPasses, alertVars, Visit, ChangeStaff, Take, SenderDies
<1> QED
  BY <1>4, <1>5, <1>6, <1>7, <1>8, <1>9, <1>10, <1>11 DEF AlertsNext, Sends

LEMMA LostInvariance == AlertsSpec => []LostCounted
<1>1. AlertsInit => LostCounted
  BY BoundsAssumption DEF AlertsInit, LostCounted, Absent, Open
<1>2. AlertsIInv /\ LostCounted /\ AlertsIInv' /\ [AlertsNext]_alertVars => LostCounted'
  BY LostStep, LostMovesKeep
<1> QED BY <1>1, <1>2, AlertsInvariance, PTL DEF AlertsSpec

(* The staff hear of a seller's details after the seller's address, and of *)
(* nothing twice without a lost answer, a crash or a manager as the cause: *)
(* the workers of process_next_staff_lead_alert choose among rows they have*)
(* locked; of lost answers no more often than a row counts attempts.       *)
THEOREM AlertsKeepOrder == AlertsSpec => []AlertsInOrder
<1>1. AlertsIInv /\ LostCounted => AlertsInOrder
  <2> SUFFICES ASSUME AlertsIInv, LostCounted PROVE AlertsInOrder
    OBVIOUS
  <2>1. \A a \in Rows :
          Len(outcome[a]) <= 1 + unanswered[a] + excused[a] /\ unanswered[a] <= AlertAttempts
    BY DEF AlertsIInv, AlertsState, TextsAccounted, LostCounted, Causes
  <2> QED BY <2>1 DEF AlertsIInv, AlertsState, AlertsInOrder, NoUnexcusedText
<1> QED BY <1>1, AlertsInvariance, LostInvariance, PTL

LEMMA OpenIsNotClosed ==
  ASSUME AlertsIInv, [AlertsNext]_alertVars, NEW a \in DOMAIN row, row[a].status \in Open
  PROVE  row'[a].status \notin Final
<1>1. /\ a \in Rows /\ row \in [Rows -> AlertRow] /\ row[a] \in AlertRow
      /\ row[a].status \notin Final /\ row[a].status \notin Sent
  BY DEF AlertsIInv, AlertsState, Open, Final, Sent
<1> DEFINE Fine == row'[a].status \notin Final
<1>2. ASSUME row'[a] = row[a] \/ row'[a] = Queued PROVE Fine
  BY <1>1, <1>2, QueuedIsRow DEF Final
<1>3. ASSUME NEW kinds, Queue(kinds) PROVE Fine
  BY <1>1, <1>2, <1>3 DEF Queue
<1>4. ASSUME NEW b \in Rows, NEW r, r.status \notin Final, row' = [row EXCEPT ![b] = r]
      PROVE  Fine
  BY <1>1, <1>2, <1>4
<1>5. ASSUME NEW w \in Senders, Sweep(w) PROVE Fine
  BY <1>1, <1>2, <1>3, <1>5 DEF Sweep
<1>6. ASSUME NEW w \in Senders, Pick(w) PROVE Fine
  <2>1. CASE UNCHANGED row
    BY <1>2, <2>1
  <2>2. ASSUME NEW b \in Candidates, row' = [row EXCEPT ![b] = Blocked(row[b])] PROVE Fine
    <3>1. b \in Rows /\ Blocked(row[b]).status \notin Final
      BY <1>1, RowFacts DEF Candidates, Final
    <3> QED BY <1>4, <2>2, <3>1
  <2> QED BY <1>6, <2>1, <2>2 DEF Pick
<1>7. ASSUME NEW w \in Senders, Accepted(w) PROVE Fine
  <2> DEFINE r == [status |-> "queued", due |-> TRUE, sid |-> Len(outcome[sends[w].on]),
                   attempts |-> Counted(row[sends[w].on])]
  <2>1. sends[w].on \in Rows /\ r.status \notin Final /\ row' = [row EXCEPT ![sends[w].on] = r]
    BY <1>7 DEF Accepted, AlertsIInv, SendersHold, Final
  <2> HIDE DEF r
  <2> QED BY <1>4, <2>1
<1>8. ASSUME NEW w \in Senders, Refused(w) PROVE Fine
  <2>1. PICK r : r = AfterFailure(row[sends[w].on])
    OBVIOUS
  <2>2. sends[w].on \in Rows /\ row' = [row EXCEPT ![sends[w].on] = r]
    BY <1>8, <2>1 DEF Refused, AlertsIInv, SendersHold
  <2>3. r.status \notin Final
    BY <1>1, <2>1, <2>2, FailureFacts DEF Final
  <2> QED BY <1>4, <2>2, <2>3
<1>9. ASSUME NEW b \in Rows, Backoff(b) PROVE Fine
  <2>1. row'[a].status = row[a].status
    BY <1>1, <1>9 DEF Backoff, AlertRow
  <2> QED BY <1>1, <2>1
(* The report is on another message than the open alert's: it has none.    *)
<1>10. ASSUME NEW b \in Rows, NEW n \in DOMAIN outcome[b], NEW status \in Final,
              Report(b, n, status)
       PROVE  Fine
  <2>1. CASE row[b].sid = n /\ row[b].status \notin Final
    <3>1. n \in Nat \ {0}
      BY DEF AlertsIInv, AlertsState
    <3>2. b # a
      BY <1>1, <2>1, <3>1 DEF AlertsIInv, OwnMessage
    <3>3. row' = [row EXCEPT ![b].status = status]
      BY <1>10, <2>1 DEF Report
    <3> QED BY <1>1, <1>2, <3>2, <3>3
  <2>2. CASE ~(row[b].sid = n /\ row[b].status \notin Final)
    BY <1>2, <1>10, <2>2 DEF Report
  <2> QED BY <2>1, <2>2
<1>11. CASE Requeue
  BY <1>1, <1>2, <1>11 DEF Requeue, Renewed
<1>12. CASE \/ FacebookLead \/ Configure \/ DayPasses \/ UNCHANGED alertVars
            \/ \E step \in {1, 2} : Visit(step)
            \/ \E p \in Staff : ChangeStaff(p)
            \/ \E w \in Senders : Take(w) \/ SenderDies(w)
  BY <1>2, <1>3, <1>12
     DEF FacebookLead, Configure, DayPasses, alertVars, Visit, ChangeStaff, Take, SenderDies
<1> QED
  BY <1>5, <1>6, <1>7, <1>8, <1>9, <1>10, <1>11, <1>12 DEF AlertsNext, Sends

(* What is reported of an earlier text never closes an alert that was queued*)
(* again after it: the requeue clears the identifier that reports look for.*)
THEOREM OldReportsCloseNothing == AlertsSpec => ClosedByItsOwnText
<1>1. AlertsIInv /\ [AlertsNext]_alertVars
        => [\A a \in DOMAIN row : row[a].status \in Open => row'[a].status \notin Final]_alertVars
  BY OpenIsNotClosed
<1> QED BY <1>1, AlertsInvariance, PTL DEF AlertsSpec, ClosedByItsOwnText

-----------------------------------------------------------------------------
(***************************************************************************)
(* RateLimiter.  A pass of the window that is no longer in its key's deque *)
(* was dropped with the key, so MaxKeys other keys have asked since: the   *)
(* order of the dictionary is the order of the last requests.              *)
(***************************************************************************)
Passes == Nat \X Nat

LimiterState ==
  /\ DOMAIN requests \subseteq Keys
  /\ \A k \in Tracked : requests[k] \subseteq Passes
  /\ now \in Nat
  /\ passed \in [Keys -> SUBSET Passes]
  /\ asked \in [Keys -> Nat]
  /\ told \in [Keys -> Nat]

(* The other keys that were asked for at or after t. *)
AskedSince(k, t) == {j \in Keys \ {k} : asked[j] >= t}

(* What a deque counts was let pass, and a pass it no longer has was pushed*)
(* out by MaxKeys other keys that were asked for later.                    *)
Remembered(k) ==
  /\ Recent(History(k)) \subseteq passed[k]
  /\ \A e \in passed[k] : e \in History(k) \/ Cardinality(AskedSince(k, e[1])) >= MaxKeys

(* Passes are of the window, and those of one time are numbered.           *)
PassesFit(k) ==
  /\ IsFiniteSet(passed[k])
  /\ \A e \in passed[k] :
       /\ e[1] > 0 /\ e[1] <= now /\ e[1] + Window > now
       /\ e[1] = now => e[2] <= Cardinality({f \in passed[k] : f[1] = now})

DequesFit(k) == IsFiniteSet(History(k)) /\ Cardinality(History(k)) <= Limit

(* One pass at least runs out by the time a refused client was told.       *)
Promised(k) ==
  told[k] > 0 /\ History(k) # {} => \E e \in History(k) : told[k] + PerSecond > e[1] + Window

(* A key further back was asked for after all passes of the ones before it.*)
OrderFits ==
  /\ before \subseteq Keys \X Keys
  /\ \A i, j \in Keys : <<i, j>> \in before => \A e \in passed[i] : asked[j] >= e[1]

LimiterIInv ==
  /\ LimiterState /\ now > 0 /\ \A k \in Keys : asked[k] <= now
  /\ \A k \in Keys : PassesFit(k) /\ DequesFit(k) /\ Remembered(k) /\ Promised(k)
  /\ OrderFits

-----------------------------------------------------------------------------
LEMMA LimiterInitInv == LimiterInit => LimiterIInv
<1> SUFFICES ASSUME LimiterInit PROVE LimiterIInv
  OBVIOUS
<1> USE DEF LimiterInit
<1>1. Tracked = {} /\ \A k \in Keys : History(k) = {} /\ passed[k] = {} /\ told[k] = 0
  BY DEF Tracked, History
<1>2. IsFiniteSet({}) /\ Cardinality({}) = 0
  BY FS_EmptySet
<1>3. LimiterState
  BY <1>1 DEF LimiterState, Tracked
<1>4. \A k \in Keys : PassesFit(k) /\ DequesFit(k) /\ Remembered(k) /\ Promised(k)
  <2> TAKE k \in Keys
  <2>1. History(k) = {} /\ passed[k] = {} /\ told[k] = 0 /\ Recent(History(k)) = {}
    BY <1>1 DEF Recent
  <2>2. DequesFit(k)
    BY <1>2, <2>1, WindowAssumption DEF DequesFit
  <2>3. PassesFit(k) /\ Remembered(k) /\ Promised(k)
    BY <1>2, <2>1 DEF PassesFit, Remembered, Promised
  <2> QED BY <2>2, <2>3
<1> QED BY <1>3, <1>4 DEF LimiterIInv, OrderFits

(* Later requests of others only add to those asked since.                 *)
LEMMA SinceGrows ==
  ASSUME NEW k \in Keys, NEW t \in Nat,
         \A j \in Keys \ {k} : asked[j] >= t => asked'[j] >= t
  PROVE  Cardinality(AskedSince(k, t)) >= MaxKeys => Cardinality(AskedSince(k, t)') >= MaxKeys
<1>1. AskedSince(k, t)' = {j \in Keys \ {k} : asked'[j] >= t}
  BY DEF AskedSince
<1>2. PICK S : S = {j \in Keys \ {k} : asked'[j] >= t}
  OBVIOUS
<1>3. S \subseteq Keys /\ AskedSince(k, t) \subseteq S
  BY <1>2 DEF AskedSince
<1>4. IsFiniteSet(S) /\ Cardinality(S) \in Nat
  BY <1>3, KeysAssumption, FS_Subset, FS_CardinalityType
<1>5. Cardinality(AskedSince(k, t)) <= Cardinality(S) /\ Cardinality(AskedSince(k, t)) \in Nat
  BY <1>3, <1>4, FS_Subset, FS_CardinalityType
<1> QED BY <1>1, <1>2, <1>4, <1>5, KeysAssumption

LEMMA RecentFinite ==
  ASSUME NEW S, IsFiniteSet(S)
  PROVE  /\ IsFiniteSet(Recent(S)) /\ Recent(S) \subseteq S
         /\ Cardinality(Recent(S)) <= Cardinality(S) /\ Cardinality(Recent(S)) \in Nat
         /\ Cardinality(S) \in Nat
<1>1. Recent(S) \in SUBSET S
  BY DEF Recent
<1> QED BY <1>1, FS_Subset, FS_CardinalityType

-----------------------------------------------------------------------------
LEMMA TimePassesKeeps ==
  ASSUME LimiterIInv, TimePasses
  PROVE  LimiterIInv'
<1>1. /\ now \in Nat /\ now' = now + 1 /\ UNCHANGED <<requests, before, told>>
      /\ passed' = [k \in Keys |-> {e \in passed[k] : e[1] + Window > now + 1}]
      /\ asked' = [k \in Keys |-> IF asked[k] + Window > now + 1 THEN asked[k] ELSE 0]
  BY DEF TimePasses, LimiterIInv, LimiterState
<1>2. \A k \in Keys : passed'[k] = {e \in passed[k] : e[1] + Window > now + 1}
  BY <1>1
<1>3. \A k \in Keys : /\ asked[k] \in Nat /\ passed[k] \subseteq Passes
                      /\ asked'[k] = asked[k] \/ (asked'[k] = 0 /\ asked[k] + Window <= now + 1)
                      /\ asked'[k] \in Nat /\ asked'[k] <= asked[k]
  BY <1>1, WindowAssumption DEF LimiterIInv, LimiterState
<1>4. UNCHANGED Tracked /\ \A k : History(k)' = History(k)
  BY <1>1 DEF Tracked, History
<1>5. LimiterState'
  <2>1. passed' \in [Keys -> SUBSET Passes]
    BY <1>1, <1>3
  <2>2. asked' \in [Keys -> Nat]
    BY <1>1, <1>3
  <2> QED BY <1>1, <1>4, <2>1, <2>2 DEF LimiterState, LimiterIInv, Tracked
<1>6. now' > 0 /\ \A k \in Keys : asked'[k] <= now'
  BY <1>1, <1>3 DEF LimiterIInv
(* Who was asked for since a pass that is still of the window, still was.  *)
<1>7. ASSUME NEW k \in Keys, NEW e \in passed'[k], NEW j \in Keys, asked[j] >= e[1]
      PROVE  asked'[j] >= e[1]
  BY <1>1, <1>2, <1>3, <1>7, WindowAssumption DEF Passes
<1>8. ASSUME NEW k \in Keys PROVE PassesFit(k)'
  <2>1. IsFiniteSet(passed'[k])
    BY <1>2, FS_Subset DEF LimiterIInv, PassesFit
  <2>2. ASSUME NEW e \in passed'[k]
        PROVE  e[1] > 0 /\ e[1] <= now' /\ e[1] + Window > now' /\ e[1] # now'
    <3>1. e \in passed[k] /\ e[1] + Window > now + 1 /\ PassesFit(k) /\ e[1] \in Nat
      BY <1>2, <1>3 DEF LimiterIInv, Passes
    <3>2. e[1] > 0 /\ e[1] <= now
      BY <3>1 DEF PassesFit
    <3> QED BY <1>1, <3>1, <3>2
  <2> QED BY <2>1, <2>2 DEF PassesFit
<1>9. ASSUME NEW k \in Keys PROVE Remembered(k)'
  <2>1. ASSUME NEW e \in History(k), e[1] + Window > now' PROVE e \in passed'[k]
    <3>1. e \in Passes
      BY DEF History, LimiterIInv, LimiterState
    <3>2. e \in Recent(History(k))
      BY <1>1, <2>1, <3>1, WindowAssumption DEF Recent, Passes
    <3>3. e \in passed[k]
      BY <3>2 DEF LimiterIInv, Remembered
    <3> QED BY <1>1, <1>2, <2>1, <3>3
  <2>2. ASSUME NEW e \in passed'[k], e \notin History(k)
        PROVE  Cardinality(AskedSince(k, e[1]))' >= MaxKeys
    <3>1. PICK t \in Nat : t = e[1]
      BY <1>2, <1>3 DEF Passes
    <3>2. Cardinality(AskedSince(k, t)) >= MaxKeys
      BY <1>2, <2>2, <3>1 DEF LimiterIInv, Remembered
    <3>3. \A j \in Keys \ {k} : asked[j] >= t => asked'[j] >= t
      BY <1>7, <3>1
    <3>4. Cardinality(AskedSince(k, t)') >= MaxKeys
      BY <3>2, <3>3, SinceGrows
    <3> QED BY <3>1, <3>4 DEF AskedSince
  <2> QED BY <1>4, <2>1, <2>2 DEF Remembered, Recent
<1>10. \A k \in Keys : DequesFit(k)' /\ Promised(k)'
  BY <1>1, <1>4 DEF LimiterIInv, DequesFit, Promised
<1>11. OrderFits'
  BY <1>1, <1>2, <1>7 DEF LimiterIInv, OrderFits
<1> QED BY <1>5, <1>6, <1>8, <1>9, <1>10, <1>11 DEF LimiterIInv

-----------------------------------------------------------------------------
(* What making room does to the other keys: one that is forgotten was      *)
(* asked for less recently than MaxKeys others.                            *)
LEMMA RoomMade ==
  ASSUME LimiterIInv, NEW k \in Keys, NEW times, Keep(k, times)
  PROVE  /\ DOMAIN requests' \subseteq Keys /\ k \in DOMAIN requests' /\ requests'[k] = times
         /\ \A j \in DOMAIN requests' \ {k} : j \in Tracked /\ requests'[j] = requests[j]
         /\ before' \subseteq Keys \X Keys
         /\ \A i, j \in Keys : <<i, j>> \in before' => i # k /\ (<<i, j>> \in before \/ j = k)
         /\ asked' = [asked EXCEPT ![k] = now] /\ UNCHANGED now
         /\ \A j \in Keys \ {k} :
              j \in Tracked /\ j \notin DOMAIN requests' =>
                \A t \in Nat : (\E e \in passed[j] : e[1] = t)
                  => Cardinality(AskedSince(j, t)') >= MaxKeys
<1>1. /\ DOMAIN requests \subseteq Keys /\ Tracked = DOMAIN requests /\ IsFiniteSet(Tracked)
      /\ Cardinality(Tracked) \in Nat /\ now \in Nat /\ asked \in [Keys -> Nat]
      /\ passed \in [Keys -> SUBSET Passes]
  BY KeysAssumption, FS_Subset, FS_CardinalityType DEF LimiterIInv, LimiterState, Tracked
<1>2. PICK stay \in Staying(k) :
        /\ requests' = [j \in stay \cup {k} |-> IF j = k THEN times ELSE requests[j]]
        /\ before' = {p \in before : {p[1], p[2]} \subseteq stay \ {k}}
                       \cup ((stay \ {k}) \X {k})
  BY DEF Keep
<1>3. asked' = [asked EXCEPT ![k] = now] /\ UNCHANGED now
  BY DEF Keep
<1>4. stay \subseteq Tracked
  BY <1>2 DEF Staying, Evicted
<1>5. DOMAIN requests' = stay \cup {k}
  BY <1>2
<1>6. /\ DOMAIN requests' \subseteq Keys /\ k \in DOMAIN requests' /\ requests'[k] = times
      /\ \A j \in DOMAIN requests' \ {k} : j \in Tracked /\ requests'[j] = requests[j]
  BY <1>1, <1>2, <1>4, <1>5
<1>7. before' \subseteq Keys \X Keys
  BY <1>1, <1>2, <1>4 DEF LimiterIInv, OrderFits
<1>8. \A i, j \in Keys : <<i, j>> \in before' => i # k /\ (<<i, j>> \in before \/ j = k)
  BY <1>2
<1>9. ASSUME NEW o \in Keys \ {k}, o \in Tracked, o \notin DOMAIN requests',
             NEW t \in Nat, NEW e \in passed[o], e[1] = t
      PROVE  Cardinality(AskedSince(o, t)') >= MaxKeys
  <2>1. k \notin Tracked /\ Cardinality(Tracked) >= MaxKeys
    BY <1>1, <1>2, <1>5, <1>9, KeysAssumption DEF Staying
  <2>2. stay = Tracked \ {o} /\ o \in Evicted
    BY <1>2, <1>5, <1>9, <2>1 DEF Staying, Evicted
  <2>3. PICK S : S = stay \cup {k}
    OBVIOUS
  <2>4. S = (Tracked \ {o}) \cup {k}
    BY <2>2, <2>3
  <2>5. IsFiniteSet(Tracked \ {o}) /\ Cardinality(Tracked \ {o}) = Cardinality(Tracked) - 1
    BY <1>1, <1>9, FS_RemoveElement
  <2>6. k \notin Tracked \ {o}
    BY <2>1
  <2>7. IsFiniteSet(S) /\ Cardinality(S) = Cardinality(Tracked)
    <3>1. PICK rest : rest = Tracked \ {o}
      OBVIOUS
    <3>2. IsFiniteSet(rest) /\ k \notin rest /\ Cardinality(rest) = Cardinality(Tracked) - 1
      BY <2>5, <2>6, <3>1
    <3>3. /\ IsFiniteSet(rest \cup {k})
          /\ Cardinality(rest \cup {k}) = Cardinality(rest) + 1
      BY <3>2, FS_AddElement
    <3>4. Cardinality(Tracked) \in Nat
      BY <1>1, FS_CardinalityType
    <3> QED BY <2>4, <3>1, <3>2, <3>3, <3>4
  <2>8. \A j \in S : j \in Keys \ {o} /\ asked'[j] >= t
    <3> TAKE j \in S
    <3>1. CASE j = k
      <4>1. asked'[k] = now /\ e[1] <= now
        BY <1>1, <1>3, <1>9 DEF LimiterIInv, PassesFit
      <4> QED BY <1>9, <3>1, <4>1
    <3>2. CASE j # k
      <4>1. j \in Tracked \ {o} /\ asked'[j] = asked[j] /\ j \in Keys
        BY <1>1, <1>3, <2>4, <3>2
      <4>2. <<o, j>> \in before
        BY <2>2, <4>1 DEF Evicted
      <4>3. asked[j] >= e[1]
        BY <1>9, <4>1, <4>2 DEF LimiterIInv, OrderFits
      <4> QED BY <1>9, <4>1, <4>3
    <3> QED BY <3>1, <3>2
  <2>9. PICK T : T = {j \in Keys \ {o} : asked'[j] >= t}
    OBVIOUS
  <2>10. T \subseteq Keys /\ S \subseteq T
    BY <2>8, <2>9
  <2>11. IsFiniteSet(T) /\ Cardinality(T) \in Nat
    BY <2>10, KeysAssumption, FS_Subset, FS_CardinalityType
  <2>12. Cardinality(S) <= Cardinality(T)
    BY <2>10, <2>11, FS_Subset
  <2>13. AskedSince(o, t)' = T
    BY <2>9 DEF AskedSince
  <2> QED BY <1>1, <2>1, <2>7, <2>11, <2>12, <2>13, KeysAssumption
<1> QED BY <1>3, <1>6, <1>7, <1>8, <1>9

(* A check keeps the invariant if it does for the key that asks.           *)
LEMMA AskKeeps ==
  ASSUME LimiterIInv, NEW k \in Keys, NEW times, times \subseteq Passes,
         IsFiniteSet(times), Cardinality(times) <= Limit, Keep(k, times),
         passed' \in [Keys -> SUBSET Passes], told' \in [Keys -> Nat],
         \A j \in Keys \ {k} : passed'[j] = passed[j] /\ told'[j] = told[j],
         PassesFit(k)', times \subseteq passed'[k],
         \A e \in passed'[k] : e \in times \/ Cardinality(AskedSince(k, e[1])) >= MaxKeys,
         told'[k] > 0 /\ times # {} => \E e \in times : told'[k] + PerSecond > e[1] + Window
  PROVE  LimiterIInv'
<1>1. /\ DOMAIN requests' \subseteq Keys /\ k \in DOMAIN requests' /\ requests'[k] = times
      /\ \A j \in DOMAIN requests' \ {k} : j \in Tracked /\ requests'[j] = requests[j]
      /\ before' \subseteq Keys \X Keys
      /\ \A i, j \in Keys : <<i, j>> \in before' => i # k /\ (<<i, j>> \in before \/ j = k)
      /\ asked' = [asked EXCEPT ![k] = now] /\ UNCHANGED now
      /\ \A j \in Keys \ {k} :
           j \in Tracked /\ j \notin DOMAIN requests' =>
             \A t \in Nat : (\E e \in passed[j] : e[1] = t)
               => Cardinality(AskedSince(j, t)') >= MaxKeys
  BY RoomMade
<1>2. now \in Nat /\ asked \in [Keys -> Nat] /\ passed \in [Keys -> SUBSET Passes]
  BY DEF LimiterIInv, LimiterState
<1>3. /\ asked' \in [Keys -> Nat] /\ asked'[k] = now
      /\ \A j \in Keys : j # k => asked'[j] = asked[j]
      /\ \A j \in Keys : asked'[j] >= asked[j] /\ asked'[j] <= now
  BY <1>1, <1>2 DEF LimiterIInv
<1>4. LimiterState'
  BY <1>1, <1>2, <1>3 DEF LimiterState, LimiterIInv, Tracked
<1>5. History(k)' = times /\ Tracked' = DOMAIN requests'
  BY <1>1 DEF History, Tracked
<1>6. \A j \in Keys \ {k} :
        \/ History(j)' = History(j)
        \/ History(j)' = {} /\ j \in Tracked /\ j \notin DOMAIN requests'
  BY <1>1, <1>5 DEF History
<1>7. ASSUME NEW j \in Keys \ {k} PROVE (PassesFit(j) /\ DequesFit(j) /\ Promised(j))'
  <2>1. PassesFit(j) /\ DequesFit(j) /\ Promised(j)
    BY DEF LimiterIInv
  <2>2. PassesFit(j)'
    BY <1>1, <2>1 DEF PassesFit
  <2>3. DequesFit(j)'
    <3>1. PICK h : h = History(j)'
      OBVIOUS
    <3>2. CASE h = {}
      <4>1. IsFiniteSet(h) /\ Cardinality(h) = 0
        BY <3>2, FS_EmptySet
      <4> QED BY <3>1, <4>1, WindowAssumption DEF DequesFit
    <3>3. CASE h = History(j)
      BY <2>1, <3>1, <3>3 DEF DequesFit
    <3> QED BY <1>6, <3>1, <3>2, <3>3
  <2>4. Promised(j)'
    BY <1>6, <2>1 DEF Promised
  <2> QED BY <2>2, <2>3, <2>4
<1>8. ASSUME NEW j \in Keys, NEW t \in Nat, Cardinality(AskedSince(j, t)) >= MaxKeys
      PROVE  Cardinality(AskedSince(j, t)') >= MaxKeys
  <2>1. \A i \in Keys \ {j} : asked[i] >= t => asked'[i] >= t
    BY <1>2, <1>3
  <2> QED BY <1>8, <2>1, SinceGrows
<1>9. ASSUME NEW j \in Keys \ {k} PROVE Remembered(j)'
  <2>1. Recent(History(j))' \subseteq passed'[j]
    BY <1>1, <1>6 DEF LimiterIInv, Remembered, Recent
  <2>2. ASSUME NEW e \in passed'[j], e \notin History(j)'
        PROVE  Cardinality(AskedSince(j, e[1]))' >= MaxKeys
    <3>1. PICK t \in Nat : t = e[1] /\ e \in passed[j]
      BY <1>2 DEF Passes
    <3>2. CASE e \in History(j)
      <4>1. j \in Tracked /\ j \notin DOMAIN requests'
        BY <1>6, <2>2, <3>2
      <4>2. Cardinality(AskedSince(j, t)') >= MaxKeys
        BY <1>1, <3>1, <4>1
      <4> QED BY <3>1, <4>2 DEF AskedSince
    <3>3. CASE e \notin History(j)
      <4>1. Cardinality(AskedSince(j, t)) >= MaxKeys
        BY <3>1, <3>3 DEF LimiterIInv, Remembered
      <4>2. Cardinality(AskedSince(j, t)') >= MaxKeys
        BY <1>8, <4>1
      <4> QED BY <3>1, <4>2 DEF AskedSince
    <3> QED BY <3>2, <3>3
  <2> QED BY <2>1, <2>2 DEF Remembered
<1>10. Remembered(k)'
  <2>1. Recent(History(k))' \subseteq passed'[k]
    BY <1>5 DEF Recent
  <2>2. ASSUME NEW e \in passed'[k], e \notin times
        PROVE  Cardinality(AskedSince(k, e[1]))' >= MaxKeys
    <3>1. PICK t \in Nat : t = e[1]
      BY DEF Passes
    <3>2. Cardinality(AskedSince(k, t)) >= MaxKeys
      BY <2>2, <3>1
    <3>3. Cardinality(AskedSince(k, t)') >= MaxKeys
      BY <1>8, <3>2
    <3> QED BY <3>1, <3>3 DEF AskedSince
  <2> QED BY <1>5, <2>1, <2>2 DEF Remembered
<1>11. DequesFit(k)' /\ Promised(k)'
  BY <1>5 DEF DequesFit, Promised
<1>12. OrderFits'
  <2>1. ASSUME NEW i \in Keys, NEW j \in Keys, <<i, j>> \in before', NEW e \in passed'[i]
        PROVE  asked'[j] >= e[1]
    <3>1. i # k /\ e \in passed[i] /\ e[1] \in Nat /\ e[1] <= now
      <4>1. i # k /\ e \in passed[i] /\ e \in Passes /\ PassesFit(i)
        BY <1>1, <1>2, <2>1 DEF LimiterIInv
      <4>2. e[1] \in Nat
        BY <4>1 DEF Passes
      <4> QED BY <4>1, <4>2 DEF PassesFit
    <3>2. CASE j = k
      BY <1>3, <3>1, <3>2
    <3>3. CASE <<i, j>> \in before
      <4>1. asked[j] >= e[1]
        BY <3>1, <3>3 DEF LimiterIInv, OrderFits
      <4> QED BY <1>2, <1>3, <3>1, <4>1
    <3> QED BY <1>1, <2>1, <3>2, <3>3
  <2> QED BY <1>1, <2>1 DEF OrderFits
<1>13. \A j \in Keys : (PassesFit(j) /\ DequesFit(j) /\ Remembered(j) /\ Promised(j))'
  BY <1>7, <1>9, <1>10, <1>11
<1> QED BY <1>1, <1>3, <1>4, <1>12, <1>13 DEF LimiterIInv


LEMMA HistoryFacts ==
  ASSUME LimiterIInv, NEW k \in Keys, NEW times, times = Recent(History(k))
  PROVE  /\ times \subseteq Passes /\ times \subseteq passed[k] /\ times \subseteq History(k)
         /\ IsFiniteSet(times) /\ Cardinality(times) \in Nat /\ Cardinality(times) <= Limit
         /\ \A e \in passed[k] : e \in times \/ Cardinality(AskedSince(k, e[1])) >= MaxKeys
<1>1. DequesFit(k) /\ Remembered(k) /\ PassesFit(k)
  BY DEF LimiterIInv
<1>2. IsFiniteSet(History(k)) /\ Cardinality(History(k)) <= Limit
  BY <1>1 DEF DequesFit
<1>3. /\ IsFiniteSet(times) /\ times \subseteq History(k) /\ Cardinality(times) \in Nat
      /\ Cardinality(times) <= Cardinality(History(k)) /\ Cardinality(History(k)) \in Nat
  BY <1>2, RecentFinite
<1>4. times \subseteq passed[k]
  BY <1>1 DEF Remembered
<1>5. times \subseteq Passes
  BY <1>4 DEF LimiterIInv, LimiterState
<1>6. \A e \in passed[k] : e \in History(k) => e \in times
  BY <1>1 DEF PassesFit, Recent
<1>7. \A e \in passed[k] : e \in times \/ Cardinality(AskedSince(k, e[1])) >= MaxKeys
  BY <1>1, <1>6 DEF Remembered
<1> QED BY <1>2, <1>3, <1>4, <1>5, <1>7, WindowAssumption

(* int() rounds down by less than a second.                                *)
LEMMA RoundedDown ==
  ASSUME NEW left \in Nat, NEW p \in Nat \ {0}, NEW q, q = left \div p
  PROVE  q \in Nat /\ q * p + p > left
<1>1. q \in Int /\ left = p * q + (left % p) /\ left % p < p /\ left % p >= 0
  OBVIOUS
<1> QED BY <1>1, SMTT(30)


LEMMA RetryAfterFacts ==
  ASSUME LimiterIInv, NEW t \in Nat, t <= now, t + Window > now
  PROVE  /\ RetryAfter(t) * PerSecond \in Nat
         /\ now + RetryAfter(t) * PerSecond + PerSecond > t + Window
<1>0. PICK p \in Nat \ {0} : p = PerSecond
  BY WindowAssumption
<1>1. now \in Nat /\ Window \in Nat
  BY WindowAssumption DEF LimiterIInv, LimiterState
<1>2. PICK left \in Nat : left = Window - (now - t)
  BY <1>1
<1>3. PICK q : q = left \div p
  OBVIOUS
<1>4. q \in Nat /\ q * p + p > left
  BY <1>3, RoundedDown
<1>5. RetryAfter(t) = IF q > 1 THEN q ELSE 1
  BY <1>0, <1>2, <1>3 DEF RetryAfter
<1>6. PICK after \in Nat : after = RetryAfter(t) /\ (after = q \/ (q \in {0, 1} /\ after = 1))
  BY <1>4, <1>5
<1>7. after * p \in Nat /\ after * p + p > left
  <2>1. CASE after = q
    BY <1>4, <2>1
  <2>2. CASE q \in {0, 1} /\ after = 1
    BY <1>4, <2>2
  <2> QED BY <1>6, <2>1, <2>2
<1> QED BY <1>0, <1>1, <1>2, <1>6, <1>7

LEMMA RefuseKeeps ==
  ASSUME LimiterIInv, NEW k \in Keys, NEW times, times = Recent(History(k)), Refuse(k, times)
  PROVE  LimiterIInv'
<1>1. /\ times \subseteq Passes /\ times \subseteq passed[k] /\ times \subseteq History(k)
      /\ IsFiniteSet(times) /\ Cardinality(times) <= Limit
      /\ \A e \in passed[k] : e \in times \/ Cardinality(AskedSince(k, e[1])) >= MaxKeys
  BY HistoryFacts
<1>2. /\ Keep(k, times) /\ UNCHANGED <<passed, now>>
  BY DEF Refuse, Keep
<1>3. PICK e \in First(times) : told' = [told EXCEPT ![k] = now + RetryAfter(e[1]) * PerSecond]
  BY DEF Refuse
<1>4. e \in times /\ e[1] \in Nat /\ e[1] <= now /\ e[1] + Window > now
  BY <1>1, <1>3 DEF First, LimiterIInv, PassesFit, Passes
<1>5. PICK n \in Nat : n = now + RetryAfter(e[1]) * PerSecond /\ n + PerSecond > e[1] + Window
  BY <1>4, RetryAfterFacts DEF LimiterIInv, LimiterState
<1>6. /\ told' \in [Keys -> Nat] /\ told'[k] = n
      /\ \A j \in Keys \ {k} : told'[j] = told[j]
  BY <1>3, <1>5 DEF LimiterIInv, LimiterState
<1>7. /\ passed' \in [Keys -> SUBSET Passes] /\ \A j \in Keys \ {k} : passed'[j] = passed[j]
      /\ PassesFit(k)'
  BY <1>2 DEF LimiterIInv, LimiterState, PassesFit
<1>8. told'[k] > 0 /\ times # {} => \E f \in times : told'[k] + PerSecond > f[1] + Window
  BY <1>4, <1>5, <1>6
<1> QED BY <1>1, <1>2, <1>6, <1>7, <1>8, AskKeeps

(* A pass is told apart from all earlier ones.                             *)
LEMMA EntryFacts ==
  ASSUME LimiterIInv, NEW k \in Keys, NEW new, new = passed[k] \cup {Entry(k)}
  PROVE  /\ Entry(k) \in Passes /\ Entry(k)[1] = now /\ Entry(k) \notin passed[k]
         /\ IsFiniteSet(new)
         /\ \A e \in new : e[1] = now => e[2] <= Cardinality({f \in new : f[1] = now})
<1>1. PICK S : S = {e \in passed[k] : e[1] = now}
  OBVIOUS
<1>2. PassesFit(k) /\ now \in Nat /\ passed[k] \subseteq Passes
  BY DEF LimiterIInv, LimiterState
<1>3. IsFiniteSet(S) /\ Cardinality(S) \in Nat
  BY <1>1, <1>2, FS_Subset, FS_CardinalityType DEF PassesFit
<1>4. PICK n \in Nat : n = Cardinality(S) + 1
  BY <1>3
<1>5. PICK x : x = <<now, n>>
  OBVIOUS
<1>6. Entry(k) = x /\ x \in Passes /\ x[1] = now /\ x[2] = n
  BY <1>1, <1>2, <1>4, <1>5 DEF Entry, Passes
<1>7. \A e \in passed[k] : e[1] = now => e[2] <= Cardinality(S) /\ e[2] \in Nat
  BY <1>1, <1>2 DEF PassesFit, Passes
<1>8. x \notin passed[k]
  BY <1>3, <1>4, <1>6, <1>7
<1>9. IsFiniteSet(new)
  BY <1>2, FS_AddElement DEF PassesFit
<1>10. PICK T : T = {f \in new : f[1] = now}
  OBVIOUS
<1>11. T = S \cup {x} /\ x \notin S
  BY <1>1, <1>6, <1>8, <1>10
<1>12. Cardinality(T) = n
  BY <1>3, <1>4, <1>11, FS_AddElement
<1>13. \A e \in new : e[1] = now => e[2] <= Cardinality(T)
  BY <1>3, <1>4, <1>6, <1>7, <1>12
<1> QED BY <1>6, <1>8, <1>9, <1>10, <1>13

LEMMA PassKeeps ==
  ASSUME LimiterIInv, NEW k \in Keys, NEW times, times = Recent(History(k)), Pass(k, times)
  PROVE  LimiterIInv'
<1>1. /\ times \subseteq Passes /\ times \subseteq passed[k] /\ times \subseteq History(k)
      /\ IsFiniteSet(times) /\ Cardinality(times) \in Nat
      /\ \A e \in passed[k] : e \in times \/ Cardinality(AskedSince(k, e[1])) >= MaxKeys
  BY HistoryFacts
<1>2. PICK x : x = Entry(k)
  OBVIOUS
<1>3. PICK new : new = passed[k] \cup {x}
  OBVIOUS
<1>4. /\ x \in Passes /\ x[1] = now /\ x \notin passed[k] /\ IsFiniteSet(new)
      /\ \A e \in new : e[1] = now => e[2] <= Cardinality({f \in new : f[1] = now})
  BY <1>2, <1>3, EntryFacts
<1>5. PICK kept : kept = times \cup {x}
  OBVIOUS
<1>6. /\ Keep(k, kept) /\ UNCHANGED now /\ Cardinality(times) < Limit
      /\ passed' = [passed EXCEPT ![k] = new] /\ told' = [told EXCEPT ![k] = 0]
  BY <1>2, <1>3, <1>5 DEF Pass, Keep
<1>7. IsFiniteSet(kept) /\ Cardinality(kept) = Cardinality(times) + 1
  BY <1>1, <1>4, <1>5, FS_AddElement
<1>8. Cardinality(kept) <= Limit
  BY <1>1, <1>6, <1>7, WindowAssumption
<1>9. passed \in [Keys -> SUBSET Passes] /\ told \in [Keys -> Nat] /\ now \in Nat /\ now > 0
  BY DEF LimiterIInv, LimiterState
<1>10. /\ passed' \in [Keys -> SUBSET Passes] /\ passed'[k] = new
       /\ told' \in [Keys -> Nat] /\ told'[k] = 0
       /\ \A j \in Keys \ {k} : passed'[j] = passed[j] /\ told'[j] = told[j]
  BY <1>3, <1>4, <1>6, <1>9
<1>11. PassesFit(k)'
  <2>1. \A e \in new : e[1] > 0 /\ e[1] <= now /\ e[1] + Window > now
    <3>1. \A e \in passed[k] : e[1] > 0 /\ e[1] <= now /\ e[1] + Window > now
      BY DEF LimiterIInv, PassesFit
    <3>2. x[1] > 0 /\ x[1] <= now /\ x[1] + Window > now
      BY <1>4, <1>9, WindowAssumption
    <3> QED BY <1>3, <3>1, <3>2
  <2> QED BY <1>4, <1>6, <1>10, <2>1 DEF PassesFit
<1>12. /\ kept \subseteq Passes /\ kept \subseteq passed'[k]
       /\ \A e \in passed'[k] : e \in kept \/ Cardinality(AskedSince(k, e[1])) >= MaxKeys
  BY <1>1, <1>3, <1>4, <1>5, <1>10
<1> QED BY <1>6, <1>7, <1>8, <1>10, <1>11, <1>12, AskKeeps

-----------------------------------------------------------------------------
LEMMA LimiterNextKeeps ==
  ASSUME LimiterIInv, [LimiterNext]_limiterVars
  PROVE  LimiterIInv'
<1>1. ASSUME NEW k \in Keys, Check(k) PROVE LimiterIInv'
  <2>1. PICK times : times = Recent(History(k))
    OBVIOUS
  <2>2. Refuse(k, times) \/ Pass(k, times)
    BY <1>1, <2>1 DEF Check
  <2> QED BY <2>1, <2>2, RefuseKeeps, PassKeeps
<1>2. ASSUME TimePasses PROVE LimiterIInv'
  BY <1>2, TimePassesKeeps
<1>3. ASSUME UNCHANGED limiterVars PROVE LimiterIInv'
  BY <1>3 DEF limiterVars, LimiterIInv, LimiterState, PassesFit, DequesFit, Remembered, Promised,
              OrderFits, AskedSince, Recent, History, Tracked
<1> QED BY <1>1, <1>2, <1>3 DEF LimiterNext

LEMMA LimiterInvariance == LimiterSpec => []LimiterIInv
<1>1. LimiterInit => LimiterIInv
  BY LimiterInitInv
<1>2. LimiterIInv /\ [LimiterNext]_limiterVars => LimiterIInv'
  BY LimiterNextKeeps
<1> QED BY <1>1, <1>2, PTL DEF LimiterSpec

LEMMA LimiterIInvSuffices ==
  ASSUME LimiterIInv PROVE LimiterExact
<1>1. /\ DOMAIN passed = Keys /\ DOMAIN asked = Keys /\ DOMAIN told = Keys /\ now \in Nat
      /\ \A k \in Keys : told[k] \in Nat
  BY DEF LimiterIInv, LimiterState
<1>2. ASSUME NEW k \in Keys, Cardinality(passed[k]) > Limit
      PROVE  Cardinality({j \in Keys \ {k} : asked[j] > 0}) >= MaxKeys
  <2>1. PassesFit(k) /\ DequesFit(k) /\ Remembered(k) /\ passed[k] \subseteq Passes
    BY DEF LimiterIInv, LimiterState
  <2>2. PICK e \in passed[k] : e \notin History(k)
    <3> SUFFICES ASSUME passed[k] \subseteq History(k) PROVE FALSE
      OBVIOUS
    <3>1. /\ Cardinality(passed[k]) <= Cardinality(History(k))
          /\ Cardinality(passed[k]) \in Nat /\ Cardinality(History(k)) \in Nat
      BY <2>1, FS_Subset, FS_CardinalityType DEF DequesFit
    <3> QED BY <1>2, <2>1, <3>1, WindowAssumption DEF DequesFit
  <2>3. Cardinality(AskedSince(k, e[1])) >= MaxKeys /\ e[1] \in Nat /\ e[1] > 0
    BY <2>1, <2>2 DEF Remembered, PassesFit, Passes
  <2>4. PICK S : S = {j \in Keys \ {k} : asked[j] > 0}
    OBVIOUS
  <2>5. S \subseteq Keys /\ AskedSince(k, e[1]) \subseteq S
    BY <2>3, <2>4 DEF AskedSince, LimiterIInv, LimiterState
  <2>6. IsFiniteSet(S) /\ Cardinality(S) \in Nat
    BY <2>5, KeysAssumption, FS_Subset, FS_CardinalityType
  <2>7. /\ Cardinality(AskedSince(k, e[1])) <= Cardinality(S)
        /\ Cardinality(AskedSince(k, e[1])) \in Nat
    BY <2>5, <2>6, FS_Subset, FS_CardinalityType
  <2> QED BY <2>3, <2>4, <2>6, <2>7, KeysAssumption
<1>3. ASSUME NEW k \in Keys
      PROVE  Cardinality(Recent(History(k))) <= Cardinality(passed[k])
  <2>1. PassesFit(k) /\ Remembered(k)
    BY DEF LimiterIInv
  <2> QED BY <2>1, FS_Subset DEF PassesFit, Remembered
<1>4. ASSUME NEW k \in Keys, told[k] > 0, now + 1 >= told[k] + PerSecond
      PROVE  Cardinality(Recent(History(k))) < Limit
  <2>1. DequesFit(k) /\ Promised(k)
    BY DEF LimiterIInv
  <2>2. PICK S : S = Recent(History(k))
    OBVIOUS
  <2>3. /\ IsFiniteSet(S) /\ S \subseteq History(k) /\ IsFiniteSet(History(k))
        /\ Cardinality(S) <= Cardinality(History(k)) /\ Cardinality(S) \in Nat
        /\ Cardinality(History(k)) \in Nat /\ Cardinality(History(k)) <= Limit
    BY <2>1, <2>2, RecentFinite DEF DequesFit
  <2>4. CASE History(k) = {}
    <3>1. Cardinality(S) = 0
      BY <2>3, <2>4, FS_EmptySet
    <3> QED BY <2>2, <3>1, WindowAssumption
  <2>5. CASE History(k) # {}
    <3>1. PICK e \in History(k) : told[k] + PerSecond > e[1] + Window
      BY <1>4, <2>1, <2>5 DEF Promised
    <3>2. e \in Passes
      BY DEF History, LimiterIInv, LimiterState
    <3>3. e[1] \in Nat
      BY <3>2 DEF Passes
    <3>4. e \notin S
      BY <1>1, <1>4, <2>2, <3>1, <3>3, WindowAssumption DEF Recent
    <3>5. S # History(k)
      BY <3>4
    <3>6. Cardinality(S) # Cardinality(History(k))
      BY <2>3, <3>5, FS_Subset
    <3> QED BY <2>2, <2>3, <3>6, WindowAssumption
  <2> QED BY <2>4, <2>5
<1> QED BY <1>1, <1>2, <1>3, <1>4 DEF LimiterExact, LimitKept, RefusedForCause, RetryAfterHonest

(* A client exceeds its limit only if it had to be forgotten for as many   *)
(* others in the window, is refused for its own requests of the window only,*)
(* and finds room when retry_after told it to (FixedWindowRateLimiter.check).*)
THEOREM LimiterIsExact == LimiterSpec => []LimiterExact
<1>1. LimiterIInv => LimiterExact
  BY LimiterIInvSuffices
<1> QED BY <1>1, LimiterInvariance, PTL

-----------------------------------------------------------------------------
(***************************************************************************)
(* WorkerLoop.  The types of its three rows, and what the main thread's    *)
(* silence means to the heartbeat row: its progress is at least as old,    *)
(* and was last made for the turn the loop is in.                          *)
(***************************************************************************)
LoopRow ==
  [at : {"down", "next", "due", "running", "hung", "resolving", "failing", "finishing", "beat",
         "sleeping"},
   op : Operations, erred : BOOLEAN, busy : BOOLEAN, silent : 0..StallAfter + 1]
FailureRow == [attempts : [Errors -> 0..MaxRecorded], wait : 0..RetryMax]
HeartbeatRow ==
  [status : {"starting", "healthy", "degraded"}, age : 0..StaleAfter + 1,
   progress : 0..StallAfter + 1, current : 0..Lanes]

LEMMA LoopRows ==
  LoopTyped <=> /\ loop \in LoopRow /\ failure \in [Operations -> FailureRow]
                /\ heartbeat \in HeartbeatRow
BY DEF LoopTyped, LoopRow, FailureRow, HeartbeatRow

LEMMA DownFacts ==
  /\ Down \in LoopRow /\ NoFailure \in FailureRow /\ Down.silent = 0
  /\ \A op \in Operations : op \in 1..Lanes
  /\ 1 \in Operations
BY LanesAssumption, SecondsAssumption DEF Down, LoopRow, NoFailure, FailureRow, Operations

LEMMA ProgressFacts ==
  ASSUME heartbeat \in HeartbeatRow, NEW c \in 0..Lanes
  PROVE  Progress(c) \in HeartbeatRow
<1>1. 0 \in 0..StaleAfter + 1 /\ 0 \in 0..StallAfter + 1
  BY SecondsAssumption
<1>2. PICK p : p = [heartbeat EXCEPT !.age = 0]
  OBVIOUS
<1>3. PICK q : q = [p EXCEPT !.progress = 0]
  OBVIOUS
<1>4. PICK r : r = [q EXCEPT !.current = c]
  OBVIOUS
<1>5. p \in HeartbeatRow
  BY <1>1, <1>2 DEF HeartbeatRow
<1>6. q \in HeartbeatRow
  BY <1>1, <1>3, <1>5 DEF HeartbeatRow
<1>7. r \in HeartbeatRow
  BY <1>4, <1>6 DEF HeartbeatRow
<1>8. Progress(c) = r
  BY <1>2, <1>3, <1>4 DEF Progress
<1> QED BY <1>7, <1>8

(* Powers are natural numbers: they count subsets.                         *)
LEMMA PowersCount ==
  ASSUME NEW n \in Nat
  PROVE  2 ^ n \in Nat
<1>1. IsFiniteSet(1..n) /\ Cardinality(1..n) = n
  BY FS_Interval
<1>2. IsFiniteSet(SUBSET (1..n)) /\ Cardinality(SUBSET (1..n)) = 2 ^ n
  BY <1>1, FS_SUBSET
<1> QED BY <1>2, FS_CardinalityType

(* No backoff outlasts worker_retry_max_seconds.                           *)
LEMMA DelaysAreCapped ==
  ASSUME NEW n \in 1..MaxRecorded
  PROVE  RetryDelay(n) \in 0..RetryMax
<1>1. n - 1 \in Nat
  BY LanesAssumption
<1>2. PICK p \in Nat : p = 2 ^ (n - 1)
  BY <1>1, PowersCount
<1>3. PICK s \in Nat : s = RetryBase * p
  BY SecondsAssumption
<1> QED BY <1>2, <1>3, SecondsAssumption DEF RetryDelay

-----------------------------------------------------------------------------
LEMMA LoopInitTyped == LoopInit => LoopTyped
<1> SUFFICES ASSUME LoopInit PROVE LoopTyped
  OBVIOUS
<1>1. loop \in LoopRow /\ failure \in [Operations -> FailureRow]
  BY DownFacts DEF LoopInit
<1>2. heartbeat \in HeartbeatRow
  BY LanesAssumption, SecondsAssumption DEF LoopInit, HeartbeatRow
<1> QED BY <1>1, <1>2, LoopRows

LEMMA RecordFailureTyped ==
  ASSUME LoopTyped, NEW x \in Errors, RecordFailure(x)
  PROVE  failure' \in [Operations -> FailureRow]
<1>1. loop \in LoopRow /\ failure \in [Operations -> FailureRow]
  BY LoopRows
<1>2. PICK o \in Operations : o = loop.op
  BY <1>1 DEF LoopRow
<1>3. PICK n \in 0..MaxRecorded : n = failure[o].attempts[x]
  BY <1>1 DEF FailureRow
<1>4. PICK m : m = IF n = MaxRecorded THEN n ELSE n + 1
  OBVIOUS
<1>5. m \in 1..MaxRecorded
  BY <1>3, <1>4, LanesAssumption
<1>6. PICK a : a = [failure[o].attempts EXCEPT ![x] = m]
  OBVIOUS
<1>7. a \in [Errors -> 0..MaxRecorded]
  BY <1>1, <1>5, <1>6 DEF FailureRow
<1>8. PICK d \in 0..RetryMax : d = RetryDelay(m)
  BY <1>5, DelaysAreCapped
<1>9. PICK f : f = [attempts |-> a, wait |-> d]
  OBVIOUS
<1>10. f \in FailureRow
  BY <1>7, <1>8, <1>9 DEF FailureRow
<1>11. failure' = [failure EXCEPT ![o] = f]
  BY <1>2, <1>3, <1>4, <1>6, <1>8, <1>9 DEF RecordFailure
<1> QED BY <1>1, <1>10, <1>11

LEMMA ResolveTyped ==
  ASSUME LoopTyped, Resolve
  PROVE  failure' \in [Operations -> FailureRow]
BY LoopRows, DownFacts DEF Resolve

LEMMA TickTyped ==
  ASSUME LoopTyped, Tick
  PROVE  /\ failure' \in [Operations -> FailureRow] /\ heartbeat' \in HeartbeatRow
         /\ loop' \in LoopRow
         /\ loop'.at = loop.at /\ loop'.op = loop.op /\ heartbeat'.current = heartbeat.current
         /\ loop'.silent = IF loop.at \in {"hung", "down"} THEN Aged(loop.silent, StallAfter)
                          ELSE loop.silent
         /\ heartbeat'.progress = Aged(heartbeat.progress, StallAfter)
<1>1. ASSUME NEW op \in Operations
      PROVE  failure'[op] \in FailureRow
  <2>1. failure[op] \in FailureRow
    BY LoopRows
  <2>2. PICK v : v = IF failure[op].wait = 0 THEN 0 ELSE failure[op].wait - 1
    OBVIOUS
  <2>3. v \in 0..RetryMax
    BY <2>1, <2>2, SecondsAssumption DEF FailureRow
  <2>4. failure'[op] = [failure[op] EXCEPT !.wait = v]
    BY <2>2 DEF Tick
  <2> QED BY <2>1, <2>3, <2>4 DEF FailureRow
<1>2. DOMAIN failure' = Operations /\ failure' = [op \in Operations |-> failure'[op]]
  BY DEF Tick
<1>3. failure' \in [Operations -> FailureRow]
  BY <1>1, <1>2
<1>4. /\ heartbeat' \in HeartbeatRow /\ heartbeat'.current = heartbeat.current
      /\ heartbeat'.progress = Aged(heartbeat.progress, StallAfter)
  <2>1. heartbeat \in HeartbeatRow
    BY LoopRows
  <2>2. PICK a : a = Aged(heartbeat.age, StaleAfter)
    OBVIOUS
  <2>3. PICK p : p = Aged(heartbeat.progress, StallAfter)
    OBVIOUS
  <2>4. a \in 0..StaleAfter + 1 /\ p \in 0..StallAfter + 1
    BY <2>1, <2>2, <2>3, SecondsAssumption DEF Aged, HeartbeatRow
  <2>5. heartbeat' = [[heartbeat EXCEPT !.age = a] EXCEPT !.progress = p]
    BY <2>2, <2>3 DEF Tick
  <2> QED BY <2>1, <2>3, <2>4, <2>5 DEF HeartbeatRow
<1>5. /\ loop' \in LoopRow /\ loop'.at = loop.at /\ loop'.op = loop.op
      /\ loop'.silent = IF loop.at \in {"hung", "down"} THEN Aged(loop.silent, StallAfter)
                       ELSE loop.silent
  <2>1. loop \in LoopRow
    BY LoopRows
  <2>2. PICK s : s = IF loop.at \in {"hung", "down"} THEN Aged(loop.silent, StallAfter)
                     ELSE loop.silent
    OBVIOUS
  <2>3. s \in 0..StallAfter + 1
    BY <2>1, <2>2, SecondsAssumption DEF Aged, LoopRow
  <2>4. loop' = [loop EXCEPT !.silent = s]
    BY <2>2 DEF Tick
  <2> QED BY <2>1, <2>2, <2>3, <2>4 DEF LoopRow
<1> QED BY <1>3, <1>4, <1>5

LEMMA QuietTyped ==
  ASSUME LoopTyped, UNCHANGED failure
  PROVE  failure' \in [Operations -> FailureRow]
BY LoopRows

(* The loop and the heartbeat row keep their types.                        *)
LEMMA LoopStepTyped ==
  ASSUME LoopTyped, Steps \/ Touch \/ Hang \/ ProcessDies \/ HeartbeatThread
  PROVE  loop' \in LoopRow /\ heartbeat' \in HeartbeatRow
<1>1. loop \in LoopRow /\ heartbeat \in HeartbeatRow
  BY LoopRows
<1>2. \A c \in 0..Lanes : Progress(c) \in HeartbeatRow
  BY <1>1, ProgressFacts
<1>3. loop.op \in 0..Lanes /\ loop.op \in Operations /\ heartbeat.current \in 0..Lanes /\ 0 \in 0..Lanes
  BY <1>1, LanesAssumption DEF LoopRow, HeartbeatRow, Operations
<1>4. NextOp \in Operations /\ Advanced \in {"beat", "next"}
  BY <1>1, LanesAssumption DEF LoopRow, Operations, NextOp, Advanced
<1>5. CASE Register
  <2>1. PICK p : p = Progress(0)
    OBVIOUS
  <2>2. heartbeat' = [p EXCEPT !.status = "starting"]
    BY <1>5, <2>1 DEF Register
  <2>3. loop' \in LoopRow
    BY <1>5, DownFacts DEF Register, LoopRow
  <2> QED BY <1>2, <1>3, <2>1, <2>2, <2>3 DEF HeartbeatRow
<1>6. CASE MarkStarted \/ Touch
  BY <1>1, <1>2, <1>3, <1>6 DEF MarkStarted, Touch, To, LoopRow
<1>7. CASE CheckDue \/ Hang \/ Resolve \/ RecordFailureFails \/ Wake
  BY <1>1, <1>7 DEF CheckDue, Hang, Resolve, RecordFailureFails, Wake, To, LoopRow
<1>8. CASE Return
  <2>1. PICK result \in BOOLEAN :
          loop' = [loop EXCEPT !.at = "resolving", !.busy = @ \/ result]
    BY <1>8 DEF Return
  <2>2. PICK b \in BOOLEAN : b = (loop.busy \/ result)
    OBVIOUS
  <2>3. loop' = [[loop EXCEPT !.at = "resolving"] EXCEPT !.busy = b]
    BY <2>1, <2>2
  <2> QED BY <1>1, <1>8, <2>3 DEF Return, LoopRow
<1>9. CASE Raise
  BY <1>1, <1>9 DEF Raise, LoopRow
<1>10. CASE \E x \in Errors : RecordFailure(x)
  <2>1. PICK x \in Errors : RecordFailure(x)
    BY <1>10
  <2>2. PICK h : h = [heartbeat EXCEPT !.status = "degraded"]
    OBVIOUS
  <2>3. heartbeat' = [h EXCEPT !.age = 0] /\ loop' = [loop EXCEPT !.at = "finishing"]
    BY <2>1, <2>2 DEF RecordFailure, To
  <2>4. 0 \in 0..StaleAfter + 1
    BY SecondsAssumption
  <2>5. h \in HeartbeatRow
    BY <1>1, <2>2 DEF HeartbeatRow
  <2>6. heartbeat' \in HeartbeatRow
    BY <2>3, <2>4, <2>5 DEF HeartbeatRow
  <2>7. loop' \in LoopRow
    BY <1>1, <2>3 DEF LoopRow
  <2> QED BY <2>6, <2>7
<1>11. CASE MarkFinished
  <2>1. PICK c \in 0..Lanes :
          c = IF heartbeat.current = loop.op THEN 0 ELSE heartbeat.current
    BY <1>3
  <2>2. heartbeat' \in {heartbeat, Progress(c)}
    BY <1>11, <2>1 DEF MarkFinished
  <2>3. loop' = [[loop EXCEPT !.at = Advanced] EXCEPT !.op = NextOp]
    BY <1>11 DEF MarkFinished
  <2> QED BY <1>1, <1>2, <1>4, <2>2, <2>3 DEF LoopRow
<1>12. CASE Beat
  <2>1. PICK p : p = Progress(0)
    OBVIOUS
  <2>2. PICK s \in {"degraded", "healthy"} : s = IF loop.erred THEN "degraded" ELSE "healthy"
    OBVIOUS
  <2>3. heartbeat' = heartbeat \/ heartbeat' = [p EXCEPT !.status = s]
    BY <1>12, <2>1, <2>2 DEF Beat
  <2>4. PICK a \in {"next", "sleeping"} : a = IF loop.busy THEN "next" ELSE "sleeping"
    OBVIOUS
  <2>5. loop' = [Down EXCEPT !.at = a]
    BY <1>12, <2>4 DEF Beat
  <2>6. loop' \in LoopRow
    BY <2>5, DownFacts DEF LoopRow
  <2> QED BY <1>1, <1>2, <1>3, <2>1, <2>3, <2>6 DEF HeartbeatRow
<1>13. CASE ProcessDies
  <2>1. loop' = [Down EXCEPT !.silent = loop.silent] /\ UNCHANGED heartbeat
    BY <1>13 DEF ProcessDies
  <2> QED BY <1>1, <2>1, DownFacts DEF LoopRow
<1>14. CASE HeartbeatThread
  BY <1>1, <1>14, SecondsAssumption DEF HeartbeatThread, HeartbeatRow
<1> QED
  BY <1>5, <1>6, <1>7, <1>8, <1>9, <1>10, <1>11, <1>12, <1>13, <1>14 DEF Steps

LEMMA LoopNextTyped ==
  ASSUME LoopTyped, [LoopNext]_loopVars
  PROVE  LoopTyped'
<1>1. LoopTyped' <=> /\ loop' \in LoopRow /\ failure' \in [Operations -> FailureRow]
                     /\ heartbeat' \in HeartbeatRow
  BY DEF LoopTyped, LoopRow, FailureRow, HeartbeatRow, Operations
<1>2. CASE UNCHANGED loopVars
  BY <1>1, <1>2, QuietTyped, LoopRows DEF loopVars
<1>3. CASE Tick
  BY <1>1, <1>3, TickTyped
<1>4. CASE Resolve
  BY <1>1, <1>4, ResolveTyped, LoopStepTyped DEF Steps
<1>5. ASSUME NEW x \in Errors, RecordFailure(x) PROVE LoopTyped'
  BY <1>1, <1>5, RecordFailureTyped, LoopStepTyped DEF Steps
<1>6. CASE /\ Steps \/ Touch \/ Hang \/ ProcessDies \/ HeartbeatThread
           /\ UNCHANGED failure
  BY <1>1, <1>6, QuietTyped, LoopStepTyped
<1>7. ASSUME LoopNext, ~Tick, ~Resolve, \A x \in Errors : ~RecordFailure(x)
      PROVE  UNCHANGED failure
  BY <1>7 DEF LoopNext, Steps, Register, MarkStarted, CheckDue, Return, Raise,
     RecordFailureFails, MarkFinished, Beat, Wake, Touch, Hang, ProcessDies, HeartbeatThread
<1> QED BY <1>2, <1>3, <1>4, <1>5, <1>6, <1>7 DEF LoopNext

-----------------------------------------------------------------------------
(* What the silence of the main thread means to the heartbeat row: its     *)
(* progress is at least as old, and was last made for the turn the loop is *)
(* in.                                                                     *)
Silent == loop.at \in {"hung", "down"}

SilenceCounted ==
  /\ IF Silent THEN heartbeat.progress >= loop.silent ELSE loop.silent = 0
  /\ loop.at \in {"due", "running", "hung"} => heartbeat.current = loop.op

LEMMA ProgressKept ==
  ASSUME LoopTyped, NEW c \in 0..Lanes
  PROVE  Progress(c).current = c
BY LoopRows DEF Progress, HeartbeatRow

LEMMA SilenceStep ==
  ASSUME LoopTyped, SilenceCounted, [LoopNext]_loopVars
  PROVE  SilenceCounted'
<1>1. /\ loop \in LoopRow /\ heartbeat \in HeartbeatRow
      /\ loop.op \in 0..Lanes /\ loop.silent \in Nat /\ heartbeat.progress \in Nat
  BY LoopRows, LanesAssumption, SecondsAssumption DEF LoopRow, HeartbeatRow, Operations
<1>2. \A c \in 0..Lanes : Progress(c).current = c
  BY ProgressKept
<1>3. Down.silent = 0 /\ Down \in LoopRow /\ Down.at = "down"
  BY DownFacts DEF Down
<1>4. CASE UNCHANGED loopVars
  BY <1>4 DEF loopVars, SilenceCounted, Silent
<1>5. CASE Tick
  BY <1>1, <1>5, TickTyped, SecondsAssumption DEF SilenceCounted, Silent, Aged
(* A turn begins, and with it the row names its operation.                 *)
<1>6. CASE MarkStarted \/ Touch
  <2>1. heartbeat' = Progress(loop.op) /\ loop'.silent = loop.silent /\ loop'.op = loop.op
    BY <1>1, <1>6 DEF MarkStarted, Touch, To, LoopRow
  <2>2. ~Silent /\ loop'.at \in {"due", "running"}
    BY <1>1, <1>6 DEF MarkStarted, Touch, To, Silent, LoopRow
  <2> QED BY <1>1, <1>2, <2>1, <2>2 DEF SilenceCounted, Silent
(* It goes on, and perhaps hangs: the row stays as it was marked.          *)
<1>7. CASE CheckDue \/ Hang
  <2>1. /\ UNCHANGED heartbeat /\ ~Silent /\ loop'.silent = loop.silent /\ loop'.op = loop.op
        /\ loop.at \in {"due", "running"}
    BY <1>1, <1>7 DEF CheckDue, Hang, To, Silent, LoopRow
  <2> QED BY <1>1, <2>1 DEF SilenceCounted, Silent
(* It ends: the loop is at none of the places the row is asked about.      *)
<1>8. CASE \/ Return \/ Raise \/ Resolve \/ RecordFailureFails \/ Wake \/ MarkFinished
           \/ \E x \in Errors : RecordFailure(x)
  <2>1. ~Silent /\ loop'.silent = loop.silent
    BY <1>1, <1>8 DEF Return, Raise, Resolve, RecordFailureFails, Wake, MarkFinished,
       RecordFailure, To, Silent, LoopRow
  <2>2. loop'.at \in {"resolving", "failing", "finishing", "next", "beat"}
    BY <1>1, <1>8 DEF Return, Raise, Resolve, RecordFailureFails, Wake, MarkFinished,
       RecordFailure, To, Advanced, LoopRow
  <2> QED BY <2>1, <2>2 DEF SilenceCounted, Silent
<1>9. CASE Register \/ Beat
  <2>1. loop'.silent = 0 /\ loop'.at \in {"next", "sleeping"}
    BY <1>3, <1>9 DEF Register, Beat, LoopRow
  <2> QED BY <2>1 DEF SilenceCounted, Silent
(* What a hanging process has been silent for, its end goes on with.       *)
<1>10. CASE ProcessDies
  <2>1. UNCHANGED heartbeat /\ loop'.silent = loop.silent /\ loop'.at = "down"
    BY <1>1, <1>3, <1>10 DEF ProcessDies, LoopRow
  <2> QED BY <1>1, <2>1 DEF SilenceCounted, Silent
<1>11. CASE HeartbeatThread
  <2>1. heartbeat'.progress = heartbeat.progress /\ heartbeat'.current = heartbeat.current
    BY <1>1, <1>11 DEF HeartbeatThread, HeartbeatRow
  <2> QED BY <1>11, <2>1 DEF HeartbeatThread, SilenceCounted, Silent
<1> QED
  BY <1>4, <1>5, <1>6, <1>7, <1>8, <1>9, <1>10, <1>11 DEF LoopNext, Steps

LEMMA LoopInvariance == LoopSpec => [](LoopTyped /\ SilenceCounted)
<1>1. LoopInit => LoopTyped /\ SilenceCounted
  BY LoopInitTyped DEF LoopInit, Down, SilenceCounted, Silent
<1>2. LoopTyped /\ SilenceCounted /\ [LoopNext]_loopVars => LoopTyped' /\ SilenceCounted'
  BY LoopNextTyped, SilenceStep
<1> QED BY <1>1, <1>2, PTL DEF LoopSpec

(* A process that has hung in an operation, or been gone, for longer than  *)
(* worker_operation_stall_seconds is not shown as starting, healthy or     *)
(* degraded, and the row names the operation, for any lengths of the       *)
(* periods: worker_readiness_from_heartbeat asks for the main loop's       *)
(* progress, which touch_worker_heartbeat leaves alone.                    *)
THEOREM SilenceIsShown == LoopSpec => []SilenceShows
<1>1. LoopTyped /\ SilenceCounted => SilenceShows
  <2> SUFFICES ASSUME LoopTyped, SilenceCounted PROVE SilenceShows
    OBVIOUS
  <2>1. heartbeat \in HeartbeatRow /\ loop \in LoopRow
    BY LoopRows
  <2>2. loop.silent > StallAfter => heartbeat.progress > StallAfter
    BY <2>1, SecondsAssumption DEF SilenceCounted, LoopRow, HeartbeatRow
  <2>3. loop.at = "hung" => heartbeat.current = loop.op
    BY DEF SilenceCounted
  <2> QED BY <2>2, <2>3 DEF SilenceShows, Readiness
<1> QED BY <1>1, LoopInvariance, PTL
=============================================================================
