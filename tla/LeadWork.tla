------------------------------ MODULE LeadWork ------------------------------
(***************************************************************************)
(* One seller's lead: the operations of the staff that add work to it or   *)
(* move it, the ones that close it out and take it up again, the seller's  *)
(* own texts, emails and calls, which reopen a closed lead by themselves,  *)
(* and the AI brief that a worker writes about it.  Every operation holds  *)
(* the lead's row lock to its commit, so it is one action; only a          *)
(* close-out is split, because its time of closing lies before its commit. *)
(* Starting and claiming a brief take no such lock.  The inbox             *)
(* conversation is left out.                                               *)
(***************************************************************************)
EXTENDS Naturals, FiniteSets

CONSTANTS
  Contacts,    \* texts, emails and calls of the seller, STOP and START apart
  Calls,       \* those of them that are calls nobody answers
  Workers,     \* workers of the AI operation
  Controls,    \* the operations of the staff in use
  MaxCrashes

Terminal == {"dead", "disqualified"}              \* TERMINAL_CLOSE_OUT_STAGES
Inactive == Terminal \cup {"closed"}              \* INACTIVE_LEAD_STAGES
(* "new" stands for every stage before "qualified", "later" for those after*)
(* the appointment.                                                        *)
Pipeline == {"new", "qualified", "appointment_scheduled", "later", "reopened"}

VARIABLES
  lead,         \* stage_key, archived_at, qualification_context.not_a_lead
  primary,      \* the open task with work_kind primary_next_action, if any
  others,       \* its other open tasks
  plan,         \* active follow-up enrollment, pending approval
  appointment,
  deal,         \* an active transaction, a funded one
  closing,      \* the close-out that holds the lock
  contact,      \* each contact, and on which side of closed_out_at it lies
  brief,        \* AiOrchestratorEvent of the lead
  worker,       \* what each worker is doing
  crashes

work == <<primary, others, plan, appointment, deal>>
ai == <<brief, worker, crashes>>
vars == <<lead, work, closing, contact, ai>>

NotClosing == [on |-> FALSE, stage |-> "dead", mark |-> "none"]

Init ==
  /\ lead = [stage |-> "new", archived |-> FALSE, marked |-> FALSE, spam |-> FALSE,
             before |-> "new"]
  /\ primary = "none" /\ others = {}
  /\ plan = [enrolled |-> FALSE, approval |-> FALSE]
  /\ appointment = "none"
  /\ deal = [active |-> FALSE, funded |-> FALSE]
  /\ closing = NotClosing
  /\ contact = [c \in Contacts |-> [at |-> "none", after |-> FALSE]]
  /\ brief = [status |-> "none", stale |-> FALSE]
  /\ worker = [w \in Workers |-> "idle"]
  /\ crashes = 0

-----------------------------------------------------------------------------
ClosedOut == lead.archived /\ lead.stage \in Terminal

(* require_lead_open_for_work *)
OpenForWork == ~lead.archived /\ lead.stage \notin Inactive

(* An operation the staff use gets the lead's lock. *)
Locks(operation) == operation \in Controls /\ ~closing.on

-----------------------------------------------------------------------------
(* Closing out and taking up again. *)

(* The close-out has the lock, has looked at the deal and takes the time;  *)
(* closing again with the same reason keeps the old time.                  *)
BeginClose(stage, mark) ==
  /\ ~deal.active /\ ~deal.funded
  /\ ClosedOut => lead.stage = stage
  /\ closing' = [on |-> TRUE, stage |-> stage, mark |-> mark]
  /\ \/ contact' = [c \in Contacts |-> [contact[c] EXCEPT !.after = FALSE]]
     \/ ClosedOut /\ UNCHANGED contact
  /\ UNCHANGED <<lead, work, ai>>

(* close_out_lead *)
CloseOut(stage) == Locks("close") /\ BeginClose(stage, "none")

(* mark_lead_not_a_lead *)
MarkNotALead(mark) ==
  /\ Locks("mark") /\ ~lead.archived /\ lead.stage \notin Terminal
  /\ BeginClose("disqualified", mark)

(* The rest of apply_lead_close_out_transition and of its caller.          *)
CommitClose ==
  /\ closing.on /\ closing' = NotClosing
  /\ lead' =
       [stage |-> closing.stage, archived |-> TRUE,
        marked |-> lead.marked \/ closing.mark # "none",
        spam |-> IF closing.mark = "none" THEN lead.spam ELSE closing.mark = "spam",
        before |-> IF closing.mark = "none" THEN lead.before ELSE lead.stage]
  /\ primary' = "none" /\ others' = {}
  /\ plan' = [enrolled |-> FALSE, approval |-> FALSE]
  /\ appointment' = IF appointment = "active" THEN "over" ELSE appointment
  /\ brief' = IF brief.status \in {"queued", "processing", "needs_review"}
              THEN [status |-> "dismissed", stale |-> FALSE] ELSE brief
  /\ UNCHANGED <<deal, contact, worker, crashes>>

(* undo_not_a_lead: whatever close-out the lead is under now.              *)
UndoNotALead ==
  /\ Locks("mark") /\ lead.marked /\ lead.archived /\ lead.stage = "disqualified"
  /\ lead' = [lead EXCEPT
       !.stage = IF lead.before \in Inactive THEN "new" ELSE lead.before,
       !.archived = FALSE, !.marked = FALSE, !.spam = FALSE]
  /\ UNCHANGED <<work, closing, contact, ai>>

(* The mark not_a_lead stays. *)
Reopened == [lead EXCEPT !.stage = "reopened", !.archived = FALSE]

(* reopen_lead *)
Reopen ==
  /\ Locks("reopen") /\ ClosedOut
  /\ lead' = Reopened /\ primary' = "next" /\ others' = {}
  /\ UNCHANGED <<plan, appointment, deal, closing, contact, ai>>

(* archive_lead and restore_lead, for records that are no seller work.     *)
Archive ==
  /\ Locks("archive") /\ lead.stage \notin Terminal
  /\ lead' = [lead EXCEPT !.archived = ~@]
  /\ UNCHANGED <<work, closing, contact, ai>>

-----------------------------------------------------------------------------
(* Work of the staff. *)

(* update_lead_stage; the stage of a funded lead is no obstacle.           *)
SetStage(stage) ==
  /\ Locks("stage") /\ ~lead.archived /\ lead.stage \notin Terminal
  /\ lead' = [lead EXCEPT !.stage = stage]
  /\ UNCHANGED <<work, closing, contact, ai>>

(* create_lead_follow_up_task *)
FollowUp ==
  /\ Locks("task") /\ OpenForWork
  /\ primary' = "next"
  /\ UNCHANGED <<lead, others, plan, appointment, deal, closing, contact, ai>>

(* complete_task, the primary task with or without a successor.            *)
CompleteTask ==
  /\ Locks("task") /\ OpenForWork
  /\ \/ primary # "none" /\ primary' \in {"none", "next"} /\ UNCHANGED others
     \/ \E t \in others : others' = others \ {t} /\ UNCHANGED primary
  /\ UNCHANGED <<lead, plan, appointment, deal, closing, contact, ai>>

(* create_lead_appointment *)
Schedule ==
  /\ Locks("meet") /\ OpenForWork
  /\ appointment' = "active"
  /\ lead' = [lead EXCEPT
       !.stage = IF @ \in {"new", "qualified"} THEN "appointment_scheduled" ELSE @]
  /\ UNCHANGED <<primary, others, plan, deal, closing, contact, ai>>

(* update_appointment: put off, held, cancelled or not kept.               *)
UpdateAppointment ==
  /\ Locks("meet") /\ OpenForWork /\ appointment # "none"
  /\ \/ /\ appointment' = "active" /\ UNCHANGED primary
        /\ lead' = [lead EXCEPT !.stage = "appointment_scheduled"]
     \/ /\ appointment' = "over" /\ UNCHANGED primary
        /\ lead' = [lead EXCEPT !.stage = "later"]                       \* house
     \/ /\ appointment' = "over" /\ primary' = "next"       \* land, or no meeting
        /\ \E s \in {"new", "qualified"} : lead' = [lead EXCEPT !.stage = s]
  /\ UNCHANGED <<others, plan, deal, closing, contact, ai>>

(* enroll_follow_up_plan: a plan of a task and a text to be approved.      *)
Enroll ==
  /\ Locks("plan") /\ OpenForWork /\ ~plan.enrolled
  /\ plan' = [enrolled |-> TRUE, approval |-> TRUE]
  /\ others' = others \cup {"step"}
  /\ UNCHANGED <<lead, primary, appointment, deal, closing, contact, ai>>

(* decide_approval_request *)
Decide ==
  /\ Locks("plan") /\ OpenForWork /\ plan.approval
  /\ plan' = [plan EXCEPT !.approval = FALSE]
  /\ UNCHANGED <<lead, primary, others, appointment, deal, closing, contact, ai>>

(* handoff_conversation, as far as it moves the lead.                      *)
HandOff(stage) ==
  /\ Locks("stage") /\ OpenForWork
  /\ stage = "qualified" => lead.stage = "new"
  /\ stage = "appointment_scheduled" => lead.stage \in {"new", "qualified"}
  /\ lead' = [lead EXCEPT !.stage = stage]
  /\ UNCHANGED <<work, closing, contact, ai>>

-----------------------------------------------------------------------------
(* The deal. *)

(* create_lead_transaction with create_deal_next_action.                   *)
OpenDeal ==
  /\ Locks("deal") /\ OpenForWork /\ ~deal.active
  /\ deal' = [deal EXCEPT !.active = TRUE] /\ primary' = "next"
  /\ UNCHANGED <<lead, others, plan, appointment, closing, contact, ai>>

(* close_transaction: funded, *)
Fund ==
  /\ Locks("deal") /\ deal.active /\ OpenForWork
  /\ deal' = [active |-> FALSE, funded |-> TRUE]
  /\ lead' = [lead EXCEPT !.stage = "closed"]
  /\ UNCHANGED <<primary, others, plan, appointment, closing, contact, ai>>

(* or cancelled. *)
CancelDeal ==
  /\ Locks("deal") /\ deal.active
  /\ deal' = [deal EXCEPT !.active = FALSE]
  /\ lead' = [lead EXCEPT !.stage = IF OpenForWork THEN "later" ELSE @]
  /\ UNCHANGED <<primary, others, plan, appointment, closing, contact, ai>>

-----------------------------------------------------------------------------
(* The seller. *)

(* The contact's own time, occurred_at or started_at, is taken.            *)
Arrive(c) ==
  /\ contact[c].at = "none"
  /\ contact' = [contact EXCEPT ![c] = [at |-> "arrived", after |-> TRUE]]
  /\ UNCHANGED <<lead, work, closing, ai>>

(* Faulty: every mark keeps the seller out. *)
ReactivatesUnmarked(c) == ClosedOut /\ contact[c].after /\ ~lead.marked

(* reactivate_closed_lead_for_inbound reopens the lead for this contact.   *)
Reactivates(c) == ClosedOut /\ contact[c].after /\ ~(lead.marked /\ lead.spam)

(* update_conversation_activity for a contact. *)
Handle(c) ==
  /\ contact[c].at = "arrived" /\ ~closing.on
  /\ contact' = [contact EXCEPT ![c].at = "handled"]
  /\ IF Reactivates(c)
     THEN lead' = Reopened /\ primary' = "respond"
     ELSE UNCHANGED <<lead, primary>>
  /\ UNCHANGED <<others, plan, appointment, deal, closing, ai>>

(* ensure_missed_call_task, when the call has ended unanswered.            *)
MissCall(c) ==
  /\ c \in Calls /\ contact[c].at = "handled" /\ ~closing.on
  /\ contact' = [contact EXCEPT ![c].at = "missed"]
  /\ IF Reactivates(c)
     THEN lead' = Reopened /\ primary' = "respond" /\ UNCHANGED others
     ELSE /\ others' = IF OpenForWork /\ primary # "respond"
                       THEN others \cup {"missed_call"} ELSE others
          /\ UNCHANGED <<lead, primary>>
  /\ UNCHANGED <<plan, appointment, deal, closing, ai>>

-----------------------------------------------------------------------------
(* The AI brief. *)

staff == <<lead, work, closing, contact>>

(* enqueue_lead_created_ai_work, enqueue_property_research_ai_work         *)
Enqueue ==
  /\ brief.status = "none"
  /\ brief' = [status |-> "queued", stale |-> FALSE]
  /\ UNCHANGED <<worker, crashes>> /\ UNCHANGED staff

(* process_next_ai_operation claims the brief, also from a worker that has *)
(* had it for fifteen minutes;                                             *)
Claim(w) ==
  /\ worker[w] = "idle"
  /\ \/ brief.status = "queued"
     \/ brief.status = "processing" /\ brief.stale
  /\ brief' = [status |-> "processing", stale |-> FALSE]
  /\ worker' = [worker EXCEPT ![w] = "running"]
  /\ UNCHANGED crashes /\ UNCHANGED staff

BriefAges ==
  /\ brief.status = "processing" /\ ~brief.stale
  /\ brief' = [brief EXCEPT !.stale = TRUE]
  /\ UNCHANGED <<worker, crashes>> /\ UNCHANGED staff

(* Faulty: a result is kept although the lead was closed meanwhile. *)
FinishUnchecked(w) ==
  /\ worker[w] = "running" /\ ~closing.on
  /\ \E s \in {"needs_review", "blocked", "failed", "completed"} :
       brief' = [status |-> s, stale |-> FALSE]
  /\ worker' = [worker EXCEPT ![w] = "idle"]
  /\ UNCHANGED crashes /\ UNCHANGED staff

(* it ends with a result or an error, whoever has finished meanwhile.      *)
Finish(w) ==
  /\ worker[w] = "running" /\ ~closing.on
  /\ \E s \in {"needs_review", "blocked", "failed", "completed"} :
       brief' = [status |-> IF \/ brief.status = "dismissed"
                               \/ lead.archived \/ lead.stage \in Terminal
                            THEN "dismissed" ELSE s,
                 stale |-> FALSE]
  /\ worker' = [worker EXCEPT ![w] = "idle"]
  /\ UNCHANGED crashes /\ UNCHANGED staff

Crash(w) ==
  /\ worker[w] = "running" /\ crashes < MaxCrashes
  /\ worker' = [worker EXCEPT ![w] = "idle"] /\ crashes' = crashes + 1
  /\ UNCHANGED brief /\ UNCHANGED staff

(* review_ai_operation *)
Review ==
  /\ Locks("review") /\ brief.status = "needs_review"
  /\ ~lead.archived /\ lead.stage \notin Terminal
  /\ brief' = [brief EXCEPT !.status = "completed"]
  /\ UNCHANGED <<worker, crashes>> /\ UNCHANGED staff

-----------------------------------------------------------------------------
Lifecycle ==
  \/ \E s \in Terminal : CloseOut(s)
  \/ \E m \in {"other", "spam"} : MarkNotALead(m)
  \/ CommitClose \/ UndoNotALead \/ Reopen \/ Archive
  \/ \E s \in Pipeline : SetStage(s)

Works ==
  \/ FollowUp \/ CompleteTask \/ Schedule \/ UpdateAppointment \/ Enroll \/ Decide
  \/ \E s \in {"qualified", "appointment_scheduled"} : HandOff(s)
  \/ OpenDeal \/ Fund \/ CancelDeal \/ Review

Seller == \E c \in Contacts : Arrive(c) \/ Handle(c) \/ MissCall(c)

Background ==
  \/ Enqueue \/ BriefAges
  \/ \E w \in Workers : Claim(w) \/ Finish(w) \/ Crash(w)

Next == Lifecycle \/ Works \/ Seller \/ Background

Spec == Init /\ [][Next]_vars

-----------------------------------------------------------------------------
TypeOK ==
  /\ lead \in [stage : Pipeline \cup Inactive, archived : BOOLEAN, marked : BOOLEAN,
               spam : BOOLEAN, before : Pipeline \cup {"closed"}]
  /\ primary \in {"none", "next", "respond"}
  /\ others \subseteq {"step", "missed_call"}
  /\ plan \in [enrolled : BOOLEAN, approval : BOOLEAN]
  /\ appointment \in {"none", "active", "over"}
  /\ deal \in [active : BOOLEAN, funded : BOOLEAN]
  /\ closing \in [on : BOOLEAN, stage : Terminal, mark : {"none", "other", "spam"}]
  /\ contact \in [Contacts -> [at : {"none", "arrived", "handled", "missed"}, after : BOOLEAN]]
  /\ brief \in [status : {"none", "queued", "processing", "needs_review", "blocked", "failed",
                          "completed", "dismissed"},
                stale : BOOLEAN]
  /\ worker \in [Workers -> {"idle", "running"}]
  /\ crashes \in 0..MaxCrashes

(* Nothing is left to do on a closed-out lead, whatever was added to it    *)
(* while it was closed: no task, appointment, follow-up, approval, brief   *)
(* to be reviewed or deal; and a lead with a funded deal is never called   *)
(* dead or disqualified.                                                   *)
ClosedLeadRests ==
  /\ ClosedOut =>
       /\ primary = "none" /\ others = {}
       /\ ~plan.enrolled /\ ~plan.approval /\ appointment # "active"
       /\ brief.status # "needs_review"
       /\ ~deal.active
  /\ deal.funded => lead.stage \notin Terminal

(* A contact that came after the lead was closed out does not leave it     *)
(* closed, unless the lead is marked as spam.                              *)
NoContactLost ==
  \A c \in DOMAIN contact :
    contact[c].at \in {"handled", "missed"} /\ contact[c].after /\ ClosedOut =>
      lead.marked /\ lead.spam
=============================================================================
