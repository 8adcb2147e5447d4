---------------------------- MODULE StaffAlerts ----------------------------
(***************************************************************************)
(* Texts to the staff about a new seller: one for each step of a website   *)
(* journey and one for a Facebook lead, per recipient.  Rows are queued    *)
(* with the lead, missing ones are recovered for a day, a worker sends     *)
(* them under their row locks, the provider reports on them later, and a   *)
(* manager may send the Facebook ones again.                               *)
(***************************************************************************)
EXTENDS Naturals, Sequences, FiniteSets

CONSTANTS
  Kinds,          \* of "stage1", "stage2" (website) and "facebook"
  Staff,
  Senders,        \* workers that send the texts
  AlertAttempts,  \* staff_lead_alert_max_attempts
  MaxTexts,       \* bound: messages the provider takes for one row
  Nothing         \* on no row

ASSUME KindsAssumption ==
  /\ Kinds \subseteq {"stage1", "stage2", "facebook"}
  /\ "stage1" \in Kinds <=> "stage2" \in Kinds

ASSUME BoundsAssumption == AlertAttempts \in Nat \ {0} /\ MaxTexts \in Nat

ASSUME NothingAssumption == Nothing \notin {"stage1", "stage2", "facebook"} \X Staff

VARIABLES
  stage,       \* how far the website journey is: 0, 1 or 2
  facebook,    \* the Facebook lead is processed
  recent,      \* both are inside STAFF_ALERT_RECOVERY_WINDOW
  eligible,    \* opted-in staff with a cellphone
  configured,  \* staff_lead_alert_configuration_blockers is empty
  row,         \* StaffLeadAlert per kind and recipient
  outcome,     \* what the provider last reported of each message it took
  sends,       \* where each worker is and which rows it has locked
  unanswered,  \* history: lost answers to texts since a row was queued
  excused      \* history: other repetitions per row, for a crash or a manager

alertVars ==
  <<stage, facebook, recent, eligible, configured, row, outcome, sends, unanswered, excused>>

Rows == Kinds \X Staff
Absent == [status |-> "none", attempts |-> 0, due |-> TRUE, sid |-> 0]
Queued == [Absent EXCEPT !.status = "pending"]
Resting == [at |-> "idle", on |-> Nothing, locks |-> {}]

AlertsInit ==
  /\ stage = 0 /\ facebook = FALSE /\ recent = TRUE /\ configured = TRUE
  /\ eligible = Staff
  /\ row = [a \in Rows |-> Absent]
  /\ outcome = [a \in Rows |-> <<>>]
  /\ sends = [w \in Senders |-> Resting]
  /\ unanswered = [a \in Rows |-> 0] /\ excused = [a \in Rows |-> 0]

Open == {"pending", "retry", "blocked"}
Missing(k) == {<<k, p>> : p \in {p \in eligible : row[<<k, p>>].status = "none"}}
Locked(a) == \E w \in Senders : a \in sends[w].locks

(* queue_staff_lead_alerts_for_lead: one row per source and recipient. *)
Queue(kinds) ==
  row' = [a \in Rows |-> IF \E k \in kinds : a \in Missing(k) THEN Queued ELSE row[a]]

-----------------------------------------------------------------------------
(* capture_public_seller_address and create_public_seller_lead.            *)
Visit(step) ==
  /\ "stage1" \in Kinds /\ stage < step
  /\ stage' = step
  /\ Queue(IF step = 1 THEN {"stage1"} ELSE {"stage1", "stage2"})
  /\ UNCHANGED <<facebook, recent, eligible, configured, outcome, sends, unanswered, excused>>

(* The end of process_next_meta_lead_event. *)
FacebookLead ==
  /\ "facebook" \in Kinds /\ ~facebook /\ facebook' = TRUE
  /\ Queue({"facebook"})
  /\ UNCHANGED <<stage, recent, eligible, configured, outcome, sends, unanswered, excused>>

ChangeStaff(p) ==
  /\ eligible' = IF p \in eligible THEN eligible \ {p} ELSE eligible \cup {p}
  /\ UNCHANGED <<stage, facebook, recent, configured, row, outcome, sends, unanswered, excused>>

Configure ==
  /\ configured' = ~configured
  /\ UNCHANGED <<stage, facebook, recent, eligible, row, outcome, sends, unanswered, excused>>

DayPasses ==
  /\ recent /\ recent' = FALSE
  /\ UNCHANGED <<stage, facebook, eligible, configured, row, outcome, sends, unanswered, excused>>

-----------------------------------------------------------------------------
(* recover_recent_unalerted_website_lead creates the first missing stage,  *)
(* recover_recent_unalerted_meta_lead the Facebook rows.                   *)
Lost ==
  IF stage \in {1, 2} /\ Missing("stage1") # {} THEN {"stage1"}
  ELSE IF stage = 2 /\ Missing("stage2") # {} THEN {"stage2"} ELSE {}

Sweep(w) ==
  /\ sends[w].at = "idle"
  /\ IF recent
     THEN Queue(Lost \cup IF facebook THEN {"facebook"} ELSE {})
     ELSE UNCHANGED row
  /\ sends' = [sends EXCEPT ![w].at = "picking"]
  /\ UNCHANGED <<stage, facebook, recent, eligible, configured, outcome, unanswered, excused>>

(* Faulty: the stages are not kept in order. *)
NeverWaits(a) == FALSE

(* unresolved_stage_1 *)
Waits(a) == a[1] = "stage2" /\ row[<<"stage1", a[2]>>].status \in Open

Ready(a) ==
  /\ row[a].status \in {"pending", "retry"} \/ (row[a].status = "blocked" /\ configured)
  /\ row[a].due /\ ~Waits(a)

(* Faulty: rows are read without their locks. *)
CandidatesUnlocked == {a \in Rows : Ready(a)}

(* with_for_update(skip_locked=True), without a limit: all rows are locked.*)
Candidates == {a \in Rows : Ready(a) /\ ~Locked(a)}

Counted(r) == IF r.attempts < AlertAttempts THEN r.attempts + 1 ELSE r.attempts
Blocked(r) == [r EXCEPT !.status = "blocked", !.attempts = Counted(r)]
Retried(r) == [r EXCEPT !.status = "retry", !.attempts = Counted(r), !.due = FALSE]
Exhausted(r) == [r EXCEPT !.status = "exhausted", !.attempts = AlertAttempts]

Pick(w) ==
  /\ sends[w].at = "picking"
  /\ \/ /\ Candidates = {}
        /\ sends' = [sends EXCEPT ![w] = Resting]
        /\ UNCHANGED row
     \/ /\ ~configured
        /\ \E a \in Candidates :
             row' = [row EXCEPT ![a] = Blocked(row[a])]
        /\ sends' = [sends EXCEPT ![w] = Resting]
     \/ /\ configured
        /\ \E a \in Candidates :
             /\ Len(outcome[a]) < MaxTexts
             /\ sends' = [sends EXCEPT ![w] = [at |-> "calling", on |-> a, locks |-> Candidates]]
        /\ UNCHANGED row
  /\ UNCHANGED <<stage, facebook, recent, eligible, configured, outcome, unanswered, excused>>

(* The provider takes the text; the worker has not recorded it yet. *)
Take(w) ==
  /\ sends[w].at = "calling"
  /\ outcome' = [outcome EXCEPT ![sends[w].on] = Append(@, "queued")]
  /\ sends' = [sends EXCEPT ![w].at = "taken"]
  /\ UNCHANGED <<stage, facebook, recent, eligible, configured, row, unanswered, excused>>

Accepted(w) ==
  LET a == sends[w].on IN
  /\ sends[w].at = "taken"
  /\ row' = [row EXCEPT ![a] = [status |-> "queued", due |-> TRUE, sid |-> Len(outcome[a]),
                                attempts |-> Counted(row[a])]]
  /\ sends' = [sends EXCEPT ![w] = Resting]
  /\ UNCHANGED <<stage, facebook, recent, eligible, configured, outcome, unanswered, excused>>

(* Faulty: a lost answer is tried again without being counted. *)
AfterFailureUncounted(r) ==
  IF Counted(r) < AlertAttempts THEN [r EXCEPT !.status = "retry", !.due = FALSE]
  ELSE Exhausted(r)

AfterFailure(r) == IF Counted(r) < AlertAttempts THEN Retried(r) ELSE Exhausted(r)

(* TwilioMessagingError: the provider refuses the text, or its answer does *)
(* not arrive although it has taken it.                                    *)
Refused(w) ==
  LET a == sends[w].on IN
  /\ sends[w].at \in {"calling", "taken"}
  /\ row' = [row EXCEPT ![a] = AfterFailure(row[a])]
  /\ unanswered' = IF sends[w].at = "taken" THEN [unanswered EXCEPT ![a] = @ + 1] ELSE unanswered
  /\ sends' = [sends EXCEPT ![w] = Resting]
  /\ UNCHANGED <<stage, facebook, recent, eligible, configured, outcome, excused>>

(* The process dies and records nothing. *)
SenderDies(w) ==
  /\ sends[w].at # "idle"
  /\ excused' = IF sends[w].at = "taken" THEN [excused EXCEPT ![sends[w].on] = @ + 1] ELSE excused
  /\ sends' = [sends EXCEPT ![w] = Resting]
  /\ UNCHANGED <<stage, facebook, recent, eligible, configured, row, outcome, unanswered>>

Backoff(a) ==
  /\ ~row[a].due
  /\ row' = [row EXCEPT ![a].due = TRUE]
  /\ UNCHANGED <<stage, facebook, recent, eligible, configured, outcome, sends, unanswered, excused>>

-----------------------------------------------------------------------------
(* apply_twilio_status_event finds the row by the message's identifier and *)
(* keeps its final status; a report no row answers to waits and is given   *)
(* up.  A message may be reported on more than once.                       *)
Final == {"delivered", "undelivered"}

Report(a, n, status) ==
  /\ n \in DOMAIN outcome[a] /\ outcome[a][n] \in {"queued", status}
  /\ outcome' = [outcome EXCEPT ![a][n] = status]
  /\ row' = IF row[a].sid = n /\ row[a].status \notin Final
            THEN [row EXCEPT ![a].status = status] ELSE row
  /\ UNCHANGED <<stage, facebook, recent, eligible, configured, sends, unanswered, excused>>

Requeueable == {"blocked", "exhausted", "retry", "undelivered"}

(* Faulty: the row keeps the identifier of its old message. *)
RenewedKeeping(r) == [Queued EXCEPT !.sid = r.sid]

Renewed(r) == Queued

(* requeue_staff_lead_alerts *)
Requeue ==
  LET again == {a \in Rows : a[1] = "facebook" /\ a[2] \in eligible
                                /\ row[a].status \in Requeueable} IN
  /\ facebook /\ eligible # {} /\ ~\E a \in Rows : a[1] = "facebook" /\ Locked(a)
  /\ row' = [a \in Rows |-> IF a \in again THEN Renewed(row[a])
                           ELSE IF a \in Missing("facebook") THEN Queued ELSE row[a]]
  /\ excused' = [a \in Rows |->
       IF a \notin again THEN excused[a]
       ELSE excused[a] + unanswered[a] + IF row[a].status = "undelivered" THEN 1 ELSE 0]
  /\ unanswered' = [a \in Rows |-> IF a \in again THEN 0 ELSE unanswered[a]]
  /\ UNCHANGED <<stage, facebook, recent, eligible, configured, outcome, sends>>

Sends(w) == Sweep(w) \/ Pick(w) \/ Take(w) \/ Accepted(w) \/ Refused(w)

AlertsNext ==
  \/ \E step \in {1, 2} : Visit(step)
  \/ FacebookLead \/ Configure \/ DayPasses \/ Requeue
  \/ \E p \in Staff : ChangeStaff(p)
  \/ \E w \in Senders : Sends(w) \/ SenderDies(w)
  \/ \E a \in Rows : Backoff(a) \/ \E n \in DOMAIN outcome[a] :
                                     \E status \in Final : Report(a, n, status)

AlertsSpec == AlertsInit /\ [][AlertsNext]_alertVars

-----------------------------------------------------------------------------
AlertsTyped ==
  /\ row \in [Rows ->
       [status : Open \cup {"none", "queued", "delivered", "undelivered", "exhausted"},
        attempts : 0..AlertAttempts, due : BOOLEAN, sid : 0..MaxTexts]]
  /\ \A a \in Rows : Len(outcome[a]) <= MaxTexts

(* A recipient is told of the contact details only when the text about the *)
(* address has been sent or given up, over recoveries, retries and changes *)
(* of who is eligible.                                                     *)
StagesInOrder ==
  \A w \in DOMAIN sends, p \in Staff :
    sends[w].on = <<"stage2", p>> =>
      row[<<"stage1", p>>].status \notin Open \cup {"none"}

(* A text is repeated only where the provider's answer to it was lost, for *)
(* a crash between its acceptance and its record, or for a manager after it*)
(* was not delivered; and lost answers repeat it staff_lead_alert_max_     *)
(* attempts times at most, whatever is blocked, recovered or changed       *)
(* between them.                                                           *)
NoUnexcusedText ==
  \A a \in DOMAIN row :
    Len(outcome[a]) <= 1 + unanswered[a] + excused[a] /\ unanswered[a] <= AlertAttempts

(* The staff hear of a seller's details after the seller's address, and of *)
(* nothing twice without a lost answer, a crash or a manager as the cause, *)
(* of lost answers only as often as a text is attempted.                   *)
AlertsInOrder == StagesInOrder /\ NoUnexcusedText

(* What is reported of an earlier text never closes an alert that was      *)
(* queued again after it.                                                  *)
ClosedByItsOwnText ==
  [][\A a \in DOMAIN row : row[a].status \in Open => row'[a].status \notin Final]_alertVars
=============================================================================
