------------------------- MODULE ConversationTexts -------------------------
(***************************************************************************)
(* Texts of the shared inbox: the send of one text in two transactions     *)
(* around the provider call, Twilio's status reports of it (processed by   *)
(* the webhook, or kept and recovered by a worker when they come before    *)
(* the text is on record), and the seller's own texts with STOP and START. *)
(***************************************************************************)
EXTENDS Naturals, FiniteSets

CONSTANTS
  Senders,       \* requests that send texts
  Keys,          \* idempotency keys
  Reports,       \* what Twilio reports of each text, "queued" apart
  Clerks,        \* transactions that apply reports: webhooks and workers
  MaxAttempts,   \* TWILIO_STATUS_RECOVERY_MAX_ATTEMPTS
  Heard,         \* the seller's texts
  KeywordOf,     \* STOP, START or none
  None

Terminal == {"delivered", "undelivered", "failed", "read", "canceled"}
Rank == [pending |-> 0, queued |-> 20, sending |-> 30, sent |-> 40]

VARIABLES
  dispatch,    \* CommunicationDispatch.status per key
  record,      \* CommunicationRecord.status per key, or none
  sent,        \* history: how often the provider took the key's text
  sender,      \* where each request is
  report,      \* the CommunicationProviderEvent of each report
  clerk,       \* where each applying transaction is, and what it read
  suppressed,  \* the seller's SuppressionRecord is active
  heard        \* seller texts whose event is stored

vars == <<dispatch, record, sent, sender, report, clerk, suppressed, heard>>

Event == Keys \X Reports

Nowhere == [at |-> "idle", key |-> None]
AtRest == [at |-> "idle", on |-> None, saw |-> "none"]

Init ==
  /\ dispatch = [k \in Keys |-> "none"]
  /\ record = [k \in Keys |-> "none"]
  /\ sent = [k \in Keys |-> 0]
  /\ sender = [s \in Senders |-> Nowhere]
  /\ report = [e \in Event |->
       [status |-> "none", attempts |-> 0, holder |-> None, stale |-> FALSE]]
  /\ clerk = [c \in Clerks |-> AtRest]
  /\ suppressed = FALSE /\ heard = {}

-----------------------------------------------------------------------------
(* send_conversation_sms. *)

sending == <<dispatch, record, sent, sender>>
reporting == <<report, clerk>>
hearing == <<suppressed, heard>>

(* Faulty: a request that died is taken up again. *)
BeginAgain(s, k) ==
  /\ sender[s].at = "idle" /\ dispatch[k] \in {"none", "pending"} /\ ~suppressed
  /\ dispatch' = [dispatch EXCEPT ![k] = "pending"]
  /\ sender' = [sender EXCEPT ![s] = [at |-> "submitting", key |-> k]]
  /\ UNCHANGED <<record, sent>> /\ UNCHANGED reporting /\ UNCHANGED hearing

(* The key is free and the seller may be texted; a used key is answered    *)
(* with its result or refused (also by its unique constraint).             *)
Begin(s, k) ==
  /\ sender[s].at = "idle" /\ dispatch[k] = "none" /\ ~suppressed
  /\ dispatch' = [dispatch EXCEPT ![k] = "pending"]
  /\ sender' = [sender EXCEPT ![s] = [at |-> "submitting", key |-> k]]
  /\ UNCHANGED <<record, sent>> /\ UNCHANGED reporting /\ UNCHANGED hearing

(* Meanwhile the seller's lead was closed: nothing is sent.                *)
CancelClosed(s) ==
  /\ sender[s].at = "submitting"
  /\ dispatch' = [dispatch EXCEPT ![sender[s].key] = "cancelled"]
  /\ sender' = [sender EXCEPT ![s] = Nowhere]
  /\ UNCHANGED <<record, sent>> /\ UNCHANGED reporting /\ UNCHANGED hearing

(* The provider takes the text. *)
Submit(s) ==
  /\ sender[s].at = "submitting"
  /\ sent' = [sent EXCEPT ![sender[s].key] = @ + 1]
  /\ sender' = [sender EXCEPT ![s].at = "recording"]
  /\ UNCHANGED <<dispatch, record>> /\ UNCHANGED reporting /\ UNCHANGED hearing

(* mark_dispatch_failed: refused, not configured, or the answer was lost.  *)
MarkFailed(s) ==
  /\ sender[s].at \in {"submitting", "recording"}
  /\ dispatch' = [dispatch EXCEPT ![sender[s].key] = "failed"]
  /\ sender' = [sender EXCEPT ![s] = Nowhere]
  /\ UNCHANGED <<record, sent>> /\ UNCHANGED reporting /\ UNCHANGED hearing

Record(s) ==
  /\ sender[s].at = "recording"
  /\ record' = [record EXCEPT ![sender[s].key] = "queued"]
  /\ dispatch' = [dispatch EXCEPT ![sender[s].key] = "queued"]
  /\ sender' = [sender EXCEPT ![s] = Nowhere]
  /\ UNCHANGED sent /\ UNCHANGED reporting /\ UNCHANGED hearing

SenderDies(s) ==
  /\ sender[s].at # "idle"
  /\ sender' = [sender EXCEPT ![s] = Nowhere]
  /\ UNCHANGED <<dispatch, record, sent>> /\ UNCHANGED reporting /\ UNCHANGED hearing

-----------------------------------------------------------------------------
(* Status reports.  A text has one terminal report; the others precede it  *)
(* at Twilio, but not on their way here.                                   *)

Emitted(e) ==
  /\ sent[e[1]] > 0
  /\ \A t \in Reports \ {e[2]} :
       {t, e[2]} \subseteq Terminal =>
         /\ report[<<e[1], t>>].status = "none"
         /\ \A c \in Clerks : clerk[c].on # <<e[1], t>>

(* Faulty: ranks decide alone, and a terminal status has none. *)
AppliesByRank(current, new) ==
  LET R(x) == IF x \in DOMAIN Rank THEN Rank[x] ELSE 0 IN R(new) >= R(current) \/ new \in Terminal

(* should_apply_twilio_message_status *)
Applies(current, new) ==
  \/ current = new
  \/ /\ current \notin Terminal
     /\ new \in Terminal \/ Rank[new] >= Rank[current]

Taken(current, new) == IF Applies(current, new) THEN new ELSE current

(* process_twilio_status stores the report and reads the record; a report  *)
(* that is stored already changes nothing.                                 *)
Webhook(c, e) ==
  /\ clerk[c].at = "idle" /\ report[e].status = "none" /\ Emitted(e)
  /\ \A d \in Clerks : clerk[d].on # e                \* uq_provider_events
  /\ clerk' = [clerk EXCEPT ![c] = [at |-> "webhook", on |-> e, saw |-> record[e[1]]]]
  /\ UNCHANGED report /\ UNCHANGED sending /\ UNCHANGED hearing

(* Faulty: a claim whose worker died is nobody's. *)
RecoverableFresh(e) == report[e].status \in {"unmatched", "retry"}

Recoverable(e) ==
  \/ report[e].status \in {"unmatched", "retry"}
  \/ report[e].status = "processing" /\ report[e].stale

Locked(e) == \E d \in Clerks : clerk[d].at = "recovery" /\ clerk[d].on = e

(* claim_next_twilio_status_event *)
Claim(c, e) ==
  /\ clerk[c].at = "idle" /\ Recoverable(e) /\ ~Locked(e)
  /\ report[e].attempts < MaxAttempts
  /\ report' = [report EXCEPT ![e] =
       [status |-> "processing", attempts |-> @.attempts + 1, holder |-> c, stale |-> FALSE]]
  /\ clerk' = [clerk EXCEPT ![c] = [AtRest EXCEPT !.at = "claimed", !.on = e]]
  /\ UNCHANGED sending /\ UNCHANGED hearing

Orphaned(row) == [row EXCEPT !.status = "orphaned", !.holder = None, !.stale = FALSE]

ClaimOrphan(c, e) ==
  /\ clerk[c].at = "idle" /\ Recoverable(e) /\ ~Locked(e)
  /\ report[e].attempts >= MaxAttempts
  /\ report' = [report EXCEPT ![e] = Orphaned(@)]
  /\ UNCHANGED clerk /\ UNCHANGED sending /\ UNCHANGED hearing

(* require_twilio_status_recovery_claim locks the event for the rest of    *)
(* the transaction, or finds the lease lost.                               *)
Recover(c) ==
  LET e == clerk[c].on IN
  /\ clerk[c].at = "claimed"
  /\ clerk' = [clerk EXCEPT ![c] =
       IF report[e].status = "processing" /\ report[e].holder = c
       THEN [at |-> "recovery", on |-> e, saw |-> record[e[1]]] ELSE AtRest]
  /\ UNCHANGED report /\ UNCHANGED sending /\ UNCHANGED hearing

(* defer_or_orphan_twilio_status_event *)
Deferred(row) ==
  IF row.attempts >= MaxAttempts THEN Orphaned(row)
  ELSE [row EXCEPT !.status = "retry", !.holder = None, !.stale = FALSE]

(* apply_twilio_status_event: the text's status is decided on what was     *)
(* read and its row is locked by writing it, so the dispatch is read anew. *)
Apply(c) ==
  LET e == clerk[c].on k == e[1] IN
  /\ clerk[c].at \in {"webhook", "recovery"} /\ clerk[c].saw # "none"
  /\ record' = [record EXCEPT ![k] = IF Applies(clerk[c].saw, e[2]) /\ clerk[c].saw # e[2]
                                     THEN e[2] ELSE @]
  /\ dispatch' = [dispatch EXCEPT ![k] = Taken(@, e[2])]
  /\ report' = [report EXCEPT ![e] =
       [@ EXCEPT !.status = "processed", !.holder = None, !.stale = FALSE]]
  /\ clerk' = [clerk EXCEPT ![c] = AtRest]
  /\ UNCHANGED <<sent, sender>> /\ UNCHANGED hearing

(* The text is not on record (yet). *)
Unmatched(c) ==
  LET e == clerk[c].on IN
  /\ clerk[c].at \in {"webhook", "recovery"} /\ clerk[c].saw = "none"
  /\ report' = [report EXCEPT ![e] =
       IF clerk[c].at = "webhook" THEN [@ EXCEPT !.status = "unmatched"] ELSE Deferred(@)]
  /\ clerk' = [clerk EXCEPT ![c] = AtRest]
  /\ UNCHANGED sending /\ UNCHANGED hearing

(* The transaction fails: a webhook stores nothing and Twilio may repeat   *)
(* it, a worker records the failure of its claim, or dies before it can.   *)
Fail(c) ==
  LET e == clerk[c].on IN
  /\ clerk[c].at # "idle"
  /\ report' = IF clerk[c].at = "recovery" THEN [report EXCEPT ![e] = Deferred(@)] ELSE report
  /\ clerk' = [clerk EXCEPT ![c] = AtRest]
  /\ UNCHANGED sending /\ UNCHANGED hearing

ClerkDies(c) ==
  /\ clerk[c].at # "idle"
  /\ clerk' = [clerk EXCEPT ![c] = AtRest]
  /\ UNCHANGED report /\ UNCHANGED sending /\ UNCHANGED hearing

LeaseExpires(e) ==
  /\ report[e].status = "processing" /\ ~report[e].stale /\ ~Locked(e)
  /\ report' = [report EXCEPT ![e].stale = TRUE]
  /\ UNCHANGED clerk /\ UNCHANGED sending /\ UNCHANGED hearing

-----------------------------------------------------------------------------
(* apply_sms_preference *)
Preference(m) ==
  CASE KeywordOf[m] = "STOP" -> TRUE
    [] KeywordOf[m] = "START" -> FALSE
    [] OTHER -> suppressed

(* Faulty: a repeated webhook is handled again. *)
HearAgain(m) ==
  /\ heard' = heard \cup {m}
  /\ suppressed' = Preference(m)
  /\ UNCHANGED sending /\ UNCHANGED reporting

(* process_twilio_inbound; a webhook whose event is stored changes nothing.*)
Hear(m) ==
  /\ m \notin heard
  /\ heard' = heard \cup {m}
  /\ suppressed' = Preference(m)
  /\ UNCHANGED sending /\ UNCHANGED reporting

Next ==
  \/ \E s \in Senders : \/ \E k \in Keys : Begin(s, k)
                        \/ CancelClosed(s) \/ Submit(s) \/ MarkFailed(s) \/ Record(s)
                        \/ SenderDies(s)
  \/ \E c \in Clerks : \/ \E e \in Event : Webhook(c, e) \/ Claim(c, e) \/ ClaimOrphan(c, e)
                       \/ Recover(c) \/ Apply(c) \/ Unmatched(c) \/ Fail(c) \/ ClerkDies(c)
  \/ \E e \in Event : LeaseExpires(e)
  \/ \E m \in Heard : Hear(m)

Spec == Init /\ [][Next]_vars

-----------------------------------------------------------------------------
Statuses == {"none", "pending", "queued"} \cup Reports

TypeOK ==
  /\ dispatch \in [Keys -> Statuses \cup {"failed", "cancelled"}]
  /\ record \in [Keys -> Statuses \ {"pending"}]
  /\ report \in [Event ->
       [status : {"none", "unmatched", "processing", "retry", "processed", "orphaned"},
        attempts : 0..MaxAttempts, holder : Clerks \cup {None}, stale : BOOLEAN]]
  /\ \A c \in Clerks : clerk[c].saw \in Statuses
  /\ heard \subseteq Heard

(* One key reaches the provider at most once, over repeated requests, lost *)
(* answers and processes that die.                                         *)
SentOncePerKey == \A k \in Keys : sent[k] <= 1

(* The dispatch tells what Twilio reported, however reports overlap, arrive*)
(* out of order or before the text was on record: it is at least as far as *)
(* every report that counts as processed, and shows the terminal one.      *)
ReportsKept ==
  \A e \in Event : report[e].status = "processed" =>
    IF e[2] \in Terminal THEN dispatch[e[1]] = e[2]
    ELSE dispatch[e[1]] \in Terminal \/ Rank[dispatch[e[1]]] >= Rank[e[2]]

(* A seller who has said STOP is texted again only after a new START, never*)
(* because an old one is delivered once more.                              *)
StopHolds ==
  [][(suppressed /\ ~suppressed') =>
       \E m \in Heard \ heard : KeywordOf[m] = "START" /\ m \in heard']_vars

(* Every report of a text that was stored is applied or given up, whatever *)
(* dies in between.                                                        *)
ReportsSettle ==
  \A e \in Event :
    (report[e].status = "unmatched") ~> (report[e].status \in {"processed", "orphaned"})

Recovers(c) ==
  \/ \E e \in Event : Claim(c, e) \/ ClaimOrphan(c, e)
  \/ Recover(c) \/ Apply(c) \/ Unmatched(c)
Fairness ==
  /\ \A c \in Clerks : WF_vars(Recovers(c))
  /\ \A e \in Event : WF_vars(LeaseExpires(e))
=============================================================================
