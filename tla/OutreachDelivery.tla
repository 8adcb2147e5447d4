-------------------------- MODULE OutreachDelivery --------------------------
(***************************************************************************)
(* One revision of a buyer outreach campaign: the operators who approve,   *)
(* release, pause, resume, cancel and retry it, and the workers that carry *)
(* its messages over the provider boundary.                                *)
(*                                                                         *)
(* Every action is one database transaction; all of them lock the revision *)
(* before its deliveries.  A worker's turn is several transactions, and it *)
(* keeps nothing but the delivery's id (and for an SMS the claim's token)  *)
(* between them.  provider_accepted and sent are one status here: no guard *)
(* tells them apart.                                                       *)
(***************************************************************************)
EXTENDS Naturals, FiniteSets

CONSTANTS
  Workers,      \* worker processes (a deploy overlaps two)
  Emails,       \* deliveries by e-mail, with an idempotency key
  Texts,        \* deliveries by SMS, without one
  Refusals,     \* what a live preflight may answer besides "ok"
  Blocks,       \* what an operator's preflight may answer besides "ok"
  Controls,     \* operator commands in use
  MaxVersion,   \* bound: operator commands on the revision
  MaxFaults,    \* bound: crashes, and leases that run out on a busy worker
  NoDelivery

VARIABLES
  revision,   \* status of the DispositionOutreachRevision
  version,    \* its lock_version
  delivery,   \* DispositionOutreachDelivery rows, each with its dispatch
  worker,     \* where each worker is in its turn
  copies,     \* how often the provider took each message on
  faults      \* faults so far

outreachVars == <<revision, version, delivery, worker, copies, faults>>

Messages == Emails \cup Texts

Active == {"queued", "sending"}
Failures == {"ineligible", "failed_retryable", "failed_terminal", "delivery_unknown",
             "suppressed", "opted_out"}
TerminalStatuses == Failures \cup {"delivered", "replied", "cancelled"}
Unsent == {"prepared", "approved", "queued", "claimed", "failed_retryable"}

RevisionStatuses ==
  {"review_required", "approved", "queued", "sending", "paused", "provider_degraded",
   "completed", "completed_with_failures", "cancelled", "invalidated"}

DeliveryRows ==
  [status   : TerminalStatuses \cup Unsent \cup {"sent"},
   attempt  : Nat,                            \* attempt_count
   token    : Nat,                            \* processing_token: 0, or the attempt it names
   stale    : BOOLEAN,                        \* claimed longer ago than the claim lease
   dispatch : Failures \cup {"none", "pending", "cancelled", "recorded"},
   record   : {"none", "sent", "delivered", "failed", "suppressed"},
   replied  : BOOLEAN]

Idle == [at |-> "idle", on |-> NoDelivery, token |-> 0, verdict |-> "none"]

OutreachInit ==
  /\ revision = "review_required"
  /\ version = 1
  /\ delivery = [m \in Messages |->
       [status |-> "prepared", attempt |-> 0, token |-> 0, stale |-> FALSE,
        dispatch |-> "none", record |-> "none", replied |-> FALSE]]
  /\ worker = [w \in Workers |-> Idle]
  /\ copies = [m \in Messages |-> 0]
  /\ faults = 0

-----------------------------------------------------------------------------
(* The revision's summary of its deliveries. *)

Controlled(rev) == rev \in {"paused", "cancelled", "invalidated"}

(* Faulty: a message in doubt does not count as a failure. *)
SyncedOptimistic(rev, D) ==
  LET statuses == {D[m].status : m \in Messages} IN
  IF Controlled(rev) THEN rev
  ELSE IF statuses \cap {"queued", "claimed", "sent"} # {} THEN "sending"
  ELSE IF ~(statuses \subseteq TerminalStatuses) THEN rev
  ELSE IF statuses \cap Failures \subseteq {"delivery_unknown"} THEN "completed"
  ELSE "completed_with_failures"

(* Faulty: the summary overrides an operator's cancellation. *)
SyncedOverCancel(rev, D) ==
  LET statuses == {D[m].status : m \in Messages} IN
  IF rev = "paused" THEN rev
  ELSE IF statuses \cap {"queued", "claimed", "sent"} # {} THEN "sending"
  ELSE IF ~(statuses \subseteq TerminalStatuses) THEN rev
  ELSE IF statuses \cap Failures # {} THEN "completed_with_failures" ELSE "completed"

Synced(rev, D) ==
  LET statuses == {D[m].status : m \in Messages} IN
  IF Controlled(rev) THEN rev
  ELSE IF statuses \cap {"queued", "claimed", "sent"} # {} THEN "sending"
  ELSE IF ~(statuses \subseteq TerminalStatuses) THEN rev
  ELSE IF statuses \cap Failures # {} THEN "completed_with_failures" ELSE "completed"

(* Faulty: an unmapped provider status is stored as it comes. *)
MappedVerbatim(record) == record

MappedStatus(record) ==
  CASE record = "sent" -> "sent"       [] record = "delivered" -> "delivered"
    [] record = "failed" -> "failed_terminal" [] record = "suppressed" -> "suppressed"

(* Write row d for m and bring the revision's status up to date. *)
Write(m, d) ==
  /\ delivery' = [delivery EXCEPT ![m] = d]
  /\ revision' = Synced(revision, [delivery EXCEPT ![m] = d])

-----------------------------------------------------------------------------
(* A worker's turn. *)

(* Faulty: a claim is never taken over. *)
ClaimableQueued(m) == revision \in Active /\ delivery[m].status = "queued"

(* Faulty: a claim is taken over without waiting for its lease. *)
ClaimableAtOnce(m) == revision \in Active /\ delivery[m].status \in {"queued", "claimed"}

Claimable(m) ==
  /\ revision \in Active
  /\ \/ delivery[m].status = "queued"
     \/ delivery[m].status = "claimed" /\ delivery[m].stale

ClaimDelivery(w, m) ==
  /\ worker[w].at = "idle" /\ Claimable(m)
  /\ LET n == delivery[m].attempt + 1 IN
     /\ delivery' = [delivery EXCEPT ![m] =
          [@ EXCEPT !.status = "claimed", !.attempt = n, !.token = n, !.stale = FALSE]]
     /\ worker' = [worker EXCEPT ![w] = [Idle EXCEPT !.at = "claimed", !.on = m]]
  /\ revision' = "sending"
  /\ UNCHANGED <<version, copies, faults>>

(* Faulty: only the campaign is looked at, not the delivery. *)
PreflightOfCampaign(m, allowed) ==
  IF revision \in Active THEN Refusals \cup {"ok"} ELSE {"ineligible"}

(* _live_preflight: campaign state first, then everything that may have    *)
(* changed around the buyer, the sender and the case.                      *)
Preflight(m, allowed) ==
  IF delivery[m].status \in allowed /\ revision \in Active
  THEN Refusals \cup {"ok"} ELSE {"ineligible"}

Turn(w, step) == worker' = [worker EXCEPT ![w] = step]
Failing(w, verdict) == Turn(w, [worker[w] EXCEPT !.at = "failing", !.verdict = verdict])

(* The first transaction after the claim: preflight and dispatch row.  The *)
(* claim's token is not compared.                                          *)
Prepare(w) ==
  LET m == worker[w].on d == delivery[m] IN
  /\ worker[w].at = "claimed"
  /\ \E v \in Preflight(m, {"claimed"}) :
       \/ /\ v # "ok" /\ Failing(w, v) /\ UNCHANGED <<delivery, revision>>
       \/ /\ v = "ok" /\ d.dispatch = "recorded"        \* DeliveryAlreadyProcessed
          /\ Write(m, [d EXCEPT !.status = MappedStatus(d.record), !.token = 0])
          /\ Turn(w, Idle)
       \/ /\ v = "ok" /\ d.dispatch \notin {"none", "pending", "recorded"}
          /\ Failing(w, "delivery_unknown") /\ UNCHANGED <<delivery, revision>>
       \/ /\ v = "ok" /\ d.dispatch \in {"none", "pending"}
          /\ delivery' = [delivery EXCEPT ![m].dispatch = "pending"]
          /\ Turn(w, [worker[w] EXCEPT !.at = "prepared"])
          /\ UNCHANGED revision
  /\ UNCHANGED <<version, copies, faults>>

(* _defer_delivery_for_operator_control, whatever the delivery's status.   *)
DeferredDelivery(d) ==
  LET unrecorded == d.dispatch \notin {"none", "recorded"}
      paused == revision = "paused" IN
  [d EXCEPT !.status = IF paused THEN "queued" ELSE "cancelled", !.token = 0,
            !.dispatch = IF ~unrecorded THEN @ ELSE IF paused THEN "pending" ELSE "cancelled"]

Accepted(d) == [d EXCEPT !.status = "sent", !.token = 0, !.dispatch = "recorded",
                         !.record = "sent"]

(* What the provider does with a submission and what the worker learns:    *)
(* whether the message is taken on, and the verdict ("ok": the answer      *)
(* arrived).                                                               *)
Answers(m) ==
  {<<TRUE, "ok">>, <<TRUE, "delivery_unknown">>, <<FALSE, "delivery_unknown">>,
   <<FALSE, "failed_terminal">>}
  \cup (IF m \in Emails THEN {<<FALSE, "failed_retryable">>} ELSE {})

(* An idempotency key makes the provider recognise a repeated e-mail.      *)
TakenOn(m) == copies' = [copies EXCEPT ![m] = IF m \in Emails THEN 1 ELSE @ + 1]

(* The provider call happens inside the boundary's transaction; on any     *)
(* answer but "ok" the transaction is rolled back.                         *)
SubmitDelivery(w, m) ==
  \E a \in Answers(m) :
    /\ IF a[1] THEN TakenOn(m) ELSE UNCHANGED copies
    /\ IF a[2] = "ok"
       THEN Write(m, Accepted(delivery[m])) /\ Turn(w, Idle)
       ELSE Failing(w, a[2]) /\ UNCHANGED <<delivery, revision>>

(* _provider_boundary_context up to the preflight's answer "ok".           *)
Cross(w, m, allowed, Then) ==
  \/ /\ revision \notin Active
     /\ delivery' = [delivery EXCEPT ![m] = DeferredDelivery(@)]
     /\ Turn(w, Idle) /\ UNCHANGED <<revision, copies>>
  \/ /\ revision \in Active
     /\ \E v \in Preflight(m, allowed) :
          \/ v # "ok" /\ Failing(w, v) /\ UNCHANGED <<delivery, revision, copies>>
          \/ v = "ok" /\ Then

SendEmail(w) ==
  LET m == worker[w].on IN
  /\ worker[w].at = "prepared" /\ m \in Emails
  /\ Cross(w, m, {"claimed"}, SubmitDelivery(w, m))
  /\ UNCHANGED <<version, faults>>

(* Twilio has no idempotency key: the uncertain state is committed before  *)
(* the provider boundary.  The token is read from the row, not the claim.  *)
MarkUncertain(w, m) ==
  /\ delivery' = [delivery EXCEPT ![m] =
       [@ EXCEPT !.status = "delivery_unknown", !.dispatch = "delivery_unknown"]]
  /\ Turn(w, [worker[w] EXCEPT !.at = "marked", !.token = delivery[m].token])
  /\ UNCHANGED <<revision, copies>>

MarkText(w) ==
  LET m == worker[w].on IN
  /\ worker[w].at = "prepared" /\ m \in Texts
  /\ Cross(w, m, {"claimed"}, MarkUncertain(w, m))
  /\ UNCHANGED <<version, faults>>

SendText(w) ==
  LET m == worker[w].on IN
  /\ worker[w].at = "marked"
  /\ \/ /\ delivery[m].token # worker[w].token        \* DeliveryAlreadyProcessed
        /\ Turn(w, Idle) /\ UNCHANGED <<delivery, revision, copies>>
     \/ /\ delivery[m].token = worker[w].token
        /\ Cross(w, m, {"delivery_unknown"}, SubmitDelivery(w, m))
  /\ UNCHANGED <<version, faults>>

(* An unexpected error before the provider call. *)
Trouble(w) ==
  /\ worker[w].at \in {"claimed", "prepared", "marked"}
  /\ Failing(w, "failed_retryable")
  /\ faults < MaxFaults /\ faults' = faults + 1
  /\ UNCHANGED <<revision, version, delivery, copies>>

(* _fail_delivery, in a transaction of its own: neither the claim's token  *)
(* nor the delivery's status is looked at.                                 *)
FailDelivery(w) ==
  LET m == worker[w].on v == worker[w].verdict IN
  /\ worker[w].at = "failing"
  /\ Write(m, [delivery[m] EXCEPT !.status = v, !.token = 0,
                 !.dispatch = IF @ \in {"none", "recorded"} THEN @ ELSE v])
  /\ Turn(w, Idle)
  /\ UNCHANGED <<version, copies, faults>>

(* The process dies between two transactions, or inside the provider call. *)
Crash(w) ==
  /\ worker[w].at # "idle"
  /\ faults < MaxFaults /\ faults' = faults + 1
  /\ \/ UNCHANGED copies
     \/ /\ revision \in Active
        /\ \/ /\ worker[w].at = "prepared" /\ worker[w].on \in Emails
              /\ delivery[worker[w].on].status = "claimed"
           \/ /\ worker[w].at = "marked"
              /\ delivery[worker[w].on].status = "delivery_unknown"
              /\ delivery[worker[w].on].token = worker[w].token
        /\ TakenOn(worker[w].on)
  /\ Turn(w, Idle)
  /\ UNCHANGED <<revision, version, delivery>>

(* Five minutes pass; on a worker still at work only within the faults.    *)
ClaimExpires(m) ==
  /\ delivery[m].status = "claimed" /\ ~delivery[m].stale
  /\ delivery' = [delivery EXCEPT ![m].stale = TRUE]
  /\ IF \E w \in Workers : worker[w].on = m
     THEN faults < MaxFaults /\ faults' = faults + 1
     ELSE UNCHANGED faults
  /\ UNCHANGED <<revision, version, worker, copies>>

-----------------------------------------------------------------------------
(* Provider reports, and their reconciliation. *)

ProviderReports(m) ==
  /\ delivery[m].record # "none"
  /\ \E r \in {"delivered", "failed", "suppressed"} :
       /\ \/ delivery[m].record = "sent"
          \/ delivery[m].record = "delivered" /\ r = "suppressed"
       /\ delivery' = [delivery EXCEPT ![m].record = r]
  /\ UNCHANGED <<revision, version, worker, copies, faults>>

Reconcile(m) ==
  /\ delivery[m].status = "sent" /\ delivery[m].record \notin {"none", "sent"}
  /\ Write(m, [delivery[m] EXCEPT !.status = MappedStatus(delivery[m].record)])
  /\ UNCHANGED <<version, worker, copies, faults>>

(* An inbound reply matched to this delivery. *)
Reply(m) ==
  /\ delivery[m].status \in {"sent", "delivered"} /\ ~delivery[m].replied
  /\ \E s \in {"replied", "opted_out"} :
       Write(m, [delivery[m] EXCEPT !.status = s, !.replied = TRUE])
  /\ UNCHANGED <<version, worker, copies, faults>>

-----------------------------------------------------------------------------
(* Operators.  Each command names the lock_version it was decided on.      *)

Command(c) ==
  /\ c \in Controls /\ version < MaxVersion
  /\ version' = version + 1
  /\ UNCHANGED <<worker, copies, faults>>

Approve ==
  /\ Command("approve") /\ revision = "review_required"
  /\ revision' = "approved"
  /\ delivery' = [m \in Messages |->
       IF delivery[m].status = "prepared" THEN [delivery[m] EXCEPT !.status = "approved"]
       ELSE delivery[m]]

(* A new draft of the campaign invalidates a revision not yet released.    *)
Redraft ==
  /\ Command("redraft") /\ revision \in {"review_required", "approved"}
  /\ revision' = "invalidated" /\ UNCHANGED delivery

(* _queue_after_dynamic_preflight over the deliveries C. *)
Queue(C) ==
  \E v \in [C -> Blocks \cup {"ok"}] :
    LET After(m) ==
          IF v[m] = "ok"
          THEN [delivery[m] EXCEPT !.status = "queued", !.token = 0, !.stale = FALSE]
          ELSE IF v[m] = "transient"
          THEN [delivery[m] EXCEPT !.status = IF @ = "queued" THEN "approved" ELSE @]
          ELSE [delivery[m] EXCEPT !.status = v[m]]
        verdicts == {v[m] : m \in C}
    IN /\ delivery' = [m \in Messages |-> IF m \in C THEN After(m) ELSE delivery[m]]
       /\ revision' = IF "ok" \in verdicts THEN "queued"
                      ELSE IF "transient" \in verdicts THEN "provider_degraded"
                      ELSE "completed_with_failures"

Waiting == {m \in Messages : delivery[m].status \in {"approved", "queued", "failed_retryable"}}
Retryable == {m \in Messages : delivery[m].status = "failed_retryable"}

Release ==
  /\ Command("release") /\ revision \in {"approved", "provider_degraded"}
  /\ Queue(Waiting)

Pause ==
  /\ Command("pause") /\ revision \in {"queued", "sending", "provider_degraded"}
  /\ revision' = "paused" /\ UNCHANGED delivery

Resume ==
  /\ Command("resume") /\ revision \in {"paused", "provider_degraded"}
  /\ Queue(Waiting)

CancelUnsent ==
  /\ Command("cancel") /\ revision \notin {"completed", "cancelled", "invalidated"}
  /\ \E m \in Messages : delivery[m].status \in Unsent
  /\ revision' = "cancelled"
  /\ delivery' = [m \in Messages |->
       IF delivery[m].status \in Unsent THEN [delivery[m] EXCEPT !.status = "cancelled"]
       ELSE delivery[m]]

RetryFailed ==
  /\ Command("retry")
  /\ revision \in {"completed_with_failures", "provider_degraded", "paused"}
  /\ Retryable # {} /\ Queue(Retryable)

-----------------------------------------------------------------------------
Turns(w) ==
  \/ \E m \in Messages : ClaimDelivery(w, m)
  \/ Prepare(w) \/ SendEmail(w) \/ MarkText(w) \/ SendText(w) \/ FailDelivery(w)

Operator ==
  Approve \/ Redraft \/ Release \/ Pause \/ Resume \/ CancelUnsent \/ RetryFailed

OutreachNext ==
  \/ \E w \in Workers : Turns(w) \/ Trouble(w) \/ Crash(w)
  \/ \E m \in Messages : ClaimExpires(m) \/ ProviderReports(m) \/ Reconcile(m) \/ Reply(m)
  \/ Operator

OutreachSpec == OutreachInit /\ [][OutreachNext]_outreachVars

(* The worker loop calls the delivery lane for ever and time goes on; the  *)
(* operators, the provider and the faults promise nothing.                 *)
OutreachFairSpec ==
  /\ OutreachSpec
  /\ \A w \in Workers : WF_outreachVars(Turns(w))
  /\ \A m \in Messages : WF_outreachVars(ClaimExpires(m))

-----------------------------------------------------------------------------
OutreachTypeOK ==
  /\ revision \in RevisionStatuses
  /\ version \in 1..MaxVersion
  /\ delivery \in [Messages -> DeliveryRows]
  /\ worker \in [Workers ->
       [at : {"idle", "claimed", "prepared", "marked", "failing"},
        on : Messages \cup {NoDelivery}, token : Nat,
        verdict : Failures \cup {"none", "cancelled"}]]
  /\ copies \in [Messages -> Nat]
  /\ faults \in 0..MaxFaults

(* An operator who has cancelled a revision sees no further message leave: *)
(* cancelled is final on every path of operators and workers, and a worker *)
(* that claimed, prepared or marked a message before crosses no boundary.  *)
CancelIsFinal ==
  [][(revision \in {"cancelled", "invalidated"}) =>
       revision' = revision /\ copies' = copies]_outreachVars

(* While leases outlast the workers' turns, a claim belongs to one worker:  *)
(* a message the provider's acceptance was recorded for is never shown as  *)
(* unsent, excluded or in doubt again, whatever the operators do meanwhile.*)
RecordedIsShown ==
  \A m \in DOMAIN delivery : delivery[m].record # "none" =>
    delivery[m].status \in
      {"sent", "delivered", "replied", "opted_out", "failed_terminal", "suppressed"}

(* A delivery shown as sent, delivered or answered was taken on by the     *)
(* provider; a completed revision hides no message that is still to be     *)
(* sent or that failed; and until a worker dies or overruns its lease,     *)
(* what was recorded is shown.                                             *)
ShownIsTrue ==
  /\ \A m \in DOMAIN delivery :
       delivery[m].status \in {"sent", "delivered", "replied"} => copies[m] > 0
  /\ revision = "completed" => \A m \in DOMAIN delivery :
       delivery[m].status \in {"delivered", "replied", "cancelled"}
  /\ faults = 0 => RecordedIsShown

(* While no one pauses it, a revision sends each text at most once, over   *)
(* crashes, expired claims, overlapping workers and retries.               *)
TextSentOnce == \A m \in Texts \cap DOMAIN copies : copies[m] <= 1

(* A released message is decided or given up by the operator, whichever    *)
(* worker dies with it.                                                    *)
ReleasedSettles ==
  \A m \in Messages :
    delivery[m].status \in {"queued", "claimed"} /\ revision \in Active
      ~> delivery[m].status \notin {"queued", "claimed"} \/ revision \notin Active
=============================================================================
