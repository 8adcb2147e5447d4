# Stonegate Home Buyers OS: a TLA+ model of its stateful core

Stonegate is a wholesale real-estate workspace: a Next.js client (`src/apps/web`), a FastAPI and
PostgreSQL service (`src/apps/api`) and one background worker (`src/apps/api/app/worker.py`). What is hard
in it is never one request but several actors on the same rows, each in transactions of its own: the
caller's browser, managers, kill switches, webhooks of Twilio, Resend and the signature provider, worker
passes that die or outlive their claims. A mistake means a person is called or texted twice, a contract is
signed that nobody tracks, a deal is sold to two buyers, or a message is lost without a trace. This project
models those parts, checks them with TLC and proves with TLAPS nearly every safety property that the
passing runs check, for the native prospecting dialer, the communication pipelines, the intake of leads and
the work on them, the contract with its signature requests, the offer room and the service's own machinery.

Paths below are relative to `src/apps/api/app/services/` unless they say otherwise.
`PROJECT.json` holds the machine-readable side: components with their status, the runs, the source lines
behind every definition, the faulty variants each property was tried on, the findings and the hazards.

## 1. Inventory

### The dialer

| Component | State it keeps | Operations | Interacts with |
|---|---|---|---|
| Coordinator, `prospecting_dialer.py` | `ProspectingDialSession` (state, current attempt, lease, pause and stop flags, recovery metadata) | start, heartbeat, pause, resume, end, recover, reserve next; company and campaign switch; provider-event reducer; recovery worker | reads entries and attempts, writes attempts, legs and entries at reservation and release |
| Voice calls, `prospecting_voice.py` | `ProspectingDialLeg`, `VoiceCallIntent`, `CallRecord` (provider start state, call ids) | prepare (browser), start and dispatch (cellphone), browser connect, fetch, cancel, hang up, signed callbacks | Twilio; reconciles the session from the leg |
| Completion, `prospecting.py` | `ProspectingAttempt`, `ProspectCallingBatchEntry`, handoffs | start by hand, complete, technical failure, decide handoff, qualification autosave | calls back into the coordinator's wrap-up, which may reserve the next record |
| Manager operations, `prospecting_dialer_operations.py` | command history in session metadata | safe drain, cancel unanswered, release orphan, mark failed, reconcile | the session and its leg, Twilio |
| Acceptance pilots, `prospecting_dialer_acceptance.py` | pilot stages and evidence | authorise, roll back, revoke | stops every session of the pilot |
| Tables, `../models/foundation.py` | check constraints, partial unique indexes | | arbitrate what locks do not |
| Worker loop, `../worker.py` | heartbeat, open failures | runs 27 operations in turn, with backoff | the coordinator's recovery first |

The parts share rows, not messages. A transaction that changes a session locks its row first, then the
leg; starting a session and opening a record by hand have no session to lock and rely on indexes. Two
boundaries cut an operation in several transactions: the provider call of a cellphone start (marker
commit, provider call, result commit) and of a cancel (cancelling commit, provider call, result or
restore commit).

What is hard: which of nine releasing requests may give a reservation back, and when; late, repeated and
reordered evidence against a leg a worker or a manager has closed; flags that wait in JSON metadata for a
wrap-up that may come by another road; a browser that disappears at any point; the grace period and the
confirmation window of the worker. What makes the part correct: no open leg without a live session, no
second disposition, one attempt per caller and entry, no release once the provider may know the call,
exact attempt counts, a session state that tells the truth about its leg, pauses and stops that are kept,
and a shift that settles when its caller is gone.

### Communication, intake and paperwork

| Component | State it keeps | What is hard | Correct when | Module |
|---|---|---|---|---|
| Outreach delivery, `disposition_outreach*.py` | revision, deliveries with their dispatches, claims | claims taken over, two provider boundaries, pause and cancel meanwhile, an acceptance nobody heard | nothing is sent twice or after a cancel, what is shown as sent was sent | `OutreachDelivery` |
| Resend email events, `resend_email_events.py` | stored events with claim, lease and attempts | a webhook and the recovery scan store the same message, leases run out on a busy worker | a message is imported once or handed to a person | `ResendEvents` |
| Delivery reports, same file | the record's status and its time, suppressions | reports in any order, before the record is committed, unlocked reads | the decisive report wins, a bounce suppresses | `ResendLifecycle` |
| Texts of the inbox, `messaging.py` | dispatch, record, stored reports, suppression | the text leaves between two commits, its reports overtake the second | one text per key, every report counts, a STOP holds | `ConversationTexts` |
| Photos of a text, `twilio_mms.py` | event with lease, stored photos | every photo is a commit, and the first gives up the lock | all photos, within the size, or a verdict | `MmsMedia` |
| Seller intake, `public_intake.py`, `meta_lead_ads.py` | leads, contacts, submissions, form events | a placeholder lead is merged and deleted while others read it | who submitted has a lead, a seller has one per place and asset class | `SellerIntake` |
| Work on a lead, `leads.py`, `lead_lifecycle.py`, `acquisition_operations.py`, `tasks.py`, `inbox.py`, `ai_operations.py` | stage and archive mark, tasks, appointment, follow-up plan, deal, the AI brief | a dozen operations add work while another closes the lead out; the seller's own contacts reopen it | a closed-out lead rests, no contact is lost | `LeadWork` |
| Staff alerts, `staff_lead_alerts.py`, `meta_lead_ads.py` | one row per kind and recipient | a crash or a lost answer between the provider and the row, requeue, ordering | told in order, and nothing twice without cause | `StaffAlerts` |
| BatchDialer import, `batchdialer_direct.py`, `batchdialer_campaign_mapping.py` | event with its result, review requests, polling lease | reports are corrected while a worker judges and a person decides | a lead rests on the evidence on file | `BatchDialerImport` |
| E-signature and contract authority, `esign.py`, `transactions.py`, `contract_authority*.py` | transaction, packages, signature requests | a send is three transactions around two provider calls, lost answers, webhooks first | whatever can be signed is tracked, on the authority it was drafted on | `ContractEnvelope` |
| Offer room, `disposition_offer_room.py` | case, offers, coverage, assignment, checkpoints | five commands write the primary buyer, an assignment binds it | one buyer holds the deal, and is credited once | `OfferRoom` |
| Worker loop, `../worker.py`, `operations.py` | failures with backoff, heartbeat | one loop for everything, a second thread reports for a first that may hang | everyone has a turn, silence is reported | `WorkerLoop` |
| Rate limiter, `request_rate_limit.py` | times per client | eviction at its limit | exact unless it had to forget | `RateLimiter` |

What the table leaves out of a component is in section 6. `PROJECT.json` lists all components with their
status, and the hazards of the code at their lines.

### How the parts interact

They share rows, not messages. A request, a webhook and a turn of the worker are transactions on the same
PostgreSQL tables, fenced by row locks, by partial unique indexes and by tokens or statuses that a later
transaction of the same piece of work compares. What crosses a provider boundary is cut in at least two
transactions, and in most pipelines the first one commits an uncertain state ("sending", "processing",
"dispatching") that the second one, a webhook or a recovery pass must resolve. The worker runs every
pipeline in one loop, one unit of work per operation and sweep; two workers overlap only while a deployment
replaces one by the other, which is the case the two-worker instances stand for.

## 2. Modules

    DialLeg                        vocabulary and pure reducer of one call leg
      DialCoordinator              the dialer: sessions, attempts with their legs, entries
        DialRecovery               fairness of the worker, liveness
        DialReservations           refinement mapping to ...
          ReservationContract      ... what the dialer promises about calling records
        DialClaims                 a sentence of the repository the dialer does not keep
        MCDialCoordinator          instances for TLC (extends DialRecovery and DialClaims)
        DialCoordinatorProofs      TLAPS: the inductive invariant; what a step may do to calls, lines,
                                   states and pauses; exact counts, one record at a time, and the
                                   refinement (extends DialReservations)
      MCDialReservations           instance for the refinement

    OutreachDelivery               a revision of buyer outreach: operator, workers, two providers
      OutreachClaims               the promise on duplicate texts it does not keep
      OutreachDeliveryProofs       TLAPS
    ResendEvents                   stored e-mail events: webhook, recovery scan, claims, review
    ResendLifecycle                delivery reports of one outbound e-mail
    MmsMedia                       photos of a received text
      InboxProofs                  TLAPS, of the three modules above
    ConversationTexts              texts of the inbox, their reports, STOP and START
      ConversationTextsProofs      TLAPS
    SellerIntake                   website journeys and Facebook forms of one seller
    StaffAlerts                    texts to the staff about a new lead
    LeadWork                       close-out, reopening and the work on one lead, its AI brief
    WorkerLoop                     the sweep over the operations and its health reports
    RateLimiter                    the request limiter
      ServicesProofs               TLAPS, of the five modules above
    BatchDialerImport              a call of the external dialer on its way to a lead
      BatchDialerImportProofs      TLAPS
    ContractEnvelope               contract packages and their signature requests
      ContractEnvelopeProofs       TLAPS
    OfferRoom                      offers, coverage and the assignment of one disposition
      OfferRoomProofs              TLAPS

    MCDeliveries  = OutreachDelivery | ResendEvents | ResendLifecycle | ConversationTexts
                    | MmsMedia | BatchDialerImport
    MCSettles     = OutreachDelivery | ResendEvents | WorkerLoop | ConversationTexts | MmsMedia
                    | BatchDialerImport, each under its fairness
    MCServices    = RateLimiter | WorkerLoop | SellerIntake | StaffAlerts | LeadWork
    MCDeals       = ContractEnvelope | OfferRoom

A module whose name begins with `MC` below the line is a sum: the components in it share no row that the
models keep, so a behaviour is one of one instance (`unit`) while the others rest in their initial states.
One component may have several instances (units) with different bounds. `MCDeliveries`, `MCServices` and
`MCDeals` extend all of their components, so that the runs check the very definitions the theorems state;
hence every component has names of its own for its initial predicate, its next-state relation and its claims
(`MailInit`, `ClaimNotice`, `MediaNext`, ...). Further units of a component instantiate it again with other
constants and the same variables. `MCSettles` instantiates them with the smaller constants liveness needs.
`In(u, A)` of an MC module is "unit u takes the step A, the others stutter"; a property names the unit it is
about.

A note on composition: where components do share state the model holds both. The dialer's module is the
coordinator, the voice calls, the completions, the manager's commands and the worker's recovery on common
rows; `ContractEnvelope` holds lead, transaction, packages, signature requests and the provider's
documents; `OfferRoom` holds case, offers, coverage, assignment package and close; `SellerIntake` runs
website journeys and Facebook forms against the same lead, contact and place.

### State and actions of the dialer

| Variable | Code |
|---|---|
| `session[s]` | a `ProspectingDialSession` row: `state`, `cur` = current_attempt_id, `pause` and `stop` = the two *_after_current flags, `orphan` and `orphanLeg` = the worker's orphan metadata. `lease` abstracts the two clocks: `live`, `expired` (lease_expires_at passed), `stale` (heartbeat_at older than the threshold as well) |
| `attempt[a]` | a `ProspectingAttempt` joined with its leg: `status` (`seller` and `technical` split "completed" by how it was completed), `entry`, `by` = the session that reserved it, `leg` = the leg's status, `call` = provider_start_state and call ids (`none`, prepared for browser or cellphone, `dispatching`, `placed`), `talked` = connected_at is set, `undo` = the status a cancel in flight would restore, `snap` = reservation_snapshot |
| `entry[e]` | a `ProspectCallingBatchEntry`: `status`, `due`, `converted` (its prospect has a lead), `count` = attempt_count |
| `switchOn` | company and campaign switch together: every reader requires both |
| `starting`, `gone` | start requests that have read the switch; browsers that will send nothing more |

| Action | Code |
|---|---|
| `StartRead`, `StartCommit`, `StartRefused` | `start_dial_session`, split where its policy reading ends, since nothing is locked before the insert |
| `Heartbeat`, `HeartbeatKill`, `Pause`, `Resume`, `End`, `Recover`, `ReserveRequest` | the session requests; a kill is found by the heartbeat |
| `CompleteSeller`, `CompleteTechnical` | `complete_attempt`, `complete_technical_failure`, wrap-up and next reservation included |
| `StartManual`, `CompleteManual`, `DecideHandoff` | the same tables worked by hand |
| `SwitchOn`, `SwitchOff`, `PilotRollback` | switches and `_disable_pilot_scope` |
| `ManagerStop`, `ManagerCancel`, `ManagerRelease`, `ManagerMarkFailed` | `prospecting_dialer_operations.py`; its reconciliation is a `ProviderEvent` |
| `PrepareCall`, `Dispatch`, `Place`, `StartFails`, `LateRootCallback`, `Abandon` | a call from preparation to the provider; every commit of `dispatch_prepared_voice_call` is a step of its own |
| `ProviderEvent` | evidence through `record_dial_provider_event`, `reconcile_provider_result` or a manager; what the reducer ignores changes nothing |
| `Cancel`, `CancelRefused`, `CancelForgotten` | the two halves of a cancel, and a process that dies between them |
| `WorkerExpiresIdle`, `WorkerKeepsWrapUp`, `WorkerPreserves`, `WorkerFailsStart`, `WorkerOpensGrace`, `WorkerReleases` | the branches of `process_next_prospecting_dialer_recovery` |
| `LeaseExpires`, `HeartbeatAges`, `GraceElapses`, `EntryFallsDue`, `CallerLeaves` | time and people |

Abstractions of the dialer:

* A rejected request changes nothing and is no action. Policy blockers that are not modelled (hours, daily
  cap, spend, profile, line, cohort, recipient) may refuse at any time: no action a policy guards has
  fairness, a wrap-up may always end paused, and `HeartbeatKill` may happen with the switch on.
* Candidate order (callback, correction, retry, new) is any order, and `QueueExhausted` may happen with
  candidates left, since phone and recipient checks may skip all of them.
* An ended session keeps no flags: nothing reads them again.
* A caller has one batch; prospect and entry are one. Lease tokens, tabs and idempotency receipts are left
  out: a request is the current tab's or is refused.
* The branch of the worker for a current attempt without a leg is left out: reservation inserts both and
  nothing deletes a leg. The branch of `complete_native_wrap_up` for a manager's disposition is left out
  too: `locked_control_session` refuses everyone but the session's caller, so the behaviour
  docs/VA_DIALER_ROADMAP.md:765-766 describes is not reachable.
* Evidence may be any status Twilio reports in any order, including orders Twilio would not produce.
* `LateRootCallback` takes `initiated` and `ringing`; stronger first evidence is the same binding followed
  by a `ProviderEvent`.
* `StartManual` is one step, although `start_attempt` reads the entry before it writes (prospecting.py:469-563).
  Of two attempts of one caller or on one record the partial unique indexes refuse whichever commits second
  (`../models/foundation.py`:684-698); that a record is reserved and decided between the two statements is the
  window the model does not have.


### State and actions of the other modules

Every action is one database transaction, or one call to a provider, of the code it names; a worker's turn
is cut where the code commits. The comment above each action names its function, `PROJECT.json` its lines.

| Module | State | Actions |
|---|---|---|
| `OutreachDelivery` | `revision`, `version`: status and lock_version of the revision; `delivery`: status, attempt, processing token, age of the claim, its dispatch and communication record, reply; `worker`: step and message of each worker; `copies`: what the provider has taken (history); `faults` | an operator's commands (approve, release, pause, resume, cancel, retry, redraft); a worker's turn (claim, preflight, the boundary commits, the submissions, the recorded results, the failures) gathered in `Turns`, `Trouble`, `Crash`; `ClaimExpires`, `ProviderReports`, `Reconcile`, `Reply` |
| `ResendEvents` | `letter`: the event with status, attempts, claim token, lease, route; `imported`; what each `reader` and `admin` holds; `cases`: decisions so far | `MailWebhook`, `RecoverMail`, `Reads` (`ClaimMail`, `Exhaust`, `Route`, `Finalize`, `RecordFailure`), `MailTrouble`, `ReaderDies`, `MailLeaseExpires`, `RequeueDeadLetter`, `ReadException`, `ResolveException` |
| `ResendLifecycle` | `account`: status and provider_status_at of the record; `banned`: the recipient is suppressed; `notice` per report; what each `teller` has read | `Commit`, `Arrive`, `ClaimNotice`, `ApplyNotice`, `RetryNotice` |
| `ConversationTexts` | `dispatch`, `record` and `sent` per idempotency key; `sender`; `report`: status, attempts, holder, lease; `clerk`: what an applying transaction read; `suppressed`, `heard` | `Begin`, `CancelClosed`, `Submit`, `MarkFailed`, `Record`, `SenderDies`; `Webhook`, `Claim`, `ClaimOrphan`, `Recover`, `Apply`, `Unmatched`, `Fail`, `ClerkDies`, `LeaseExpires`; `Hear` |
| `MmsMedia` | `size`: the photos of the message that came; `media`: the event with holder, attempts and lease; `stored`; `keeper`: a worker, the photos it knows as stored, its row lock | `Keeps` (`ClaimMedia`, `BeginMedia`, `Store`, `Finish`, `Reject`, `FailMedia`), `Die`, `MediaLeaseExpires` |
| `SellerIntake` | `leads`, `contacts`, `submission`, `form`; `request`: what a transaction in flight has read | `Step1`, `ReadForm`, `Step2`, `Commit`, `Fail`, `MarkProcessed`, `NeedsReview`, `ClaimForm`, `Receive`, `FiveMinutes`; of the staff and the voice agent `Use`, `Own`, `Close`, `Reclassify` |
| `StaffAlerts` | how far the lead is (`stage`, `facebook`, `recent`); `eligible`, `configured`; `row` per kind and recipient; `outcome` of each text; `sends`: a worker's place and row locks; `unanswered`, `excused` (history) | `Visit`, `FacebookLead`, `Configure`, `ChangeStaff`, `DayPasses`, `Requeue`, `Sends` (`Sweep`, `Pick`, `Take`, `Accepted`, `Refused`), `SenderDies`, `Backoff`, `Report` |
| `LeadWork` | `lead`: stage, archive mark, not-a-lead mark; `primary`, `others`: open tasks; `plan`, `appointment`, `deal`; `closing`: the close-out between its time of closing and its commit; `contact`: each text or call and its side of that time; `brief` and what each `worker` does | `Lifecycle` (close out, mark, undo, reopen, archive, stage), `Works` (task, appointment, plan, approval, hand-off, deal, review), `Seller` (`Arrive`, `Handle`, `MissCall`), `Background` (`Enqueue`, `Claim`, `BriefAges`, `Finish`, `Crash`) |
| `BatchDialerImport` | `cdr`: what the provider says now; `event`: archived report, claim, result; `mapped`; `reviews`; `lease`; `importer`: a worker and what it has read; `said` (history), `budget` | `ProviderCorrects`, `MapCampaign`, `UnmapCampaign`; `Fetch`, `Archive`, `PollFails`, `PollLeaseExpires`; `ClaimCall`, `Judge`, `CallCrash`, `ClaimAges`, `ClaimOutrun`; `ApproveCall`, `RejectCall`, `CancelCall` |
| `ContractEnvelope` | `leadOpen`, `deal`, `authority`, `package`, `envelope`; `paper`: the provider's document; `raised`, `taken`: its events; `desk`: where each request is | the deal (`NewAuthority`, `RequestPlan`, `ArchiveLead`, `RestoreLead`, `Fund`, `Cancel`); packages (`CreatePackage`, `RequestApproval`, `Decide`, `MarkSent`, `MarkExecuted`, `ImportExecuted`, `Withdraw`); a send (`Reserve`, `Resume`, `Look`, `Create`, `CreateFails`, `SaveDraft`, `MarkSending`, `Send`, `SendFails`, `Record`, `Crash`); repair (`Reconcile`, `Attach`, `Abandon`); the provider (`PaperMoves`, `Webhook`) |
| `OfferRoom` | `room`: the case; `offer`, `coverage`, `assignment`, `closing`, `history`; `screen`: what a representative has read | `ReadWorkspace`, `CreateOffer`, `ReviseOffer`, `RecordNegotiation`, `SelectBuyers`, `ReopenShopping`, `ReplacePrimary`, `RecordOutcome`, `SyncCheckpoints`, `SettleDeposit`, `DraftAssignment`, `PassGate`, `TakeBack`, `CloseFunded`, `CancelDeal`, `ReconcileDeal` |
| `WorkerLoop` | `loop`: where the main thread is; `failure`: open failure rows and backoff; `heartbeat` | `Steps` (register, start, run, complete, raise, record, advance), `Touch`, `Hang`, `ProcessDies`, `HeartbeatThread`, `Tick` |
| `RateLimiter` | `requests`: the deques of the tracked keys; `before`: their order in the dictionary; `now`; `passed`, `asked`, `told` (history) | `Check` (`Pass` or `Refuse`), `TimePasses` |

What these models abstract:

* Time is an event (`LeaseExpires`, `ClaimAges`, `FiveMinutes`, `DayPasses`), never a clock, except in
  `RateLimiter` and `WorkerLoop`, whose arithmetic is the subject.
* Contents (a message, a document, an address, a transcript) are members of small sets, and a check of
  content (eligibility, a content hash, a qualification verdict) is a free choice of its results.
* A row lock held over a provider call or a commit is state (`locks`, `Busy`); one held within a transaction
  is the atomicity of the action.
* An unlocked read that a later write relies on is kept as what the actor `saw`, and the write changes the
  columns that differ from it, which is what the ORM's flush does.
* A check of the rate limiter is one instant. The code reads the clock just before it takes the lock, so two
  checks of one key may be served in the other order than they were timed; the model has them in order.
* The provider may accept and not be heard, report in any order, and repeat itself, as far as the code
  deduplicates it. It does not invent messages.
* Where a check and its write lie in one request without a lock on the row between them, and nothing the
  properties tell apart can come between, the two are one step: `OutreachDelivery.Reply` (the webhook's copy
  of the delivery, disposition_outreach_delivery.py:1423-1432), `ContractEnvelope.CreatePackage` and
  `SaveDraft` (transactions.py:571, esign.py:604), `Complete` and `Quarantine`, which look at the row's
  present `filed` and not at the copy of a few statements earlier (esign.py:2130, 2298), and
  `StaffAlerts.Report` (messaging.py:1051). In each a window of one request remains that the model does not
  have.
* What a reader might miss and cannot happen: `ApplyNotice` finds its record's dispatch, because one
  transaction commits both (email.py, disposition_outreach_delivery.py); `Decide` asks for an open lead although
  `apply_contract_decision` does not, because `decide_approval_request` is its only caller (approvals.py:94-112)
  and every contract approval names its lead (transactions.py:750).
* `OfferRoom` has one money state for a deposit that is due with and without a date, and leaves out how
  `CloseFunded` adopts a close that is older than the offer room (disposition_offer_room.py:3116-3195).
  `LeadWork.BeginClose` does not look for an active disposition case (leads.py:4498-4513): it allows more
  close-outs than the code.
* `Step1` of the intake routes a new placeholder to an owner or finds no active member of the Acquisitions
  team (`apply_acquisition_stage_routing`); which member it is, and the events it writes, are one mark,
  `owned`, which is what `can_discard_address_only_placeholder` asks for. The class a lead was sought by and
  the one it carries are kept apart by the history variable `astray` (see section 5).
* The writes of the worker's loop at the end of a turn and of a sweep may fail and are only logged
  (worker.py:302-317, 325-341): `MarkFinished` and `Beat` may leave the heartbeat as it was.

## 3. Runs

| Run | Instance | Shows |
|---|---|---|
| `dial_solo` | 1 caller, 2 sessions, 2 entries, 2 attempts, both modes, all outcomes | `OpenLegHeld`, `CurrentIsUndecided`, `OneAttemptAtATime`, `StateMatchesLeg`, `NeverReleasedAfterDispatch`, `PauseRespected` |
| `dial_pair` | 2 callers, one session and entry each, 2 attempts, one line | `CapacityRespected` |
| `dial_history` | 1 session, 1 entry, 3 attempts, at most 2 seller attempts | `TypeOK`, `CountExact`, and `ImplementsContract`: the coordinator refines `ReservationContract` |
| `dial_recovery` | 1 session, 1 entry, 2 attempts, a caller who may disappear | `AbandonedShiftSettles` |
| `deliveries` | the units of `MCDeliveries` | nothing is shown as sent that was not, or sent twice, or after a cancel (`ShownIsTrue`, `TextSentOnce`, `SentOncePerKey`, `EndedStaysEnded`, `StopHolds`); reports and bounces count (`ReportsKept`, `Converges`); imports are complete, rest on what is on file and leave nothing to decide that nobody can (`ImportsTrue`, `PhotosKept`, `LeadRestsOnEvidence`); `RowsTyped` |
| `settles` | the units of `MCSettles`, each under its fairness | everything started in the background ends: `ReleasedSettles`, `EveryMailAccounted`, `ImportsSettle` (reports of texts and photos too), `EveryLaneHasItsTurn` (and its silence is reported) |
| `services` | the units of `MCServices` | `LimiterExact`; `SilenceShows`; `ClosedLeadRests`, `NoContactLost`; `OneLeadPerSeller` (and who submitted has one); `AlertsInOrder` (and nothing twice without cause), `ClosedByItsOwnText`; `RowsTyped` |
| `deals` | the units of `MCDeals` | `OneSignable`, `SignableIsTracked` (none of a cancelled transaction either), `ExecutedOnAuthority`; `OneBuyerHoldsTheDeal` (pointers, live assignments, replaced coverage), `CreditedOnce`; `RowsTyped` |
| `claim_*` | the smallest instance with the behaviour | a violation each, see section 5 |

Bounds. The dialer's runs have no bound but the sizes of the constant sets: there is no state constraint.
Attempts are the resource that ends a behaviour; two let a record be worked on, given back or retried while
the session goes on, a second session follow a first whose attempt was left behind, and two callers compete;
three let a record pass the seller-attempt limit with a technical failure in between, which is what counting
and the contract are about. One line is the limit the code enforces (`effective_lines != 1` is refused).
`dial_pair` narrows modes and outcomes, which its property does not look at.

The other components have counters and environments that would go on for ever; each bound is a constant of
its module:

| Bound | Instances | Why it is enough |
|---|---|---|
| `MaxVersion`, operator commands on a revision | 5 (an e-mail and a text), 6 (one text, or no faults) | approve, release, pause, resume and cancel, or a second release after a failure and its retry, with a worker in between |
| `MaxFaults`, crashes and claims that run out on a busy worker | 1 and 3 for outreach, 0 and 1 for the dialed call | one lets another worker take over; three crash the original, its successor and the recovery. A claim needs as many faults as it has successors |
| `Controls`, `Refusals`, `Blocks`, `Emitted`, `Terms`, `Reasons`, `Strategies` | subsets per unit | units divide the alternatives between them, so that each alternative occurs with everything it interacts with |
| `MaxAttempts`, `EventAttempts`, `NoticeAttempts`, `MediaAttempts`, `FormAttempts`, `AlertAttempts`, `MaxRetries`, `MaxFetches`, the code's own limits | 1 to 3 instead of 3 to 8 | a first, a middle and a last attempt where the middle matters |
| `MaxReviews`, `MaxTexts` of the website's alerts, `MaxChanges`, `MaxAuthority`, offers' `MaxVersion`, `MaxSelections` | 1 or 2 | a first and a second of each: the second is stale for who read the first |
| `MaxTexts` of a Facebook alert | `AlertAttempts` + 2 | lost answers use up the attempts, and a text more shows that they are not exceeded; a manager's requeue on top |
| `MaxTime` | 5 parts with windows of 4 | one whole window and the beginning of the next |
| `Notices`, `Received` | five reports that disagree on the end; two messages of three photos | one of each rank and three recipients' ends; one message that fits and one that does not |
| `Leads`, `Requests` | 3 rows and one transaction (`intake`, `land`), 2 rows and two transactions (`rush`) | as many as two journeys and a form of one seller can make; with overlapping transactions, one row to delete and one to merge into |
| `AssetClasses`, `Journeys` | one class and two journeys, or two classes (`land`) and one | a place that is taken for a house and for land, by a visitor and a form |
| `Readers`, `Admins` | 2 and 1 (`mailbox`), 1 and 2 (`managed`) | workers that overtake each other; managers who route the same event |
| `Contacts`, `Calls` of a lead | 2 unanswered calls; 1 call or text beside the pursuit and the brief | one before and one after a close-out, in either order |
| `Pollers` | 1 of the 2 workers | the polling lease admits one; the other is left to judge |

Two workers are the deployment's own number (a new container starts before the old one stops). The text of a
revision is shown to leave once with two of them and three faults, and proved to with any number of faults. A
third worker, which this deployment does not run, would be another matter: see section 5.

The runs have 0.1 to 3.5 million distinct states. Deadlock is not checked: once the attempts are used up,
the messages delivered or the bounds reached, a system may rest, and in a sum one unit's rest is the whole
behaviour's. Symmetry is over attempts, entries and sessions of one caller (and over whole callers with what
belongs to them in `dial_pair`), over workers, requests, staff and offers elsewhere; the temporal runs and
the claims use none.

### Fairness

The dialer's `FairSpec` asks for weak fairness of the worker's pass over each session and of the clock. The
worker loop polls for ever and each pass takes the stale session whose lease ran out first; a pass ends the
session or makes it ineligible, so no stale session waits for ever. The exception is the confirmation
window of a dispatched call: passes preserve such a session while the window is open and only the clock
closes it, hence strong fairness of `WorkerFailsStart`. Callers, managers and Twilio owe nothing.

The other pipelines ask for the same two things: that a worker that can go on with its turn does (weak
fairness of `Turns`, `Reads`, `Keeps`, `Recovers`, `Judge`: the loop visits every operation in every sweep,
which is what `EveryLaneHasItsTurn` shows of the loop itself), and that a lease that runs out is seen to have
run out (weak fairness of `LeaseExpires`, `ClaimExpires`, `ClaimAges`). Faults owe nothing and are bounded
only by `MaxFaults` or by the attempts the code counts. The recovery scan of the mailbox is fair because it
runs in every sweep, so a message whose webhook is lost is still found. Polling the dialer and claiming its
calls is strongly fair: both are enabled again and again only, since a lease or a claim of the other worker
disables them, and a provider that failed for ever would keep its calls to itself. `WorkerLoop` asks that the
main thread goes on unless it hangs or dies, that its operations do not all raise for ever, and that time
passes.

## 4. Proofs

For all values of the constants that satisfy each module's assumption TLAPS proves:

| Module | Theorem | Statement |
|---|---|---|
| `DialCoordinatorProofs` | `Invariance` | `Spec => []IInv` |
| | `TypeCorrect` | `Spec => []TypeOK` |
| | `NoOrphanLeg` | `Spec => []OpenLegHeld` |
| | `NoDoubleDisposition` | `Spec => []CurrentIsUndecided` |
| | `NoReleaseAfterDispatch` | `Spec => NeverReleasedAfterDispatch` |
| | `LineCapacity` | `Spec => []CapacityRespected` |
| | `StatesMatchLegs` | `Spec => []StateMatchesLeg` |
| | `PausesHold` | `Spec => PauseRespected` |
| | `OneRecordAtATime` | `Spec => []OneAttemptAtATime` |
| | `BooksKept` | `Spec => []Books` |
| | `CountsExact` | `Spec => []CountExact` |
| | `Implements` | `Spec => ImplementsContract`: the coordinator refines `ReservationContract` |
| `OutreachDeliveryProofs` | `OutreachTypes` | `OutreachSpec => []OutreachTypeOK` |
| | `ShownAreTrue` | `OutreachSpec => []ShownIsTrue` |
| | `TextsLeaveOnce` | `OutreachSpec => []TextSentOnce`, for two workers and without pauses |
| | `CancellationIsFinal` | `OutreachSpec => CancelIsFinal` |
| `ConversationTextsProofs` | `SentOnce` | `Spec => []SentOncePerKey` |
| | `ReportsAreKept` | `Spec => []ReportsKept` |
| | `StopIsKept` | `Spec => StopHolds` |
| `InboxProofs` | `ImportsAreTrue` | `MailSpec => [](MailTyped /\ ImportsTrue)` |
| | `FinishedEventsStay` | `MailSpec => FinishedStays` |
| | `ReportsConverge` | `NoticeSpec => []Converges` |
| | `PhotosAreKept` | `MediaSpec => []PhotosKept` |
| | `MediaStaysEnded` | `MediaSpec => MediaEnds` |
| `ServicesProofs` | `ClosedLeadsRest` | `Spec => []ClosedLeadRests` |
| | `ContactsAreHeard` | `Spec => []NoContactLost` |
| | `SubmissionsKeepOneLead` | `IntakeSpec => []OneLeadPerSeller` |
| | `AlertsKeepOrder` | `AlertsSpec => []AlertsInOrder` |
| | `OldReportsCloseNothing` | `AlertsSpec => ClosedByItsOwnText` |
| | `LimiterIsExact` | `LimiterSpec => []LimiterExact` |
| | `SilenceIsShown` | `LoopSpec => []SilenceShows` |
| `ContractEnvelopeProofs` | `SignableStaysTracked` | `Spec => []SignableIsTracked` |
| | `OneDocumentOut` | `Spec => []OneSignable` |
| | `ExecutionsAreAuthorized` | `Spec => ExecutedOnAuthority` |
| `OfferRoomProofs` | `OneBuyer` | `RoomSpec => []OneBuyerHoldsTheDeal` |
| | `LiveAssignmentsStayBound` | `RoomSpec => []LiveAssignmentIsBound` |
| | `ReplacedCoverageIsSettled` | `RoomSpec => []SupersededIsSettled` |
| | `CreditsAreFinal` | `RoomSpec => []CreditedOnce` |
| `BatchDialerImportProofs` | `LeadsRestOnEvidence` | `CallSpec => []LeadRestsOnEvidence` |
| | `RejectionsHold` | `CallSpec => RejectedStays` |

What each module assumes of its constants is its `ASSUME`, or the hypothesis `Instance` of its theorems: that
an absent value is none of the others, that bounds are numbers, that a provider's vocabulary is the one the
code knows; of the limiter also that it has finitely many keys and room for at least one. Nothing is assumed
about the sizes of the sets, except where the table says so: the theorem about outreach with a condition,
which sections 3 and 5 give the reason for. Three properties have a condition of their own, which the
theorems keep: `OneLeadPerSeller` promises one active lead for a place and class while transactions do not
overlap and among leads that have the class they were sought by, `Converges` the decisive report for one
worker and times that agree, and `ShownIsTrue` speaks of recorded acceptances until the first fault. Section
5 says what happens otherwise.

The dialer. The inductive invariant is `IInv == TypeOK /\ OpenLegHeld /\ CurrentIsUndecided /\ Native`.
Neither of the two safety parts is inductive alone: that a stop leaves no open leg behind needs that the
session holds its own attempt, and that holding survives a release needs that no other session holds the
same attempt, which `CurrentIsUndecided` gives through `by`. `Native` says that an attempt without a session
has no leg and no call, so a record opened by hand is never taken for a reservation. The proof first states
what each row update keeps (type, status, owner) as lemmas, then one lemma per shared transaction
(`ReleaseKeeps`, `StopOrDrainKeeps`, `ReserveNextKeeps`, `WrapUpKeeps`, `MirrorKeeps`), then one per family
of actions; `InvariantStep` puts them together.

The module shows next that every step from a state of `IInv` is `Careful`: it cancels no attempt
whose call is dispatching or placed, and it leaves the open legs within the old ones or within the line. The
first half rests on the checks before each release (`Idle`, the unsafe sessions of a rollback, the prepared
browser call of an abandonment) and on `CurrentIsUndecided`, by which what a session holds is what it
releases; the second on `LineFree`, on `Settled`, by which a wrap-up counts the legs it has left, and on no
evidence reopening a leg. `CapacityRespected` then follows by induction with the finite-set lemmas. It shows
too that every session fits its leg (`AllFit`) together with `UndoOpen`: the status a cancel in flight would
restore is an open one. Without it a refused cancel could put back a status the session's state no longer
describes. `PauseRespected` follows from what every transaction does: an attempt only moves onward
(`Forward`), the flag is set only on a session whose call has begun, and a session that lets go of its
record with the flag set is paused or ended with nothing in hand (`Heeds`, one lemma per way a session is
written). That needs one more invariant, `Noted`: a flag that is set belongs to a call that has begun, and a
cancel that can be undone was of a placed call, so that no refused cancel puts a flagged session back before
its call.

The part about the contract rests on one fact about every transaction: it moves each attempt at most one stage
onward, and adds one to a record's count exactly when it decides an attempt on it (`Booked`). A release
writes the count back from the reservation's snapshot, so `CountExact` needs to know that no decision can
have come between: `Books == AllRemember /\ OneAttemptAtATime`, where `AllRemember` says that a reservation
in progress carries its record's present count. That nobody else works on the record meanwhile is
`OneAttemptAtATime`, proved first: a step takes up at most one attempt (`TakesUp`), only of a caller and an
entry that have none open (`Exclusive`), and everything else only lets go (`LetsGo`). From `Books`,
`CountExact` follows with the cardinality of a set that gains at most one element, and the refinement
because a step that moves one attempt a stage onward is a step of the contract, and one that moves none is a
stutter.

Outreach. Everything a worker does after its claim is one of eight outcomes (`TurnIs`), which are stated once
by what they leave of the row, of the worker and of the copies (`Outcomes`); every operator's command is a
change of unsent rows (`Commanded`), and every step of the provider's side one of a single row (`Touched`).
Three invariants of different strength rest on that. `IInv` holds always: a row that tells of an acceptance is
about a message that left (`Telling`), and a completed revision has only messages that succeeded or were
cancelled. `CancelIsFinal` follows, since the summary keeps an operator's status and no boundary is crossed
out of an active revision. `RecordInv` holds until the first fault (`faults = 0`), that is while no worker has
died or outrun its lease: a message in work is one worker's and not accepted yet (`InHand`), so nobody writes
over an acceptance. The two together are `ShownIsTrue`. `TextInv` holds over any number of faults, for two
workers and while nobody pauses. `Marked` says that the workers that marked a text before its submission hold
different claims' numbers, all older than a claim that is under way, so at most one is `Armed` with the row's
own number. `Spent` says what a submission leaves behind: a dispatch no preparation passes, no armed worker,
and, if another worker still has the text prepared from an earlier claim, a row out of play and nobody who
could bring it back into play.

Texts. `TextsInv == Typed /\ OwnKey /\ OwnReport /\ OneEnd /\ ReportsKept`: a request under way has its key to
itself and has submitted nothing before (`OwnKey`); a transaction that applies a report holds it alone
(`OwnReport`); a text has one report that ends it, and its dispatch shows one only when it was applied
(`OneEnd`). Without the last part a report could be counted and then overwritten by one of a lower rank.
`StopHolds` is an action property of the single step.

Mail. `ImportInv == MailTyped /\ InHand /\ DoneIsImported /\ Paid`: what a worker is about to write has
happened (`InHand`), and every claim was paid with an attempt, or with the budget a manager's decision gave
back (`Paid`), which bounds a message that always fails. `ImportsTrue` is the two that matter.
`FinishedEventsStay` goes through every writer: the inbox only grows (`InboxGrows`), claims, recoveries and
dead letters are of events that are not finished, a worker that finishes or fails writes only under its claim,
and a finished event has none. There remains the manager who routes an event by hand. The request has
read the event as parked and commits without looking again, so of two managers who route the same event the
second reopens what was processed by the first one's decision; the theorem says that this is the only way,
and that it is an event that very request had read (`ResolveTakesItsOwn`).

Delivery reports. `Shows(a, R)` says that of the reports R that were applied, the record a shows the one that
leads them: the last of the final ones, or else the one furthest along. Every application turns `Shows` for R
into `Shows` for R and the report, which is a case distinction over `should_apply_status`; it uses that one
worker knows what the record shows (`KnowsAccount`), and that a report further along does not carry an
earlier time, since a time that is passed stands in the way of it. Neither can be left out. What remains with
any number of workers is that an applied bounce suppresses, which its own transaction does in any case.

Photos. `PhotosInv`: what is stored is always a beginning of the message (`Leading`), and so is what each
worker believes to be stored, which is no more than that (`Knows`). A worker that was overtaken stores the
next photo after those it knows; if its successor has it already, the unique index refuses. So a photo that
is stored was measured together with all photos before it, and no two workers can exceed the limit between
them. A worker closes the event as processed only when the photos it knows are all, and only with the claim.

Leads. `IInv == RowsTyped /\ ClosedLeadRests /\ ClosingIsFree`. The close-out looks for a deal first and
cancels the rest of the work at its commit; `ClosingIsFree` says that what it looked at still holds then,
which is the lead's lock at work. Every other operation leaves the lead in a stage that is not terminal
(`OpenLeadHolds`), adds nothing to a closed one (`SellerHolds`, `BriefHolds`), or cancels a deal, which a
closed-out lead does not have. `RowsTyped` leaves out the counters and contacts, so no assumption on the
constants is needed. `NoContactLost` has an invariant of its own, `Heard`: while a close-out is between its
time of closing and its commit, a contact that came after that time and has been taken up finds the lead
closed already and the close-out about to mark nothing; other contacts wait for its lock. Without this part
a contact handled in that window would be buried by the commit.

The contract. `SignableIsTracked` speaks of a document at the provider and of our row of it, which are
changed by different actors and never together. The invariant says what either side may conclude:
`Filed(e)` for a request's row (a row with a saved provider id has a document, a row without one has none
that can be signed, a finished row or a final report in the mail has a closed document), `Informed(s)` for a
member of staff between two steps of a send (who is creating is alone and has no document yet; a final
report that was fetched is of a closed document), `Single` for a package (of its requests all but one are
dormant) and `Retired` for a cancelled transaction (everything is dormant or gone). `Single` is what makes
the rest inductive: without it a late report of an old request could release the package while a new request
is being signed. Dormant is not closed: a request abandoned before its document was known stays dormant
because its id can never be saved. The proof states for each write of a request's row, of the document and
of the desk which parts it can disturb, then has one lemma per action. `ExecutedOnAuthority` follows from
the guards of the actions that execute a package.

A first attempt to prove this failed for a reason in the model: `MadeUncertain` here, a stage of
`DialReservations` and `Lost` of `StaffAlerts` had CASE expressions with overlapping guards, of which TLC
takes the first and the logic any. They are nested conditions now, in the order the code tests them.

The offer room. `OneBuyerHoldsTheDeal` has three parts, and none is inductive alone. `OnlyLast` says that
only the selection made last may be active, so that "the current selection" is a position in the sequence;
`Pointers` that the case, that selection and the offers' statuses agree; `LiveAssignmentIsBound` carries the
chain of superseded selections from the one an assignment was drafted on to the current one. Steps come in
two kinds. A quiet step leaves selections, pointers, obligations and credits as they are, and `QuietStep` is
proved once for all commands of that kind; the approvals of coverage, the reopening of shopping and the
funded close are proved each on its own, over the lemmas about what superseding leaves of the coverage.
`CreditedOnce` needs `Credited`: after the close under the assignment strategy an executed assignment of the
closed offer remains, and the obligation check it triggers is what keeps every later command from recording
that buyer as lost.

The imported call. `LeadRestsOnEvidence` is the word of four writers who never wait for each other: the
poller that archives a corrected report, the worker that judges outside every lock, the person who decides
and the manager who routes the campaign. The invariant says what each may rely on. `Held`: the worker that
holds the event, by claim, has judged the report and the result on file, since everything that changes them
takes the claim away. `Heeded`: an override on file is the last word a person has said, of the report it
names. `UnheardAlone`: a lead that still waits for its transcript was made without a person and has no
review, so a decision, which names the transcript it was given on, never meets a recheck. `RejectionRests`:
what counts as rejected has the person's word on the evidence on file and no claim. Every judgement then
commits either nothing or a result that is `Fit` for the report on file (`CommitKeeps`), and there is one
lemma per road of `_process_batchdialer_event` that says so. `RejectedStays` is an action property of the
single step from that invariant: rechecks are for leads, the judgement of another worker is fenced, and
archiving the same report again changes nothing.

Intake. A request writes on what it has read, in another transaction's time. `IntakeIInv` says what of it
still holds at the commit (`WritingFits`): the contact it found is still the seller's, the lead it matched
still has that contact, and a placeholder it is going to keep had an owner, was worked on or was closed when
it was read, and is so still (`Left`). What it is going to delete it deletes only if no row refers to it,
which the database sees to (`used`). The requests of one journey wait for its lock (`JourneysExclude`), a
journey at its first step holds one placeholder of its own (`JourneyFits`), and what it leaves beside its lead
is closed, worked on or owned (`NothingLeft`). `Alone` is the part about transactions that do not overlap:
what was not found is still missing at the commit (`StillMissing`), but for leads that carry another class
than they were sought by; a seller has one contact, and so one active lead for a place and class. A lead that
is given another class joins the exceptions, so nothing has to be known of what the staff and the voice agent
find out about a property.

Alerts. `AlertsIInv` is about row locks held over a call of the provider. A worker between its choice and the
provider's answer has locked the rows it chose among, the row it sends is still open (`SendersHold`), and no
two workers hold the same row (`LocksExclude`), so no row is sent by two of them. A second alert is sent only
while the first one's row exists and is not open (`AddressFirst`, `StagesInOrder`). `TextsAccounted` counts: a
row that has sent has at most one text more than repetitions have a cause, one that has not, none. That lost
answers repeat a text no more often than it may be attempted is counted apart (`LostCounted`): each of them
takes an attempt of its row, an open row has attempts left, and only a manager gives them back. The late
reports are a matter of identifiers: a row that waits to be sent has none (`OwnMessage`), so no report finds
it.

The limiter. `LimiterIInv` compares each deque with the history of the key's passes. `Remembered` says what
became of a pass of the window that is not in the deque: the key was dropped after it, and `MaxKeys` others
have asked since. It needs the order of the dictionary (`OrderFits`): a key further back was asked after all
passes of the ones before it, so a key that is dropped leaves only keys that asked after it. `Promised` says
that one of the passes that refused a client runs out when it was told to return. The counting rests on the
finite-set lemmas.

The worker's loop. `SilenceShows` is about two writers of one row, the loop and its heartbeat thread, and about
writes that fail. `SilenceCounted` relates the row to what it cannot know: the progress it shows is at least as
old as the silence of the main thread, since every step that renews it is the main thread's own; and in a turn
that has begun it names the turn's operation, whatever an earlier turn failed to write, since beginning a turn
is the one mark that cannot fail and go on. With the types of the rows that is inductive.

Only model-checked: liveness under fairness (`AbandonedShiftSettles` and the run `settles`), which is outside
the prover, and `RowsTyped` of the three sums, which conjoins the type invariants of their units; those of
outreach, mail, texts, photos, the imported call, the loop and the dialer are parts of the proofs above.

## 5. Where the code departs from what the repository says

Four runs expect a violation; their findings in `PROJECT.json` quote both sides.

* `claim_disposition`: a manager marks failed, or a pilot rollback stops, a session in wrap-up. Its attempt
  stays in progress and no request can complete it; the caller's unique index then refuses every new
  attempt.
* `claim_outreach_duplicate`: a late worker that meets a pause requeues a text another worker has submitted
  with an unknown outcome; after the resume it is sent again.
* `claim_delivery`: `reconcile_envelope` decides on the signature request it loaded before asking the
  provider; if a webhook has finished it since, the package is released although a new request for it is out.
* `claim_deposit`: after coverage is approved again, a deposit that was received and documented has a
  checkpoint without its note; nothing can edit it, and funding is refused.

Other behaviours met while modelling, kept in the models where they are within reach and without a run of
their own. Each is stated as what the code does; whether it is wanted is for its owners to say.

Dialer:

* The screen promises that the shift ends after the current call; after an abandoned browser call the flag
  is still set and `reserve_next_dial_record` hands out another record.
* `queued_orphan_first_seen_at` is never cleared and `queued_orphan_leg_id` never compared, so only the
  first orphan of a session has a grace period.
* Corrections are reserved, and exempted in one validation, but `validate_graph_for_start` refuses every
  converted prospect.

Messages and mail:

* Even one worker leaves a status lower than the highest reported when the provider's times disagree with its
  statuses: "delivered" of second 3 applied after "delivery_delayed" of second 5 is dropped
  (resend_email_events.py:1422). `Converges` is claimed for times that agree.
* Two overlapping workers may leave a status lower than the highest reported, of an e-mail
  (`resend_email_events.py`) and of a text's record (`messaging.py`): both read without a lock. The
  properties claim the decisive report for one worker, and the dispatch for any number.
* An ambiguous provider failure marks a text's dispatch as failed although it may have been sent, and a STOP
  between the check and the call does not hold the text back.
* Provider events for ids that are not saved yet are dropped (e-signature), or kept and recovered (texts).
* Two managers who route the same parked message: the second reopens what the first one's was processed as.
  The unit `managed` reaches it; `FinishedStays` excepts it.
* A text of a revision leaves once with two workers only. With three, a worker that prepared it long ago marks
  and sends it again after a second has submitted it with an unknown outcome, a third has failed it as
  retryable (the failure path compares neither token nor status), and the retry of an operator is claimed.
* An outreach message that a retry finds in doubt becomes `delivery_unknown`, and one that meets a pause may
  be reported `ineligible`.
* One failing closing-deadline alert keeps those after it waiting (`disposition_offer_room.py`).
* The worker reports itself healthy while one of its operations is in backoff (`worker.py`).

Intake and imports:

* Overlapping requests of one seller may create two leads (`public_intake.py`); `OneActiveLead` is claimed
  for transactions that do not overlap.
* Step 2 with a known contact fails for good on the foreign key when the placeholder contact is referenced
  (public_intake.py:1344; tests/test_public_intake.py:1116 covers the unreferenced one), and what staff edit
  between the check `can_discard` and the deletion is lost.
* A late worker's failure mark can overwrite a processed Facebook event, and a Facebook event whose worker
  dies each time has no bound on its attempts (`meta_lead_ads.py`).
* A staff alert that was accepted just before a crash is sent again without counting an attempt
  (meta_lead_ads.py:527-528). One whose answer is lost counts as a failed attempt
  (`../integrations/twilio_messaging.py`:84-85) and is sent again on its own, up to the number of attempts
  (meta_lead_ads.py:671-704): the recipient may have as many copies.
* The placeholder of a visitor who turns out to be known is gone after the merge
  (tests/test_public_intake.py:1205) only where the placeholder was not routed. With an active member in the
  Acquisitions team Step 1 gives it an owner at once (public_intake.py:500-506), which is one of the things
  that forbid the deletion (1447-1448), so it stays beside the seller's lead as an active lead with a
  placeholder contact. `NoPlaceholderLeft` excepts placeholders with an owner.
* The look for the seller's lead asks for the class of the property when the submission names none
  (public_intake.py:1664-1672), while the placeholder keeps its "house" when it is promoted
  (`Promote`). On a property known as land each such visit finds nothing and leaves another active house
  lead. `OneActiveLead` excepts leads whose class is not the one they were sought by (`astray`).
* An approved "unknown_disposition" call whose transcript is not ready goes back to review
  (batchdialer_direct.py:699-725, 3340-3362), and a transient failure to fetch the transcript after the
  approval voids it (835-870).
* A call corrected to a non-lead is ignored without cancelling its pending review (3457-3460).
* Mapping a campaign while a worker judges on its absence leaves the event quarantined
  (batchdialer_campaign_mapping.py:201-216).
* A poller's stale page can overwrite newer evidence (285-307), and a correction of a call with a lead
  writes the lead's stage from an unlocked read (2319-2350, 2739, 2817).

Leads:

* A message reopens a closed lead, but its handler has read the conversation before it locks the lead
  (inbox.py:1031 and 1248): when a close-out commits in between, the conversation's row stays closed
  (docs/UI_CONTROL_REFERENCE.md:361 says that contact restores it). The conversation is not in the model.
* The mark of spam survives `reopen_lead`: a lead that is reopened and later closed for another reason is
  still not reopened by its seller, which is why `NoContactLost` excepts the mark and not the reason.
* `undo_not_a_lead` asks for a mark and a disqualified lead; after a reopening it may undo a later, ordinary
  disqualification.
* Closing a closed lead again with another reason renews its time of closing, so a contact that was under
  way no longer reopens it.
* A brief's worker that took over fifteen minutes writes its result over what a person has reviewed
  meanwhile (ai_operations.py:395-430).
* A completed deal's open tasks can neither be completed nor cancelled (tasks.py:823, lead_lifecycle.py:22).
* Appointments of one representative are compared without a lock on the calendar (leads.py:2190).

Paperwork:

* `request_contract_approval`, `apply_contract_decision` and `mark_contract_sent` never look at the
  transaction's status.
* docs/SYSTEM_MAP.md:1050 freezes the offer authority a contract was drafted on; offer_approvals.py:185
  allows a new one, which makes the package unfit instead. `ExecutedOnAuthority` states what holds.
* A revision is checked against the lock version of the offer, not of the selection the representative saw
  (disposition_offer_room.py:1713; tests/test_disposition_offer_room.py:597-609 has the replacement case).
* A "document created" webhook may come while the request is still a draft; reopened canonical checkpoints
  raise no new alert.

## 6. Not modelled

| Part | Why |
|---|---|
| Dialer: tab takeover and token rotation, replay of manager commands, recording and disclosure, child call identity, candidate order, policy blockers | Requests are the current tab's or refused; blockers are refusals. The rest writes rows nothing modelled reads |
| Dialer analytics | reads only |
| Inbound prospecting callbacks, staff voice and Twilio webhooks | matching a caller to a record; the evidence they share with the dialer is in `ProviderEvent` |
| Contents: which conversation a message belongs to, attachments, templates, transcripts' judgement, offer scores, documents and checklists | free choices of the result |
| Mailbox synchronisation, assignment of conversations | a second claim-and-lease pipeline of the shape of `ResendEvents` |
| Leads: the inbox conversation, routing, escalation, management case, copilots | `LeadWork` holds what a close-out cancels and what reopens a lead; the rest follows the stage |
| AI runtime, call recordings and transcripts | claims and leases around model calls; same shape as the brief in `LeadWork`, and their results are reviewed by people |
| Approvals and offers | one decision on one row; those that gate something modelled are actions there |
| Disposition packages, buyer pool and desk | versioned documents, little concurrency |
| Finance and banking | ledger entries and reports; a posting checks its period without a lock (finance.py:1079-1188 against 1405-1420), which is the one race of it |
| Property, underwriting and land valuation | numerical analysis of retrieved evidence |
| Field operations and seller agents | gated or experimental |
| Authentication, permissions, configuration | request plumbing; permissions are who may take an action |
| Web client | sends the modelled requests; what it shows as promises is quoted in section 5 |

`PROJECT.json` gives the reason per component. The mapped lines are few against the repository's: most of it
is request parsing, serialisation, reports, searches and numerical analysis, which have no state of their
own that two actors share.

## 7. What is left

1. The inbox conversation beside `LeadWork`, with the read before the lead's lock.
2. Mailbox synchronisation and call transcripts: claims and leases of a known shape, with
   the attempts of a worker that crashes as the open question.
3. `DialLease`: browser tabs, token rotation, recovery replay; and the command keys of the managers.
4. The posting period of the ledger, and the inbound callbacks of the dialer.
5. Theorems about refinements of the pipelines: an abstract "claim, work, settle" contract of which mail,
   photos, alerts and imported calls would be instances, as the dialer is of `ReservationContract`.
