------------------------- MODULE BatchDialerImport -------------------------
(***************************************************************************)
(* One call of the external dialer on its way to a lead.  Pollers archive  *)
(* what the provider reports of it, and reports it may correct; workers    *)
(* claim the archived event, judge it outside any lock, and commit only    *)
(* while the claim and the evidence are the ones they judged; what they    *)
(* may not decide goes to a person, whose decision holds for exactly the   *)
(* evidence that was reviewed.                                             *)
(***************************************************************************)
EXTENDS Naturals, FiniteSets

CONSTANTS
  Importers,              \* worker processes: they poll, claim and judge
  Pollers,                \* bound: the workers that poll
  Warm, Unmapped, Cold,   \* call reports, by what classify_disposition makes of them
  Transcripts,            \* transcripts the provider may have for the call
  Choices,                \* bound: what people do, of the decisions and the mapping
  MaxRetries,             \* batchdialer_event_max_attempts
  MaxFetches,             \* MAX_QUALIFICATION_TRANSCRIPT_ATTEMPTS
  MaxChanges,             \* bound: corrections by the provider
  MaxCallFaults,          \* bound: workers that die or outlive their claims
  Absent

Dispositions == Warm \cup Unmapped \cup Cold

(* QUALIFICATION_OVERRIDABLE_REASONS *)
Overridable ==
  {"unknown_disposition", "evidence_changed_after_review", "qualification_low_confidence"}

VARIABLES
  cdr,       \* what the provider reports now
  event,     \* the ProspectingProviderEvent: the archived report, claim and result
  mapped,    \* whether the call's campaign has a route (workflow_purpose)
  reviews,   \* pending ApprovalRequests of the event
  lease,     \* of the polling checkpoint
  importer,  \* where each worker is and what it has read
  said,      \* history: the last decision of a person, and the report it was about
  budget     \* corrections and faults left

callVars == <<cdr, event, mapped, reviews, lease, importer, said, budget>>

(* The event's "_stonegate" result: word and on are the override, lead the *)
(* lead id it keeps, unheard a transcript_status "pending".                *)
Blank ==
  [outcome |-> Absent, lead |-> FALSE, code |-> Absent, source |-> Absent, text |-> Absent,
   fetches |-> 0, unheard |-> FALSE, word |-> Absent, on |-> Absent]

CallIdle == [at |-> "idle", digest |-> Absent, result |-> Blank, mapped |-> FALSE]

CallInit ==
  /\ cdr \in Dispositions
  /\ event = [status |-> "absent", digest |-> Absent, claim |-> Absent, stale |-> FALSE,
              retries |-> 0, result |-> Blank]
  /\ mapped = FALSE
  /\ reviews = {}
  /\ lease = [by |-> Absent, live |-> FALSE]
  /\ importer = [w \in Importers |-> CallIdle]
  /\ said = [what |-> Absent, of |-> Absent]
  /\ budget = [changes |-> MaxChanges, faults |-> MaxCallFaults]

(* _qualification_evidence_fingerprint *)
Fingerprint(digest, text) == <<digest, text>>

OnFile == Fingerprint(event.digest, event.result.text)

-----------------------------------------------------------------------------
(* The provider corrects its report.                                       *)
ProviderCorrects ==
  /\ budget.changes > 0
  /\ cdr' \in Dispositions \ {cdr}
  /\ budget' = [budget EXCEPT !.changes = @ - 1]
  /\ UNCHANGED <<event, mapped, reviews, lease, importer, said>>

(* _acquire_checkpoint, and the page that is fetched under the lease.      *)
Fetch(w) ==
  /\ w \in Pollers /\ importer[w].at = "idle" /\ ~lease.live
  /\ lease' = [by |-> w, live |-> TRUE]
  /\ importer' = [importer EXCEPT ![w].at = "fetched", ![w].digest = cdr]
  /\ UNCHANGED <<cdr, event, mapped, reviews, said, budget>>

(* Faulty: whatever was processed may be looked at again. *)
RecheckAny == event.status = "processed"

(* _transcript_recheck_due *)
RecheckDue ==
  event.status = "processed" /\ event.result.unheard /\ event.result.fetches < MaxFetches

Archived(digest) ==
  [event EXCEPT !.status = "pending", !.digest = digest, !.claim = Absent, !.stale = FALSE,
                !.retries = 0]

Recheck == [event EXCEPT !.status = "pending"]

Released(w) == IF lease.by = w THEN [by |-> Absent, live |-> FALSE] ELSE lease

(* archive_batchdialer_cdr: the page is kept before the lease is looked at *)
(* again; a lease that another poller has taken is left to it.             *)
Archive(w) ==
  /\ importer[w].at = "fetched"
  /\ LET page == importer[w].digest IN
     IF page # event.digest
     THEN event' = Archived(page)
     ELSE event' \in (IF RecheckDue THEN {event, Recheck} ELSE {event})
  /\ lease' = Released(w)
  /\ importer' = [importer EXCEPT ![w] = CallIdle]
  /\ UNCHANGED <<cdr, mapped, reviews, said, budget>>

(* The provider does not answer, or the page cannot be kept.               *)
PollFails(w) ==
  /\ importer[w].at = "fetched"
  /\ lease' = Released(w)
  /\ importer' = [importer EXCEPT ![w] = CallIdle]
  /\ UNCHANGED <<cdr, event, mapped, reviews, said, budget>>

-----------------------------------------------------------------------------
(* Faulty: the event of a dead worker is nobody's. *)
ClaimableFresh == event.status \in {"pending", "retry"}

CallClaimable ==
  event.status \in {"pending", "retry"} \/ (event.status = "processing" /\ event.stale)

(* process_next_batchdialer_direct_event to its first commit, and what the *)
(* judgement rests on, which is read without a lock.                       *)
ClaimCall(w) ==
  /\ importer[w].at = "idle" /\ CallClaimable
  /\ event' = [event EXCEPT !.status = "processing", !.claim = w, !.stale = FALSE,
                            !.retries = @ + 1]
  /\ importer' = [importer EXCEPT ![w] = [at |-> "judging", digest |-> event.digest,
                                      result |-> event.result, mapped |-> mapped]]
  /\ UNCHANGED <<cdr, mapped, reviews, lease, said, budget>>

(* Faulty: whoever has judged the event may write. *)
AnyJudge(w) == importer[w].at = "judging"

(* _lock_claimed_event *)
Holds(w) ==
  event.status = "processing" /\ event.claim = w /\ event.digest = importer[w].digest

(* A commit of the judgement, or nothing when the claim is lost.           *)
Commits(w, status, retries, result, pending) ==
  /\ importer[w].at = "judging"
  /\ IF Holds(w)
     THEN /\ event' = [event EXCEPT !.status = status, !.retries = retries,
                                    !.result = result, !.claim = Absent, !.stale = FALSE]
          /\ reviews' = pending
     ELSE UNCHANGED <<event, reviews>>
  /\ importer' = [importer EXCEPT ![w] = CallIdle]
  /\ UNCHANGED <<cdr, mapped, lease, said, budget>>

(* Faulty: a pending review is reused whatever it was made on. *)
EnsureAny(on, code) == IF reviews = {} THEN {[on |-> on, code |-> code]} ELSE reviews

(* _ensure_qualification_review_approval: one of the same evidence is kept *)
(* up to date, one of other evidence is cancelled.                         *)
Ensure(on, code) == {[on |-> on, code |-> code]}

ForReview(r, d, code, text, fetches) ==
  [r EXCEPT !.outcome = "review", !.code = code, !.source = d, !.text = text,
            !.fetches = fetches, !.unheard = FALSE]

(* _route_qualification_review; prior is what it keeps of a result.        *)
Review(w, prior, retries, code, text, fetches) ==
  Commits(w, "quarantined", retries,
          ForReview(prior, importer[w].digest, code, text, fetches),
          Ensure(Fingerprint(importer[w].digest, text), code))

ToReviewAt(w, retries, code, text, fetches) ==
  Review(w, importer[w].result, retries, code, text, fetches)

ToReview(w, code, text, fetches) == ToReviewAt(w, event.retries, code, text, fetches)

(* _current_qualification_override *)
Override(w) ==
  LET r == importer[w].result IN
  IF r.word # Absent /\ r.on = Fingerprint(importer[w].digest, r.text) THEN r.word ELSE Absent

(* A person has mapped the unknown disposition of this very report.        *)
MappedByPerson(w) ==
  /\ importer[w].digest \in Unmapped
  /\ Override(w) = "approved" /\ importer[w].result.code = "unknown_disposition"

IsCandidate(w) ==
  importer[w].digest \in Warm \/ MappedByPerson(w)

(* transcript_attempts, for one report; past its limit it counts no more.  *)
Fetches(w) ==
  LET r == importer[w].result IN
  IF r.source # importer[w].digest THEN 1
  ELSE IF r.fetches < MaxFetches THEN r.fetches + 1 ELSE MaxFetches

-----------------------------------------------------------------------------
(* No route: campaign_workflow_unmapped, before anything else of a warm    *)
(* report, whose override and lead id it drops (prior_result={}), or       *)
(* campaign_asset_unmapped for a report a person has mapped.               *)
NoRoute(w) ==
  /\ IsCandidate(w) /\ ~importer[w].mapped
  /\ Review(w, IF importer[w].digest \in Warm THEN Blank ELSE importer[w].result,
            event.retries, "campaign_workflow_unmapped", Absent, 0)

(* Nothing goes past a rejection of the same evidence. *)
Goes(w) == importer[w].mapped /\ IsCandidate(w) /\ Override(w) # "rejected"

StaysRejected(w) ==
  /\ Override(w) = "rejected"
  /\ importer[w].digest \in Warm => importer[w].mapped
  /\ Commits(w, "processed", event.retries,
             [importer[w].result EXCEPT !.outcome = "rejected"], reviews)

UnknownDisposition(w) ==
  /\ importer[w].digest \in Unmapped /\ Override(w) # "rejected" /\ ~MappedByPerson(w)
  /\ ToReview(w, "unknown_disposition", Absent, 0)

(* A non-lead is ignored, and a pending review of an earlier report is not *)
(* cancelled; a call that made a lead before is a conflict.                *)
NonLead(w) ==
  /\ importer[w].digest \in Cold /\ Override(w) # "rejected"
  /\ IF importer[w].result.lead
     THEN ToReview(w, "existing_lead_disposition_conflict", Absent, 0)
     ELSE Commits(w, "processed", event.retries, [Blank EXCEPT !.outcome = "ignored"], reviews)

(* Asset and parcel identity, an earlier lead of another lane, voicemail.  *)
Conflict(w) ==
  /\ Goes(w)
  /\ ToReview(w, "provider_conflict", Absent, 0)

(* Faulty: a lead leaves the call's pending review behind. *)
ToLeadOnly(w, code, text) ==
  Commits(w, "processed", event.retries,
          [Blank EXCEPT !.outcome = "lead", !.lead = TRUE, !.code = code,
                        !.source = importer[w].digest, !.text = text,
                        !.fetches = IF text = Absent THEN 0 ELSE Fetches(w),
                        !.unheard = (text = Absent)],
          reviews)

(* _ensure_batchdialer_lead: an earlier lead of the call is used again.    *)
ToLead(w, code, text) ==
  Commits(w, "processed", event.retries,
          [Blank EXCEPT !.outcome = "lead", !.lead = TRUE, !.code = code,
                        !.source = importer[w].digest, !.text = text,
                        !.fetches = IF text = Absent THEN 0 ELSE Fetches(w),
                        !.unheard = (text = Absent)],
          {})

ByPerson(w) == Override(w) = "approved" /\ ~MappedByPerson(w)

(* An approval counts for the transcript it was given on, if there was one.*)
ApprovedByPerson(w) ==
  /\ Goes(w) /\ ByPerson(w)
  /\ \E text \in Transcripts \cup {Absent} :
       IF importer[w].result.on = Fingerprint(importer[w].digest, text)
       THEN ToLead(w, "human_override", text)
       ELSE ToReview(w, "evidence_changed_after_review", text,
                     IF text = Absent THEN 0 ELSE Fetches(w))

(* _classify_qualification_transcript *)
Classified(w) ==
  /\ Goes(w) /\ ~ByPerson(w)
  /\ \E text \in Transcripts :
       \/ ToLead(w, "evidence_confirmed", text)
       \/ \E code \in {"qualification_low_confidence", "transcript_conflict"} :
            ToReview(w, code, text, Fetches(w))

(* _mark_qualification_pending: the wait is bounded by number and by time. *)
TranscriptNotReady(w) ==
  /\ Goes(w) /\ ~ByPerson(w)
  /\ LET r == importer[w].result
         d == importer[w].digest
     IN
     \/ ToReviewAt(w, event.retries - 1, "transcript_unavailable", Absent, Fetches(w))
     \/ /\ Fetches(w) < MaxFetches
        /\ Commits(w, "retry", event.retries - 1,
             [r EXCEPT !.outcome = "awaiting", !.code = "transcript_not_ready", !.source = d,
                       !.text = IF r.source = d THEN @ ELSE Absent, !.fetches = Fetches(w)],
             reviews)

(* _mark_event_failure, for whatever goes wrong while it is judged.        *)
Fails(w) ==
  LET r == importer[w].result IN
  IF event.retries < MaxRetries
  THEN Commits(w, "retry", event.retries, r, reviews)
  ELSE IF importer[w].digest \in Warm
  THEN ToReview(w, "provider_processing_error", Absent, 0)
  ELSE Commits(w, "exhausted", event.retries, r, reviews)

Judge(w) ==
  \/ NoRoute(w) \/ StaysRejected(w) \/ UnknownDisposition(w) \/ NonLead(w) \/ Conflict(w)
  \/ ApprovedByPerson(w) \/ Classified(w) \/ TranscriptNotReady(w) \/ Fails(w)

-----------------------------------------------------------------------------
Decidable(rv) == rv \in reviews /\ rv.on = OnFile

(* apply_batchdialer_qualification_decision: a claim on the event is lost. *)
Decided(status, retries, result) ==
  [event EXCEPT !.status = status, !.retries = retries, !.result = result,
                !.claim = Absent, !.stale = FALSE]

ApproveCall(rv) ==
  /\ "approve" \in Choices /\ Decidable(rv) /\ rv.code \in Overridable
  /\ event' = Decided("pending", 0, [event.result EXCEPT !.word = "approved", !.on = OnFile])
  /\ reviews' = reviews \ {rv}
  /\ said' = [what |-> "approved", of |-> event.digest]
  /\ UNCHANGED <<cdr, mapped, lease, importer, budget>>

RejectCall(rv) ==
  /\ "reject" \in Choices /\ Decidable(rv)
  /\ event' = Decided("processed", event.retries,
                [event.result EXCEPT !.word = "rejected", !.on = OnFile, !.outcome = "rejected"])
  /\ reviews' = reviews \ {rv}
  /\ said' = [what |-> "rejected", of |-> event.digest]
  /\ UNCHANGED <<cdr, mapped, lease, importer, budget>>

CancelCall(rv) ==
  /\ "cancel" \in Choices /\ Decidable(rv)
  /\ event' = Decided("quarantined", event.retries,
                      [event.result EXCEPT !.word = Absent, !.on = Absent])
  /\ reviews' = reviews \ {rv}
  /\ said' = [what |-> "cancelled", of |-> event.digest]
  /\ UNCHANGED <<cdr, mapped, lease, importer, budget>>

(* update_batchdialer_campaign_mapping: a route, also one that is applied  *)
(* again, frees what waits for it now.                                     *)
MapCampaign ==
  /\ "map" \in Choices /\ mapped' = TRUE
  /\ IF event.status = "quarantined" /\ event.result.code = "campaign_workflow_unmapped"
     THEN /\ event' = [event EXCEPT !.status = "pending", !.retries = 0,
                                    !.result.outcome = "awaiting_mapping"]
          /\ reviews' = {}
     ELSE UNCHANGED <<event, reviews>>
  /\ UNCHANGED <<cdr, lease, importer, said, budget>>

UnmapCampaign ==
  /\ "unmap" \in Choices /\ mapped /\ mapped' = FALSE
  /\ UNCHANGED <<cdr, event, reviews, lease, importer, said, budget>>

-----------------------------------------------------------------------------
(* batchdialer_checkpoint_lease_seconds pass without a renewal.            *)
PollLeaseExpires ==
  /\ lease.live /\ lease' = [lease EXCEPT !.live = FALSE]
  /\ UNCHANGED <<cdr, event, mapped, reviews, importer, said, budget>>

(* Ten minutes pass on a claim, of a dead worker or of one that is slow.   *)
ClaimOf(w) == event.status = "processing" /\ event.claim = w /\ ~event.stale
Working(w) == importer[w].at = "judging"

ClaimAges(w) ==
  /\ ClaimOf(w) /\ ~Working(w)
  /\ event' = [event EXCEPT !.stale = TRUE]
  /\ UNCHANGED <<cdr, mapped, reviews, lease, importer, said, budget>>

ClaimOutrun(w) ==
  /\ ClaimOf(w) /\ Working(w) /\ budget.faults > 0
  /\ event' = [event EXCEPT !.stale = TRUE]
  /\ budget' = [budget EXCEPT !.faults = @ - 1]
  /\ UNCHANGED <<cdr, mapped, reviews, lease, importer, said>>

CallCrash(w) ==
  /\ importer[w].at # "idle" /\ budget.faults > 0
  /\ importer' = [importer EXCEPT ![w] = CallIdle]
  /\ budget' = [budget EXCEPT !.faults = @ - 1]
  /\ UNCHANGED <<cdr, event, mapped, reviews, lease, said>>

CallNext ==
  \/ ProviderCorrects \/ MapCampaign \/ UnmapCampaign \/ PollLeaseExpires
  \/ \E w \in Importers :
       \/ Fetch(w) \/ Archive(w) \/ PollFails(w)
       \/ ClaimCall(w) \/ Judge(w) \/ CallCrash(w) \/ ClaimAges(w) \/ ClaimOutrun(w)
  \/ \E rv \in reviews : ApproveCall(rv) \/ RejectCall(rv) \/ CancelCall(rv)

CallSpec == CallInit /\ [][CallNext]_callVars

(* The worker's loop gives polling and claiming their turns for ever, the  *)
(* provider does not fail for ever, and the clock goes on.                 *)
CallFairness ==
  /\ WF_callVars(PollLeaseExpires) /\ WF_callVars(\E w \in Importers : ClaimAges(w))
  /\ \A w \in Pollers : SF_callVars(Fetch(w)) /\ SF_callVars(Archive(w))
  /\ SF_callVars(\E w \in Importers : ClaimCall(w)) /\ WF_callVars(\E w \in Importers : Judge(w))

CallFairSpec == CallSpec /\ CallFairness

-----------------------------------------------------------------------------
Results ==
  [outcome : {Absent, "ignored", "lead", "review", "awaiting", "awaiting_mapping", "rejected"},
   lead : BOOLEAN,
   code : Overridable \cup {Absent, "human_override", "evidence_confirmed", "provider_conflict",
                            "transcript_conflict", "transcript_not_ready",
                            "transcript_unavailable", "provider_processing_error",
                            "campaign_workflow_unmapped", "existing_lead_disposition_conflict"},
   source : Dispositions \cup {Absent}, text : Transcripts \cup {Absent}, fetches : 0..MaxFetches,
   unheard : BOOLEAN, word : {Absent, "approved", "rejected"},
   on : (Dispositions \X (Transcripts \cup {Absent})) \cup {Absent}]

CallTypeOK ==
  /\ cdr \in Dispositions /\ mapped \in BOOLEAN
  /\ event.status \in {"absent", "pending", "processing", "retry", "processed", "quarantined",
                       "exhausted"}
  /\ event.digest \in Dispositions \cup {Absent} /\ event.claim \in Importers \cup {Absent}
  /\ event.stale \in BOOLEAN /\ event.retries \in Nat /\ event.result \in Results
  /\ \A rv \in reviews : rv.on \in Dispositions \X (Transcripts \cup {Absent})
  /\ lease \in [by : Importers \cup {Absent}, live : BOOLEAN]
  /\ \A w \in Importers :
       /\ importer[w].at \in {"idle", "fetched", "judging"}
       /\ importer[w].digest \in Dispositions \cup {Absent}
       /\ importer[w].result \in Results
  /\ said \in [what : {Absent, "approved", "rejected", "cancelled"}, of : Dispositions \cup {Absent}]

Says(what) == said = [what |-> what, of |-> event.digest]

(* A call that counts as a lead does so on the report and the decision     *)
(* that are on file: it was judged on this report, the report is a warm    *)
(* one or a person has approved it, and the transcript was heard unless a  *)
(* person did without it (the fence of                                     *)
(* process_next_batchdialer_direct_event).                                 *)
LeadIsJudged ==
  event.status = "processed" /\ event.result.outcome = "lead" =>
    /\ event.result.source = event.digest
    /\ event.digest \in Warm \/ (event.digest \in Unmapped /\ Says("approved"))
    /\ event.result.text = Absent => Says("approved")
    /\ reviews = {}

(* What a person has rejected is left alone until the report changes or a  *)
(* person decides again, whichever worker was judging it meanwhile.        *)
RejectedStays ==
  [][event.status = "processed" /\ event.result.outcome = "rejected"
       /\ event'.digest = event.digest => event' = event \/ said' # said]_callVars

(* A call in quarantine has a review that a person can still decide, on    *)
(* the evidence that is on file, unless a person cancelled it              *)
(* (_ensure_qualification_review_approval).                                *)
ReviewIsDecidable ==
  event.status = "quarantined" /\ ~Says("cancelled") => \E rv \in reviews : Decidable(rv)

(* What makes a lead, and what waits for a person, is what is on file,     *)
(* whatever was corrected while it was judged.                             *)
LeadRestsOnEvidence == LeadIsJudged /\ ReviewIsDecidable

Settled == event.status \in {"processed", "quarantined", "exhausted"}

(* What the provider reports of a call is archived and settled in the end, *)
(* whichever poller or worker dies with it.                                *)
CallsSettle == []<>(event.digest = cdr /\ Settled)
=============================================================================
