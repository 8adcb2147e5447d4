------------------------ MODULE BatchDialerImportProofs ------------------------
(***************************************************************************)
(* A call of the external dialer rests on what is on file, for any number  *)
(* of workers and corrections: a judgement is committed only on the report *)
(* and the result it was made on, and a person's word holds for exactly    *)
(* the evidence it was given on.                                           *)
(***************************************************************************)
EXTENDS BatchDialerImport, TLAPS

(* An absent value is none of the others, and a transcript is fetched at   *)
(* least once.                                                             *)
Instance ==
  /\ Absent \notin Dispositions \cup Transcripts \cup Importers \cup {"approved", "rejected"}
  /\ Pollers \subseteq Importers
  /\ MaxFetches \in Nat \ {0}

EventRow ==
  [status : {"absent", "pending", "processing", "retry", "processed", "quarantined", "exhausted"},
   digest : Dispositions \cup {Absent}, claim : Importers \cup {Absent}, stale : BOOLEAN,
   retries : Nat, result : Results]
Evidence == Dispositions \X (Transcripts \cup {Absent})
WorkerRow == [at : {"idle", "fetched", "judging"}, digest : Dispositions \cup {Absent},
              result : Results, mapped : BOOLEAN]
Word == [what : {Absent, "approved", "rejected", "cancelled"}, of : Dispositions \cup {Absent}]

CallTyped ==
  /\ cdr \in Dispositions /\ mapped \in BOOLEAN
  /\ event \in EventRow
  /\ event.status # "absent" => event.digest \in Dispositions
  /\ event.status = "processing" => event.retries > 0
  /\ \A rv \in reviews : rv.on \in Evidence
  /\ importer \in [Importers -> WorkerRow]
  /\ \A w \in Importers : importer[w].at # "idle" => importer[w].digest \in Dispositions
  /\ said \in Word

(* The worker that holds the event has judged the result on file.          *)
Held ==
  \A w \in Importers :
    importer[w].at = "judging" /\ event.status = "processing" /\ event.claim = w =>
      importer[w].result = event.result /\ importer[w].digest = event.digest

(* The override on file is the last thing a person has said.               *)
Heeded ==
  event.result.word # Absent =>
    said.what = event.result.word /\ said.of = event.result.on[1]

(* A lead that waits for its transcript was made without a person.         *)
UnheardAlone ==
  event.result.unheard =>
    event.result.word = Absent /\ reviews = {} /\ event.result.outcome # "rejected"

(* What counts as rejected is what a person has rejected.                  *)
RejectionRests ==
  event.status = "processed" /\ event.result.outcome = "rejected" =>
    /\ event.result.word = "rejected" /\ event.result.on = OnFile
    /\ event.claim = Absent /\ ~event.stale

IInv ==
  /\ CallTyped /\ Held /\ Heeded /\ UnheardAlone /\ RejectionRests
  /\ LeadIsJudged /\ ReviewIsDecidable

-----------------------------------------------------------------------------
(* Rows. *)

LEMMA Typed ==
  IInv => /\ event \in EventRow /\ event.result \in Results
          /\ importer \in [Importers -> WorkerRow] /\ said \in Word
  BY DEF IInv, CallTyped, EventRow

LEMMA BlankTyped ==
  ASSUME Instance
  PROVE  Blank \in Results /\ CallIdle \in WorkerRow
<1>1. Blank \in Results
  BY DEF Instance, Blank, Results
<1> QED BY <1>1 DEF CallIdle, WorkerRow

LEMMA FetchesTyped ==
  ASSUME Instance, IInv, NEW w \in Importers
  PROVE  Fetches(w) \in 0..MaxFetches
<1>1. importer[w].result.fetches \in 0..MaxFetches
  BY Typed DEF WorkerRow, Results
<1> QED BY <1>1 DEF Fetches, Instance

LEMMA OnFileIs ==
  ASSUME IInv, event.status # "absent"
  PROVE  OnFile \in Evidence /\ OnFile[1] = event.digest
  BY Typed DEF IInv, CallTyped, OnFile, Fingerprint, Evidence, Results

(* A worker goes idle or fetches, and the event is as it was. *)
LEMMA WorkerMoves ==
  ASSUME Instance, IInv, NEW w \in Importers, NEW row \in WorkerRow, row.at # "judging",
         row.at # "idle" => row.digest \in Dispositions,
         importer' = [importer EXCEPT ![w] = row],
         UNCHANGED <<cdr, mapped, event, reviews, said>>
  PROVE  IInv'
<1>1. /\ importer' \in [Importers -> WorkerRow] /\ importer'[w] = row
      /\ \A v \in Importers : v # w => importer'[v] = importer[v]
  BY Typed
<1>2. CallTyped'
  BY <1>1 DEF IInv, CallTyped
<1>3. Held'
  BY <1>1 DEF IInv, Held
<1> QED BY <1>2, <1>3 DEF IInv, Heeded, UnheardAlone, RejectionRests, LeadIsJudged,
                          ReviewIsDecidable, Decidable, Says, OnFile

(* The event leaves whoever had it, and waits. *)
LEMMA Waits ==
  ASSUME CallTyped', event'.status \notin {"processing", "processed", "quarantined"},
         Heeded', UnheardAlone'
  PROVE  IInv'
  BY DEF IInv, Held, RejectionRests, LeadIsJudged, ReviewIsDecidable

-----------------------------------------------------------------------------
(* Polling. *)

LEMMA QuietStep ==
  ASSUME IInv, cdr' \in Dispositions, mapped' \in BOOLEAN, UNCHANGED <<event, reviews, importer, said>>
  PROVE  IInv'
  BY DEF IInv, CallTyped, Held, Heeded, UnheardAlone, RejectionRests, LeadIsJudged,
         ReviewIsDecidable, Decidable, Says, OnFile

LEMMA FetchStep ==
  ASSUME Instance, IInv, NEW w \in Importers, Fetch(w)
  PROVE  IInv'
<1> DEFINE row == [importer[w] EXCEPT !.at = "fetched", !.digest = cdr]
<1>1. row \in WorkerRow /\ row.at = "fetched" /\ row.digest \in Dispositions
  BY Typed DEF IInv, CallTyped, WorkerRow
<1>2. importer' = [importer EXCEPT ![w] = row]
  BY DEF Fetch
<1> HIDE DEF row
<1> QED BY <1>1, <1>2, WorkerMoves DEF Fetch

LEMMA WorkerStops ==
  ASSUME Instance, IInv, NEW w \in Importers, PollFails(w) \/ CallCrash(w)
  PROVE  IInv'
  BY BlankTyped, WorkerMoves DEF PollFails, CallCrash, CallIdle

LEMMA ArchiveStep ==
  ASSUME Instance, IInv, NEW w \in Importers, Archive(w)
  PROVE  IInv'
<1>1. /\ importer' = [importer EXCEPT ![w] = CallIdle] /\ importer[w].at = "fetched"
      /\ UNCHANGED <<cdr, mapped, reviews, said>>
      /\ event' \in {event, Recheck, Archived(importer[w].digest)}
  BY DEF Archive
<1>2. CASE event' = event
  BY <1>1, <1>2, BlankTyped, WorkerMoves DEF CallIdle
<1>3. CASE event' # event
  <2>1. importer[w].digest \in Dispositions
    BY <1>1 DEF IInv, CallTyped
  <2>2. /\ event' \in EventRow /\ event'.status = "pending" /\ event'.result = event.result
        /\ event'.digest \in Dispositions
    <3>1. CASE event' = Archived(importer[w].digest)
      BY <2>1, <3>1, Typed DEF Archived, EventRow
    <3>2. CASE event' = Recheck /\ event' # Archived(importer[w].digest)
      <4>1. event.status = "processed"
        BY <1>3, <3>2 DEF Archive, RecheckDue
      <4> QED BY <3>2, <4>1, Typed DEF Recheck, EventRow, IInv, CallTyped
    <3> QED BY <1>1, <1>3, <3>1, <3>2
  <2>3. /\ importer' \in [Importers -> WorkerRow]
        /\ \A v \in Importers : importer'[v] \in {importer[v], CallIdle}
    BY <1>1, BlankTyped, Typed
  <2>4. CallTyped'
    BY <1>1, <2>2, <2>3 DEF IInv, CallTyped, CallIdle
  <2>5. Heeded' /\ UnheardAlone'
    BY <1>1, <2>2 DEF IInv, Heeded, UnheardAlone
  <2> QED BY <2>2, <2>4, <2>5, Waits
<1> QED BY <1>2, <1>3

-----------------------------------------------------------------------------
(* Claims. *)

LEMMA ClaimCallStep ==
  ASSUME Instance, IInv, NEW w \in Importers, ClaimCall(w)
  PROVE  IInv'
<1> DEFINE row == [at |-> "judging", digest |-> event.digest, result |-> event.result,
                   mapped |-> mapped]
<1>1. /\ importer[w].at = "idle" /\ event.status \in {"pending", "retry", "processing"}
      /\ importer' = [importer EXCEPT ![w] = row]
      /\ event' = [event EXCEPT !.status = "processing", !.claim = w, !.stale = FALSE,
                                !.retries = @ + 1]
      /\ UNCHANGED <<cdr, mapped, reviews, said>>
  BY DEF ClaimCall, CallClaimable
<1>2. event.digest \in Dispositions
  BY <1>1 DEF IInv, CallTyped
<1>3. /\ event' \in EventRow /\ event'.status = "processing" /\ event'.result = event.result
      /\ event'.digest = event.digest /\ event'.claim = w /\ event'.retries > 0
  <2>1. event.retries + 1 \in Nat /\ event.retries + 1 > 0
    BY Typed DEF EventRow
  <2> QED BY <1>1, <2>1, Typed DEF EventRow
<1>4. row \in WorkerRow
  BY Typed, <1>2 DEF WorkerRow, EventRow, IInv, CallTyped
<1>5. /\ importer' \in [Importers -> WorkerRow] /\ importer'[w] = row
      /\ \A v \in Importers : v # w => importer'[v] = importer[v]
  BY <1>1, <1>4, Typed
<1>6. CallTyped'
  BY <1>1, <1>2, <1>3, <1>5 DEF IInv, CallTyped
<1>7. Held'
  BY <1>3, <1>5 DEF Held
<1>8. Heeded' /\ UnheardAlone'
  BY <1>1, <1>3 DEF IInv, Heeded, UnheardAlone
<1> QED
  BY <1>3, <1>6, <1>7, <1>8 DEF IInv, RejectionRests, LeadIsJudged, ReviewIsDecidable

LEMMA ClaimAgesStep ==
  ASSUME IInv, NEW w \in Importers, ClaimAges(w) \/ ClaimOutrun(w)
  PROVE  IInv'
<1>1. /\ event.status = "processing" /\ event' = [event EXCEPT !.stale = TRUE]
      /\ UNCHANGED <<cdr, mapped, reviews, importer, said>>
  BY DEF ClaimAges, ClaimOutrun, ClaimOf
<1>2. /\ event' \in EventRow /\ event'.status = "processing" /\ event'.result = event.result
      /\ event'.digest = event.digest /\ event'.claim = event.claim
      /\ event'.retries = event.retries
  BY <1>1, Typed DEF EventRow
<1>3. CallTyped' /\ Held'
  BY <1>1, <1>2 DEF IInv, CallTyped, Held
<1>4. Heeded' /\ UnheardAlone'
  BY <1>1, <1>2 DEF IInv, Heeded, UnheardAlone
<1> QED BY <1>2, <1>3, <1>4 DEF IInv, RejectionRests, LeadIsJudged, ReviewIsDecidable

-----------------------------------------------------------------------------
(* What people do. *)

LEMMA MapCampaignStep ==
  ASSUME IInv, MapCampaign
  PROVE  IInv'
<1>1. CASE event.status = "quarantined" /\ event.result.code = "campaign_workflow_unmapped"
  <2> DEFINE r == [event.result EXCEPT !.outcome = "awaiting_mapping"]
  <2>1. /\ event' = [event EXCEPT !.status = "pending", !.retries = 0, !.result = r]
        /\ reviews' = {} /\ mapped' \in BOOLEAN /\ UNCHANGED <<cdr, importer, said>>
    BY <1>1 DEF MapCampaign
  <2>2. r \in Results /\ r.word = event.result.word /\ r.on = event.result.on
        /\ r.unheard = event.result.unheard /\ r.outcome # "rejected"
    BY Typed DEF Results
  <2> HIDE DEF r
  <2>3. /\ event' \in EventRow /\ event'.status = "pending" /\ event'.result = r
        /\ event'.digest = event.digest
    BY <2>1, <2>2, Typed DEF EventRow
  <2>4. CallTyped'
    BY <1>1, <2>1, <2>3 DEF IInv, CallTyped
  <2>5. Heeded' /\ UnheardAlone'
    BY <2>1, <2>2, <2>3 DEF IInv, Heeded, UnheardAlone
  <2> QED BY <2>3, <2>4, <2>5, Waits
<1>2. CASE ~(event.status = "quarantined" /\ event.result.code = "campaign_workflow_unmapped")
  BY <1>2, QuietStep DEF MapCampaign, IInv, CallTyped
<1> QED BY <1>1, <1>2

(* A decision on a review: the word it writes, and what a person has said. *)
LEMMA DecisionIs ==
  ASSUME IInv, NEW rv, Decidable(rv), NEW word \in {Absent, "approved", "rejected"},
         NEW on \in {Absent, OnFile}, word # Absent => on = OnFile,
         NEW outcome \in {event.result.outcome, "rejected"},
         NEW status \in {"pending", "processed", "quarantined"}, NEW retries \in Nat,
         event' = Decided(status, retries,
                          [event.result EXCEPT !.word = word, !.on = on, !.outcome = outcome]),
         said' \in Word, said'.of = event.digest, word # Absent => said'.what = word,
         reviews' = reviews \ {rv}, UNCHANGED <<cdr, mapped, importer>>
  PROVE  /\ CallTyped' /\ Heeded' /\ UnheardAlone'
         /\ event'.status = status /\ event'.digest = event.digest
         /\ event'.claim = Absent /\ ~event'.stale
         /\ event'.result.word = word /\ event'.result.on = on
         /\ event'.result.outcome = outcome /\ OnFile' = OnFile
<1> DEFINE r == [event.result EXCEPT !.word = word, !.on = on, !.outcome = outcome]
<1>1. rv \in reviews /\ OnFile \in Evidence /\ event.digest \in Dispositions
      /\ OnFile[1] = event.digest
  BY DEF Decidable, IInv, CallTyped, OnFile, Fingerprint, Evidence
<1>2. ~event.result.unheard
  BY <1>1 DEF IInv, UnheardAlone
<1>3. /\ r \in Results /\ r.word = word /\ r.on = on /\ r.outcome = outcome
      /\ r.unheard = event.result.unheard /\ r.text = event.result.text
  BY <1>1, Typed DEF Results, Evidence
<1> HIDE DEF r
<1>4. event' = [event EXCEPT !.status = status, !.retries = retries, !.result = r,
                             !.claim = Absent, !.stale = FALSE]
  BY DEF Decided, r
<1>5. /\ event' \in EventRow /\ event'.status = status /\ event'.result = r
      /\ event'.digest = event.digest /\ event'.claim = Absent /\ ~event'.stale
  BY <1>3, <1>4, Typed DEF EventRow
<1>6. CallTyped'
  BY <1>1, <1>5 DEF IInv, CallTyped
<1>7. Heeded'
  BY <1>1, <1>3, <1>5 DEF Heeded
<1>8. UnheardAlone'
  BY <1>2, <1>3, <1>5 DEF UnheardAlone
<1> QED BY <1>3, <1>5, <1>6, <1>7, <1>8 DEF OnFile

LEMMA ApproveStep ==
  ASSUME IInv, NEW rv, ApproveCall(rv)
  PROVE  IInv'
<1> DEFINE r == [event.result EXCEPT !.word = "approved", !.on = OnFile]
<1>1. /\ Decidable(rv) /\ event' = Decided("pending", 0, r) /\ reviews' = reviews \ {rv}
      /\ said' = [what |-> "approved", of |-> event.digest]
      /\ UNCHANGED <<cdr, mapped, importer>>
  BY DEF ApproveCall
<1>2. said' \in Word
  BY <1>1, Typed DEF Word, EventRow
<1>3. r = [event.result EXCEPT !.word = "approved", !.on = OnFile,
                               !.outcome = event.result.outcome]
  BY Typed DEF Results
<1> HIDE DEF r
<1>4. /\ CallTyped' /\ Heeded' /\ UnheardAlone' /\ event'.status = "pending"
  BY <1>1, <1>2, <1>3, DecisionIs
<1> QED BY <1>4, Waits

LEMMA RejectStep ==
  ASSUME IInv, NEW rv, RejectCall(rv)
  PROVE  IInv'
<1>1. /\ Decidable(rv) /\ reviews' = reviews \ {rv}
      /\ event' = Decided("processed", event.retries,
                    [event.result EXCEPT !.word = "rejected", !.on = OnFile,
                                         !.outcome = "rejected"])
      /\ said' = [what |-> "rejected", of |-> event.digest]
      /\ UNCHANGED <<cdr, mapped, importer>>
  BY DEF RejectCall
<1>2. said' \in Word /\ event.retries \in Nat
  BY <1>1, Typed DEF Word, EventRow
<1>3. /\ CallTyped' /\ Heeded' /\ UnheardAlone' /\ event'.status = "processed"
      /\ event'.claim = Absent /\ ~event'.stale /\ event'.result.word = "rejected"
      /\ event'.result.on = OnFile /\ event'.result.outcome = "rejected" /\ OnFile' = OnFile
  BY <1>1, <1>2, DecisionIs
<1> QED BY <1>3 DEF IInv, Held, RejectionRests, LeadIsJudged, ReviewIsDecidable

LEMMA CancelStep ==
  ASSUME IInv, NEW rv, CancelCall(rv)
  PROVE  IInv'
<1> DEFINE r == [event.result EXCEPT !.word = Absent, !.on = Absent]
<1>1. /\ Decidable(rv) /\ reviews' = reviews \ {rv}
      /\ event' = Decided("quarantined", event.retries, r)
      /\ said' = [what |-> "cancelled", of |-> event.digest]
      /\ UNCHANGED <<cdr, mapped, importer>>
  BY DEF CancelCall
<1>2. said' \in Word /\ event.retries \in Nat
  BY <1>1, Typed DEF Word, EventRow
<1>3. r = [event.result EXCEPT !.word = Absent, !.on = Absent, !.outcome = event.result.outcome]
  BY Typed DEF Results
<1> HIDE DEF r
<1>4. /\ CallTyped' /\ Heeded' /\ UnheardAlone' /\ event'.status = "quarantined"
      /\ event'.digest = event.digest
  BY <1>1, <1>2, <1>3, DecisionIs
<1> QED BY <1>1, <1>4 DEF IInv, Held, RejectionRests, LeadIsJudged, ReviewIsDecidable, Says

-----------------------------------------------------------------------------
(* Judgements. *)

(* What a judgement may write on the report on file. *)
Fit(status, result, pending) ==
  /\ status \in {"retry", "processed", "quarantined", "exhausted"} /\ result \in Results
  /\ \A rv \in pending : rv.on \in Evidence
  /\ result.word # Absent => said.what = result.word /\ said.of = result.on[1]
  /\ result.unheard => result.word = Absent /\ pending = {} /\ result.outcome # "rejected"
  /\ status = "processed" /\ result.outcome = "rejected" =>
       result.word = "rejected" /\ result.on = Fingerprint(event.digest, result.text)
  /\ status = "processed" /\ result.outcome = "lead" =>
       /\ result.source = event.digest
       /\ event.digest \in Warm \/ (event.digest \in Unmapped /\ Says("approved"))
       /\ result.text = Absent => Says("approved")
       /\ pending = {}
  /\ status = "quarantined" =>
       \E rv \in pending : rv.on = Fingerprint(event.digest, result.text)

LEMMA CommitKeeps ==
  ASSUME Instance, IInv, NEW w \in Importers, NEW status, NEW retries, NEW result, NEW pending,
         Commits(w, status, retries, result, pending),
         Holds(w) => Fit(status, result, pending) /\ retries \in Nat
  PROVE  IInv'
<1>1. /\ importer' = [importer EXCEPT ![w] = CallIdle] /\ UNCHANGED <<cdr, mapped, said>>
  BY DEF Commits
<1>2. CASE Holds(w)
  <2>1. /\ event' = [event EXCEPT !.status = status, !.retries = retries, !.result = result,
                                  !.claim = Absent, !.stale = FALSE]
        /\ reviews' = pending
    BY <1>2 DEF Commits
  <2>2. /\ event' \in EventRow /\ event'.status = status /\ event'.result = result
        /\ event'.digest = event.digest /\ event'.claim = Absent /\ ~event'.stale
    BY <1>2, <2>1, Typed DEF EventRow, Fit
  <2>3. event.digest \in Dispositions
    BY <1>2 DEF Holds, IInv, CallTyped
  <2>4. /\ importer' \in [Importers -> WorkerRow]
        /\ \A v \in Importers : importer'[v] \in {importer[v], CallIdle}
    BY <1>1, BlankTyped, Typed
  <2>5. CallTyped'
    BY <1>1, <1>2, <2>1, <2>2, <2>3, <2>4 DEF IInv, CallTyped, CallIdle, Fit
  <2>6. Held'
    BY <1>2, <2>2 DEF Held, Fit
  <2>7. Heeded' /\ UnheardAlone'
    BY <1>1, <1>2, <2>1, <2>2 DEF Heeded, UnheardAlone, Fit
  <2>8. RejectionRests'
    BY <1>2, <2>2 DEF RejectionRests, Fit, OnFile
  <2>9. LeadIsJudged'
    BY <1>1, <1>2, <2>1, <2>2 DEF LeadIsJudged, Fit, Says
  <2>10. ReviewIsDecidable'
    BY <1>2, <2>1, <2>2 DEF ReviewIsDecidable, Decidable, Fit, OnFile
  <2> QED BY <2>5, <2>6, <2>7, <2>8, <2>9, <2>10 DEF IInv
<1>3. CASE ~Holds(w)
  BY <1>1, <1>3, BlankTyped, WorkerMoves DEF Commits, CallIdle
<1> QED BY <1>2, <1>3

(* The worker that may write has read what is on file. *)
LEMMA HolderIs ==
  ASSUME IInv, NEW w \in Importers, importer[w].at = "judging", Holds(w)
  PROVE  /\ importer[w].result = event.result /\ importer[w].digest = event.digest
         /\ event.digest \in Dispositions /\ event.retries \in Nat \ {0}
         /\ event.result \in Results
         /\ event.result.word # Absent =>
              said.what = event.result.word /\ said.of = event.result.on[1]
         /\ event.result.unheard =>
              event.result.word = Absent /\ reviews = {} /\ event.result.outcome # "rejected"
         /\ \A rv \in reviews : rv.on \in Evidence
  BY Typed DEF Holds, IInv, Held, CallTyped, EventRow, Heeded, UnheardAlone

Codes ==
  Overridable \cup {"provider_conflict", "transcript_conflict", "transcript_unavailable",
                   "provider_processing_error", "campaign_workflow_unmapped",
                   "existing_lead_disposition_conflict"}

(* A review keeps the result that was judged, or nothing of it. *)
LEMMA ReviewKeeps ==
  ASSUME Instance, IInv, NEW w \in Importers, NEW retries, NEW code \in Codes,
         NEW t \in Transcripts \cup {Absent}, NEW fetches \in 0..MaxFetches,
         NEW prior \in {importer[w].result, Blank},
         Review(w, prior, retries, code, t, fetches),
         Holds(w) => retries \in Nat
  PROVE  IInv'
<1> DEFINE result == ForReview(prior, importer[w].digest, code, t, fetches)
           pending == Ensure(Fingerprint(importer[w].digest, t), code)
<1>1. Commits(w, "quarantined", retries, result, pending) /\ importer[w].at = "judging"
  BY DEF Review, Commits
<1>2. ASSUME Holds(w)
      PROVE  Fit("quarantined", result, pending)
  <2> prior \in Results /\ (prior.word # Absent => prior = event.result)
    <3>1. importer[w].result = event.result /\ event.result \in Results
      BY <1>1, <1>2, HolderIs
    <3>2. Blank \in Results /\ Blank.word = Absent
      BY BlankTyped DEF Blank
    <3> QED BY <3>1, <3>2
  <2>1. /\ result \in Results /\ ~result.unheard /\ result.outcome = "review"
        /\ result.text = t /\ result.word = prior.word /\ result.on = prior.on
    BY <1>1, <1>2, HolderIs DEF ForReview, Results, Codes
  <2>2. /\ \A rv \in pending : rv.on \in Evidence
        /\ \E rv \in pending : rv.on = Fingerprint(event.digest, t)
    BY <1>1, <1>2, HolderIs DEF Ensure, Fingerprint, Evidence
  <2> HIDE DEF result, pending
  <2> QED BY <1>1, <1>2, <2>1, <2>2, HolderIs DEF Fit
<1> HIDE DEF result, pending
<1> QED BY <1>1, <1>2, CommitKeeps

LEMMA ToReviewKeeps ==
  ASSUME Instance, IInv, NEW w \in Importers, NEW retries, NEW code \in Codes,
         NEW t \in Transcripts \cup {Absent}, NEW fetches \in 0..MaxFetches,
         ToReviewAt(w, retries, code, t, fetches),
         Holds(w) => retries \in Nat
  PROVE  IInv'
  BY ReviewKeeps DEF ToReviewAt

LEMMA ToReviewStep ==
  ASSUME Instance, IInv, NEW w \in Importers, NEW code \in Codes,
         NEW t \in Transcripts \cup {Absent}, NEW fetches \in 0..MaxFetches,
         ToReview(w, code, t, fetches)
  PROVE  IInv'
<1>1. importer[w].at = "judging"
  BY DEF ToReview, ToReviewAt, Review, Commits
<1>2. Holds(w) => event.retries \in Nat
  BY <1>1, HolderIs
<1> QED BY <1>2, ToReviewKeeps DEF ToReview

(* A review of a report whose transcript was not fetched. *)
LEMMA UnfetchedStep ==
  ASSUME Instance, IInv, NEW w \in Importers, NEW code \in Codes,
         ToReview(w, code, Absent, 0)
  PROVE  IInv'
<1>1. 0 \in 0..MaxFetches
  BY DEF Instance
<1> QED BY <1>1, ToReviewStep

LEMMA NoRouteStep ==
  ASSUME Instance, IInv, NEW w \in Importers, NoRoute(w)
  PROVE  IInv'
<1>1. importer[w].at = "judging"
  BY DEF NoRoute, Review, Commits
<1>2. Holds(w) => event.retries \in Nat
  BY <1>1, HolderIs
<1>3. 0 \in 0..MaxFetches
  BY DEF Instance
<1>4. PICK prior \in {importer[w].result, Blank} :
        Review(w, prior, event.retries, "campaign_workflow_unmapped", Absent, 0)
  BY DEF NoRoute
<1> QED BY <1>2, <1>3, <1>4, ReviewKeeps DEF Codes

LEMMA ConflictStep ==
  ASSUME Instance, IInv, NEW w \in Importers, Conflict(w) \/ UnknownDisposition(w)
  PROVE  IInv'
<1>1. \E code \in {"provider_conflict", "unknown_disposition"} : ToReview(w, code, Absent, 0)
  BY DEF Conflict, UnknownDisposition
<1> QED
  BY <1>1, UnfetchedStep DEF Codes, Overridable

LEMMA StaysRejectedStep ==
  ASSUME Instance, IInv, NEW w \in Importers, StaysRejected(w)
  PROVE  IInv'
<1> DEFINE result == [importer[w].result EXCEPT !.outcome = "rejected"]
<1>1. /\ Commits(w, "processed", event.retries, result, reviews)
      /\ importer[w].at = "judging" /\ Override(w) = "rejected"
  BY DEF StaysRejected, Commits
<1>2. ASSUME Holds(w)
      PROVE  Fit("processed", result, reviews)
  <2>1. /\ event.result.word = "rejected"
        /\ event.result.on = Fingerprint(event.digest, event.result.text)
    BY <1>1, <1>2, HolderIs DEF Override, Instance
  <2>2. /\ result \in Results /\ result.word = event.result.word
        /\ result.on = event.result.on /\ result.unheard = event.result.unheard
        /\ result.text = event.result.text /\ result.outcome = "rejected"
    BY <1>1, <1>2, HolderIs DEF Results
  <2> HIDE DEF result
  <2> QED BY <1>1, <1>2, <2>1, <2>2, HolderIs DEF Fit, Instance
<1> HIDE DEF result
<1> QED BY <1>1, <1>2, CommitKeeps, HolderIs

LEMMA NonLeadStep ==
  ASSUME Instance, IInv, NEW w \in Importers, NonLead(w)
  PROVE  IInv'
<1>1. CASE importer[w].result.lead
  BY <1>1, UnfetchedStep DEF NonLead, Codes
<1>2. CASE ~importer[w].result.lead
  <2> DEFINE result == [Blank EXCEPT !.outcome = "ignored"]
  <2>1. /\ Commits(w, "processed", event.retries, result, reviews)
        /\ importer[w].at = "judging"
    BY <1>2 DEF NonLead, Commits
  <2>2. result \in Results /\ result.word = Absent /\ ~result.unheard /\ result.outcome = "ignored"
    BY BlankTyped DEF Blank, Results
  <2> HIDE DEF result
  <2>3. ASSUME Holds(w) PROVE Fit("processed", result, reviews)
    BY <2>1, <2>2, <2>3, HolderIs DEF Fit
  <2> QED BY <2>1, <2>3, CommitKeeps, HolderIs
<1> QED BY <1>1, <1>2

(* A lead: of a candidate, with a transcript that was heard or a person's  *)
(* approval on the report.                                                 *)
LEMMA ToLeadKeeps ==
  ASSUME Instance, IInv, NEW w \in Importers, NEW t \in Transcripts \cup {Absent},
         NEW code \in {"human_override", "evidence_confirmed"},
         IsCandidate(w), ToLead(w, code, t),
         t # Absent \/ Override(w) = "approved"
  PROVE  IInv'
<1> DEFINE n == IF t = Absent THEN 0 ELSE Fetches(w)
           u == t = Absent
           result == [Blank EXCEPT !.outcome = "lead", !.lead = TRUE, !.code = code,
                        !.source = importer[w].digest, !.text = t,
                        !.fetches = n, !.unheard = u]
<1>1. Commits(w, "processed", event.retries, result, {}) /\ importer[w].at = "judging"
  BY DEF ToLead, Commits
<1>2. n \in 0..MaxFetches
  BY FetchesTyped DEF Instance
<1>4. u \in BOOLEAN
  OBVIOUS
<1> HIDE DEF n, u
<1>3. ASSUME Holds(w)
      PROVE  Fit("processed", result, {})
  <2>1. Override(w) = "approved" => Says("approved")
    BY <1>1, <1>3, HolderIs DEF Override, Fingerprint, Instance, Says, IInv, CallTyped, Word
  <2>2. event.digest \in Warm \/ (event.digest \in Unmapped /\ Says("approved"))
    BY <1>1, <1>3, <2>1, HolderIs DEF IsCandidate, MappedByPerson
  <2>3. /\ result \in Results /\ result.word = Absent /\ result.outcome = "lead"
        /\ result.source = event.digest /\ result.text = t
    <3>1. importer[w].digest \in Dispositions /\ importer[w].digest = event.digest
      BY <1>1, <1>3, HolderIs
    <3>2. Blank.word = Absent
      BY DEF Blank
    <3> QED BY <1>2, <1>4, <3>1, <3>2, BlankTyped DEF Results
  <2> HIDE DEF result
  <2> QED BY <2>1, <2>2, <2>3 DEF Fit
<1> HIDE DEF result
<1> QED BY <1>1, <1>3, CommitKeeps, HolderIs

LEMMA ApprovedByPersonStep ==
  ASSUME Instance, IInv, NEW w \in Importers, ApprovedByPerson(w)
  PROVE  IInv'
<1>1. PICK t \in Transcripts \cup {Absent} :
        IF importer[w].result.on = Fingerprint(importer[w].digest, t)
        THEN ToLead(w, "human_override", t)
        ELSE ToReview(w, "evidence_changed_after_review", t,
                      IF t = Absent THEN 0 ELSE Fetches(w))
  BY DEF ApprovedByPerson
<1>2. IsCandidate(w) /\ Override(w) = "approved"
  BY DEF ApprovedByPerson, Goes, ByPerson
<1>3. CASE importer[w].result.on = Fingerprint(importer[w].digest, t)
  BY <1>1, <1>2, <1>3, ToLeadKeeps
<1>4. CASE importer[w].result.on # Fingerprint(importer[w].digest, t)
  <2>1. (IF t = Absent THEN 0 ELSE Fetches(w)) \in 0..MaxFetches
    BY FetchesTyped DEF Instance
  <2>2. "evidence_changed_after_review" \in Codes
    BY DEF Codes, Overridable
  <2> QED BY <1>1, <1>4, <2>1, <2>2, ToReviewStep
<1> QED BY <1>3, <1>4

LEMMA ClassifiedStep ==
  ASSUME Instance, IInv, NEW w \in Importers, Classified(w)
  PROVE  IInv'
<1>1. PICK t \in Transcripts :
        \/ ToLead(w, "evidence_confirmed", t)
        \/ \E code \in {"qualification_low_confidence", "transcript_conflict"} :
             ToReview(w, code, t, Fetches(w))
  BY DEF Classified
<1>2. IsCandidate(w) /\ t # Absent
  BY DEF Classified, Goes, Instance
<1>3. CASE ToLead(w, "evidence_confirmed", t)
  BY <1>2, <1>3, ToLeadKeeps
<1>4. ASSUME NEW code \in {"qualification_low_confidence", "transcript_conflict"},
             ToReview(w, code, t, Fetches(w))
      PROVE  IInv'
  <2>1. code \in Codes
    BY DEF Codes, Overridable
  <2> QED BY <1>4, <2>1, FetchesTyped, ToReviewStep
<1> QED BY <1>1, <1>3, <1>4

LEMMA TranscriptNotReadyStep ==
  ASSUME Instance, IInv, NEW w \in Importers, TranscriptNotReady(w)
  PROVE  IInv'
<1> DEFINE r == importer[w].result
           d == importer[w].digest
           kept == IF r.source = d THEN r.text ELSE Absent
           result == [r EXCEPT !.outcome = "awaiting", !.code = "transcript_not_ready",
                               !.source = d, !.text = kept, !.fetches = Fetches(w)]
<1>1. CASE ToReviewAt(w, event.retries - 1, "transcript_unavailable", Absent, Fetches(w))
  <2>1. importer[w].at = "judging"
    BY <1>1 DEF ToReviewAt, Review, Commits
  <2>2. Holds(w) => event.retries - 1 \in Nat
    BY <2>1, HolderIs
  <2> QED BY <1>1, <2>2, FetchesTyped, ToReviewKeeps DEF Codes
<1>2. CASE Commits(w, "retry", event.retries - 1, result, reviews)
  <2>1. importer[w].at = "judging"
    BY <1>2 DEF Commits
  <2>2. ASSUME Holds(w)
        PROVE  Fit("retry", result, reviews) /\ event.retries - 1 \in Nat
    <3>1. event.retries - 1 \in Nat
      BY <2>1, <2>2, HolderIs
    <3>2. r \in Results /\ d \in Dispositions /\ kept \in Transcripts \cup {Absent}
      BY <2>1, <2>2, HolderIs DEF Results
    <3>3. /\ result \in Results /\ result.word = r.word /\ result.on = r.on
          /\ result.unheard = r.unheard /\ result.outcome = "awaiting"
      BY <3>2, FetchesTyped DEF Results
    <3> HIDE DEF result
    <3> QED BY <2>1, <2>2, <3>1, <3>3, HolderIs DEF Fit
  <2> HIDE DEF result
  <2> QED BY <1>2, <2>2, CommitKeeps
<1>3. \/ ToReviewAt(w, event.retries - 1, "transcript_unavailable", Absent, Fetches(w))
      \/ Commits(w, "retry", event.retries - 1, result, reviews)
  BY DEF TranscriptNotReady
<1> QED BY <1>1, <1>2, <1>3

LEMMA FailsStep ==
  ASSUME Instance, IInv, NEW w \in Importers, Fails(w)
  PROVE  IInv'
<1>1. CASE ToReview(w, "provider_processing_error", Absent, 0)
  BY <1>1, UnfetchedStep DEF Codes
<1>2. ASSUME NEW status \in {"retry", "exhausted"},
             Commits(w, status, event.retries, importer[w].result, reviews)
      PROVE  IInv'
  <2>1. importer[w].at = "judging"
    BY <1>2 DEF Commits
  <2>2. ASSUME Holds(w) PROVE Fit(status, importer[w].result, reviews) /\ event.retries \in Nat
    BY <2>1, <2>2, HolderIs DEF Fit
  <2> QED BY <1>2, <2>2, CommitKeeps
<1> QED BY <1>1, <1>2 DEF Fails

LEMMA JudgeStep ==
  ASSUME Instance, IInv, NEW w \in Importers, Judge(w)
  PROVE  IInv'
  BY NoRouteStep, ConflictStep, StaysRejectedStep, NonLeadStep, ApprovedByPersonStep,
     ClassifiedStep, TranscriptNotReadyStep, FailsStep DEF Judge

-----------------------------------------------------------------------------
LEMMA InitHolds ==
  ASSUME Instance, CallInit
  PROVE  IInv
<1>1. /\ cdr \in Dispositions /\ mapped = FALSE /\ reviews = {} /\ event.status = "absent"
      /\ event.result = Blank /\ importer = [w \in Importers |-> CallIdle]
      /\ said = [what |-> Absent, of |-> Absent]
      /\ event \in EventRow
  BY BlankTyped DEF CallInit, EventRow
<1>2. CallTyped
  BY <1>1, BlankTyped DEF CallTyped, Word, CallIdle
<1>3. event.result.word = Absent /\ ~event.result.unheard
  BY <1>1 DEF Blank
<1> QED
  BY <1>1, <1>2, <1>3
     DEF IInv, Held, Heeded, UnheardAlone, RejectionRests, LeadIsJudged, ReviewIsDecidable

LEMMA NextHolds ==
  ASSUME Instance, IInv, [CallNext]_callVars
  PROVE  IInv'
<1>1. CASE ProviderCorrects \/ UnmapCampaign \/ PollLeaseExpires \/ UNCHANGED callVars
  BY <1>1, QuietStep DEF ProviderCorrects, UnmapCampaign, PollLeaseExpires, callVars, IInv, CallTyped
<1>2. CASE MapCampaign
  BY <1>2, MapCampaignStep
<1>3. ASSUME NEW w \in Importers, Fetch(w) \/ Archive(w) \/ PollFails(w) \/ CallCrash(w)
      PROVE  IInv'
  BY <1>3, FetchStep, ArchiveStep, WorkerStops
<1>4. ASSUME NEW w \in Importers, ClaimCall(w) \/ ClaimAges(w) \/ ClaimOutrun(w) \/ Judge(w)
      PROVE  IInv'
  BY <1>4, ClaimCallStep, ClaimAgesStep, JudgeStep
<1>5. ASSUME NEW rv, ApproveCall(rv) \/ RejectCall(rv) \/ CancelCall(rv)
      PROVE  IInv'
  BY <1>5, ApproveStep, RejectStep, CancelStep
<1> QED BY <1>1, <1>2, <1>3, <1>4, <1>5 DEF CallNext

LEMMA Invariance == ASSUME Instance PROVE CallSpec => []IInv
<1>1. CallInit => IInv
  BY InitHolds
<1>2. IInv /\ [CallNext]_callVars => IInv'
  BY NextHolds
<1> QED BY <1>1, <1>2, PTL DEF CallSpec

-----------------------------------------------------------------------------
(* What makes a lead, and what waits for a person, is what is on file: a   *)
(* call that counts as a lead was judged on the archived report, which is  *)
(* a warm one or was approved by the person who spoke last, and a call in  *)
(* quarantine has a review that can still be decided, whatever the         *)
(* provider corrected and whoever died while it was judged.                *)
THEOREM LeadsRestOnEvidence == ASSUME Instance PROVE CallSpec => []LeadRestsOnEvidence
<1>1. IInv => LeadRestsOnEvidence
  BY DEF IInv, LeadRestsOnEvidence
<1> QED BY <1>1, Invariance, PTL

LEMMA RejectedStep ==
  ASSUME Instance, IInv, [CallNext]_callVars, event.status = "processed",
         event.result.outcome = "rejected", event'.digest = event.digest
  PROVE  event' = event \/ said' # said
<1>1. ~event.result.unheard
  BY DEF IInv, UnheardAlone
<1>2. CASE UNCHANGED event
  BY <1>2
<1>3. ASSUME NEW w \in Importers, Archive(w)
      PROVE  event' = event
  <2>1. importer[w].digest # event.digest => event'.digest # event.digest
    BY <1>3, Typed DEF Archive, Archived, EventRow
  <2> QED BY <1>1, <1>3, <2>1 DEF Archive, RecheckDue
<1>4. ASSUME NEW w \in Importers,
             ClaimCall(w) \/ ClaimAges(w) \/ ClaimOutrun(w) \/ MapCampaign
      PROVE  event' = event
  BY <1>4 DEF ClaimCall, CallClaimable, ClaimAges, ClaimOutrun, ClaimOf, MapCampaign
<1>5. ASSUME NEW w \in Importers, Judge(w)
      PROVE  event' = event
  <2>1. PICK status, retries, result, pending : Commits(w, status, retries, result, pending)
    BY <1>5 DEF Judge, NoRoute, StaysRejected, UnknownDisposition, NonLead, Conflict,
                ApprovedByPerson, Classified, TranscriptNotReady, Fails, ToReview, ToReviewAt, Review, ToLead
  <2> QED BY <2>1 DEF Commits, Holds
<1>6. ASSUME NEW rv, ApproveCall(rv) \/ CancelCall(rv)
      PROVE  said' # said
  <2>1. said.what = "rejected"
    BY DEF IInv, Heeded, RejectionRests, Instance
  <2> QED BY <1>6, <2>1 DEF ApproveCall, CancelCall
<1>7. ASSUME NEW rv, RejectCall(rv)
      PROVE  event' = event
  <2> DEFINE r == [event.result EXCEPT !.word = "rejected", !.on = OnFile,
                                       !.outcome = "rejected"]
  <2>1. /\ event.result.word = "rejected" /\ event.result.on = OnFile
        /\ event.claim = Absent /\ ~event.stale
    BY DEF IInv, RejectionRests
  <2>2. r = event.result
    BY <2>1, Typed DEF Results
  <2>3. event' = [event EXCEPT !.status = "processed", !.retries = event.retries, !.result = r,
                               !.claim = Absent, !.stale = FALSE]
    BY <1>7 DEF RejectCall, Decided
  <2> HIDE DEF r
  <2> QED BY <2>1, <2>2, <2>3, Typed DEF EventRow
<1> QED
  BY <1>2, <1>3, <1>4, <1>5, <1>6, <1>7
     DEF CallNext, callVars, ProviderCorrects, UnmapCampaign, PollLeaseExpires, Fetch, PollFails, CallCrash,
         MapCampaign

(* What a person has rejected is left alone until the report changes or a  *)
(* person decides again: no recheck, late judgement or repeated archive    *)
(* brings it back.                                                         *)
THEOREM RejectionsHold == ASSUME Instance PROVE CallSpec => RejectedStays
<1> DEFINE Step == event.status = "processed" /\ event.result.outcome = "rejected"
                     /\ event'.digest = event.digest => event' = event \/ said' # said
<1>1. IInv /\ [CallNext]_callVars => [Step]_callVars
  BY RejectedStep
<1>2. CallSpec => [][Step]_callVars
  BY <1>1, Invariance, PTL DEF CallSpec
<1> QED BY <1>2 DEF RejectedStays
=============================================================================
