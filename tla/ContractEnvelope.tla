-------------------------- MODULE ContractEnvelope --------------------------
(***************************************************************************)
(* One transaction with its purchase-agreement packages, their signature   *)
(* envelopes and the documents the e-sign provider holds for them          *)
(* (services/esign.py, transactions.py, contract_authority*.py).  A send    *)
(* is three transactions with two provider calls between them; webhooks,    *)
(* manual reconciliation, recovery and the managers' own commands come in   *)
(* between, and a request may die at every commit.                          *)
(***************************************************************************)
EXTENDS Naturals, FiniteSets

CONSTANTS Packages,      \* package versions of the transaction
          Envelopes,     \* the signature requests there is room for
          Staff,         \* requests under way at the same time
          Emitted,       \* bound: the reports of the provider that are explored
          MaxAuthority   \* bound: number of the last offer authority

VARIABLES leadOpen,   \* the lead is neither archived nor in a terminal stage
          deal,       \* status of the transaction
          authority,  \* the current offer authority: its number; fit when approved
          package,    \* ContractPackage: status, the authority it was drafted on
          envelope,   \* EsignEnvelope: status, package, provider id known, filed document
          paper,      \* the provider's document of an envelope
          raised,     \* events the provider has emitted for it
          taken,      \* events recorded as EsignProviderEvent
          desk        \* what each request under way is about to do

contractVars == <<leadOpen, deal, authority, package, envelope, paper, raised, taken, desk>>
local == <<leadOpen, deal, authority, package, envelope>>

Finished == {"completed", "declined", "expired", "cancelled", "error"}
ClosedDeal == {"cancelled", "funded"}
PaperFailures == {"declined", "expired", "cancelled", "error"}
Events == {"draft", "created", "sent", "viewed", "bounced", "completed"} \cup PaperFailures
DeliveryEvents == {"sent", "viewed", "bounced", "completed", "declined", "expired"}
Uncertain == {"creating_draft", "draft_creation_uncertain"}
EnvelopeStatus == Uncertain \cup {"none", "sending", "send_uncertain"} \cup Events
PackageStatus == {"none", "draft", "pending_approval", "approved", "sending", "sent",
                  "executed", "void"}

(* ENVELOPE_STATUS_ORDER; every other status has no order.                 *)
Order == [draft |-> 0, created |-> 1, sent |-> 2, viewed |-> 3]
Behind(next, status) == /\ {next, status} \subseteq DOMAIN Order
                        /\ Order[next] < Order[status]

Live(e) == envelope[e].status \notin Finished \cup {"none"}
LiveOf(p) == {e \in Envelopes : Live(e) /\ envelope[e].package = p}
Valid(p) == authority.fit /\ package[p].basis = authority.number
Frozen == \E p \in Packages : package[p].status \in {"sending", "sent"}
Open == deal \notin ClosedDeal
Idle == [phase |-> "idle"]
At(s, phase) == desk[s].phase = phase
Signable(e) == paper[e] \in {"sent", "viewed"}

Init ==
    /\ leadOpen = TRUE
    /\ deal = "contract_prep"
    /\ authority = [number |-> 1, fit |-> TRUE]
    /\ package = [p \in Packages |-> [status |-> "none", basis |-> 0]]
    /\ envelope = [e \in Envelopes |->
                     [status |-> "none", package |-> 0, known |-> FALSE, filed |-> "none"]]
    /\ paper = [e \in Envelopes |-> "none"]
    /\ raised = [e \in Envelopes |-> {}]
    /\ taken = [e \in Envelopes |-> {}]
    /\ desk = [s \in Staff |-> Idle]

-----------------------------------------------------------------------------
(* Offer authority and the lead.                                           *)

(* A new agreement, concession or approved plan: refused while a purchase  *)
(* package is being delivered or signable.                                 *)
NewAuthority ==
    /\ leadOpen /\ ~Frozen
    /\ authority.number < MaxAuthority
    /\ authority' = [number |-> authority.number + 1, fit |-> TRUE]
    /\ UNCHANGED <<leadOpen, deal, package, envelope, paper, raised, taken, desk>>

(* A new offer plan puts its underwriting version to approval, and with it *)
(* out of "approved"; a rejection leaves it there.                          *)
RequestPlan ==
    /\ leadOpen /\ authority.fit
    /\ authority' = [authority EXCEPT !.fit = FALSE]
    /\ UNCHANGED <<leadOpen, deal, package, envelope, paper, raised, taken, desk>>

ArchiveLead ==
    /\ leadOpen
    /\ leadOpen' = FALSE
    /\ UNCHANGED <<deal, authority, package, envelope, paper, raised, taken, desk>>

RestoreLead ==
    /\ ~leadOpen /\ deal # "funded"
    /\ leadOpen' = TRUE
    /\ UNCHANGED <<deal, authority, package, envelope, paper, raised, taken, desk>>

-----------------------------------------------------------------------------
(* The package's life outside the provider.                                *)

SetPackage(p, status) == package' = [package EXCEPT ![p].status = status]
providerSide == <<paper, raised, taken, desk>>

CreatePackage(p) ==
    /\ Open /\ authority.fit
    /\ package[p].status = "none"
    /\ \A q \in Packages : q < p => package[q].status # "none"
    /\ package' = [package EXCEPT ![p] = [status |-> "draft", basis |-> authority.number]]
    /\ UNCHANGED <<leadOpen, deal, authority, envelope, providerSide>>

RequestApproval(p) ==
    /\ package[p].status = "draft" /\ Valid(p)
    /\ SetPackage(p, "pending_approval")
    /\ deal' = "approval_pending"
    /\ UNCHANGED <<leadOpen, authority, envelope, providerSide>>

(* decide_approval_request, the only caller of apply_contract_decision:    *)
(* every contract approval names its lead, which must be open.             *)
Decide(p, decision) ==
    /\ leadOpen
    /\ package[p].status = "pending_approval"
    /\ decision = "approved" => Valid(p)
    /\ SetPackage(p, decision)
    /\ deal' = "contract_prep"
    /\ UNCHANGED <<leadOpen, authority, envelope, providerSide>>

MarkSent(p) ==
    /\ package[p].status = "approved" /\ Valid(p)
    /\ SetPackage(p, "sent")
    /\ deal' = "sent"
    /\ UNCHANGED <<leadOpen, authority, envelope, providerSide>>

Withdraw(p) ==
    /\ package[p].status \in {"approved", "sent"}
    /\ LiveOf(p) = {}
    /\ \A e \in Envelopes : ~(envelope[e].package = p /\ envelope[e].status = "completed")
    /\ SetPackage(p, "void")
    /\ deal' = IF deal = "sent" THEN "contract_prep" ELSE deal
    /\ UNCHANGED <<leadOpen, authority, envelope, providerSide>>

MarkExecuted(p) ==
    /\ Open /\ leadOpen
    /\ package[p].status \in {"approved", "sent"} /\ Valid(p)
    /\ SetPackage(p, "executed")
    /\ deal' = "executed"
    /\ UNCHANGED <<leadOpen, authority, envelope, providerSide>>

(* A contract signed elsewhere becomes a package of its own; drafts are    *)
(* retired with it.                                                        *)
ImportExecuted(p) ==
    /\ leadOpen /\ deal = "contract_prep"
    /\ package[p].status = "none"
    /\ \A q \in Packages : package[q].status \in {"none", "draft", "void"}
    /\ \A e \in Envelopes : ~Live(e) /\ envelope[e].status # "completed"
    /\ package' = [q \in Packages |->
                     IF q = p THEN [package[q] EXCEPT !.status = "executed"]
                     ELSE IF package[q].status = "draft"
                          THEN [package[q] EXCEPT !.status = "void"] ELSE package[q]]
    /\ deal' = "executed"
    /\ UNCHANGED <<leadOpen, authority, envelope, providerSide>>

Fund ==
    /\ Open /\ leadOpen
    /\ \E p \in Packages : package[p].status = "executed"
    /\ deal' = "funded"
    /\ leadOpen' = FALSE
    /\ UNCHANGED <<authority, package, envelope, providerSide>>

(* Faulty: only delivered packages stand in the way.                        *)
CancelUndelivered ==
    /\ Open
    /\ \A p \in Packages : package[p].status # "sent"
    /\ package' = [p \in Packages |->
                     IF package[p].status \in {"draft", "pending_approval", "approved"}
                     THEN [package[p] EXCEPT !.status = "void"] ELSE package[p]]
    /\ deal' = "cancelled"
    /\ UNCHANGED <<leadOpen, authority, envelope, providerSide>>

Cancel ==
    /\ Open
    /\ \A e \in Envelopes : ~Live(e)
    /\ ~Frozen
    /\ package' = [p \in Packages |->
                     IF package[p].status \in {"draft", "pending_approval", "approved"}
                     THEN [package[p] EXCEPT !.status = "void"] ELSE package[p]]
    /\ deal' = "cancelled"
    /\ UNCHANGED <<leadOpen, authority, envelope, providerSide>>

-----------------------------------------------------------------------------
(* Sending: reserve | provider creates | save | mark sending | provider     *)
(* sends | record, each a transaction or a call of its own.                *)

Reserve(s, p, e) ==
    /\ At(s, "idle")
    /\ LiveOf(p) = {}
    /\ package[p].status = "approved" /\ Valid(p)
    /\ envelope[e].status = "none"
    /\ \A f \in Envelopes : f < e => envelope[f].status # "none"
    /\ envelope' = [envelope EXCEPT ![e] = [@ EXCEPT !.status = "creating_draft", !.package = p]]
    /\ SetPackage(p, "sending")
    /\ desk' = [desk EXCEPT ![s] = [phase |-> "creating", envelope |-> e]]
    /\ UNCHANGED <<leadOpen, deal, authority, paper, raised, taken>>

(* Faulty: a failed send releases nothing but counts as an error.           *)
UncertainAsError(status, expected) ==
    IF status # expected THEN status
    ELSE IF status = "creating_draft" THEN "draft_creation_uncertain" ELSE "error"

(* Faulty: the phase is stored in place of the status.                      *)
UncertainAsPhase(status, expected) ==
    IF status # expected THEN status ELSE "authority_conflict_after_send"

(* mark_esign_intent_uncertain: only while the request is where it was.    *)
MadeUncertain(status, expected) ==
    IF status # expected THEN status
    ELSE IF status = "creating_draft" THEN "draft_creation_uncertain" ELSE "send_uncertain"

Create(s) ==
    /\ At(s, "creating")
    /\ LET e == desk[s].envelope IN
         /\ paper' = [paper EXCEPT ![e] = "draft"]
         /\ raised' = [raised EXCEPT ![e] = @ \cup ({"created"} \cap Emitted)]
         /\ desk' = [desk EXCEPT ![s].phase = "created"]
    /\ UNCHANGED <<local, taken>>

(* The call fails; the provider may have created the document all the same.*)
CreateFails(s) ==
    /\ At(s, "creating")
    /\ LET e == desk[s].envelope IN
         /\ \E made \in BOOLEAN :
              /\ paper' = IF made THEN [paper EXCEPT ![e] = "draft"] ELSE paper
              /\ raised' = IF made THEN [raised EXCEPT ![e] = @ \cup ({"created"} \cap Emitted)]
                           ELSE raised
         /\ envelope' = [envelope EXCEPT ![e].status = MadeUncertain(@, "creating_draft")]
    /\ desk' = [desk EXCEPT ![s] = Idle]
    /\ UNCHANGED <<leadOpen, deal, authority, package, taken>>

(* Faulty: the answer is saved whatever became of the intent.              *)
SaveDraftAnyhow(s) ==
    /\ At(s, "created")
    /\ envelope' = [envelope EXCEPT ![desk[s].envelope] =
                      [@ EXCEPT !.status = "draft", !.known = TRUE]]
    /\ desk' = [desk EXCEPT ![s].phase = "saved"]
    /\ UNCHANGED <<leadOpen, deal, authority, package, paper, raised, taken>>

SaveDraft(s) ==
    /\ At(s, "created")
    /\ LET e == desk[s].envelope IN
         IF envelope[e].status = "creating_draft" /\ ~envelope[e].known
         THEN /\ envelope' = [envelope EXCEPT ![e] = [@ EXCEPT !.status = "draft", !.known = TRUE]]
              /\ desk' = [desk EXCEPT ![s].phase = "saved"]
         ELSE /\ desk' = [desk EXCEPT ![s] = Idle]
              /\ UNCHANGED envelope
    /\ UNCHANGED <<leadOpen, deal, authority, package, paper, raised, taken>>

Resume(s, e) ==
    /\ At(s, "idle")
    /\ envelope[e].status = "draft" /\ envelope[e].known
    /\ desk' = [desk EXCEPT ![s] = [phase |-> "saved", envelope |-> e]]
    /\ UNCHANGED <<local, paper, raised, taken>>

MarkSending(s) ==
    /\ At(s, "saved")
    /\ LET e == desk[s].envelope
           p == envelope[e].package IN
         IF package[p].status = "sending" /\ envelope[e].status = "draft" /\ Valid(p)
         THEN /\ envelope' = [envelope EXCEPT ![e].status = "sending"]
              /\ desk' = [desk EXCEPT ![s].phase = "sending"]
         ELSE /\ desk' = [desk EXCEPT ![s] = Idle]
              /\ UNCHANGED envelope
    /\ UNCHANGED <<leadOpen, deal, authority, package, paper, raised, taken>>

Send(s) ==
    /\ At(s, "sending")
    /\ LET e == desk[s].envelope IN
         /\ paper[e] = "draft"
         /\ paper' = [paper EXCEPT ![e] = "sent"]
         /\ raised' = [raised EXCEPT ![e] = @ \cup {"sent"}]
    /\ desk' = [desk EXCEPT ![s].phase = "answered"]
    /\ UNCHANGED <<local, taken>>

(* The call fails or is refused; an unsent document may have been sent.    *)
SendFails(s) ==
    /\ At(s, "sending")
    /\ LET e == desk[s].envelope IN
         /\ \E made \in {FALSE, paper[e] = "draft"} :
              /\ paper' = IF made THEN [paper EXCEPT ![e] = "sent"] ELSE paper
              /\ raised' = IF made THEN [raised EXCEPT ![e] = @ \cup {"sent"}] ELSE raised
         /\ envelope' = [envelope EXCEPT ![e].status = MadeUncertain(@, "sending")]
    /\ desk' = [desk EXCEPT ![s] = Idle]
    /\ UNCHANGED <<leadOpen, deal, authority, package, taken>>

(* finalize_local_esign_send: what it needs, and what it does.             *)
Finalizable(p) == \/ package[p].status \in {"sent", "executed"}
                  \/ package[p].status = "sending" /\ Valid(p)
FinalPackage(p) == IF package[p].status = "sending"
                   THEN [package EXCEPT ![p].status = "sent"] ELSE package
FinalDeal(p) == IF package[p].status = "sending" THEN "sent" ELSE deal

(* The answer to a send is recorded, unless a webhook or a change of       *)
(* authority came first.                                                   *)
Record(s) ==
    /\ At(s, "answered")
    /\ LET e == desk[s].envelope
           p == envelope[e].package
           unsettled == envelope[e].status \in {"draft", "sending", "send_uncertain"} IN
         \/ /\ unsettled /\ ~Valid(p)
            /\ envelope' = [envelope EXCEPT ![e].status = "send_uncertain"]
            /\ UNCHANGED <<deal, package>>
         \/ /\ unsettled => Valid(p)
            /\ Finalizable(p)
            /\ envelope' = IF unsettled THEN [envelope EXCEPT ![e].status = "sent"] ELSE envelope
            /\ package' = FinalPackage(p)
            /\ deal' = FinalDeal(p)
         \/ /\ unsettled => Valid(p)
            /\ ~Finalizable(p)
            /\ UNCHANGED <<deal, package, envelope>>
    /\ desk' = [desk EXCEPT ![s] = Idle]
    /\ UNCHANGED <<leadOpen, authority, paper, raised, taken>>

Crash(s) ==
    /\ ~At(s, "idle")
    /\ desk' = [desk EXCEPT ![s] = Idle]
    /\ UNCHANGED <<local, paper, raised, taken>>

-----------------------------------------------------------------------------
(* Recovery of a creation whose answer was lost.                           *)

Recoverable(e) == /\ envelope[e].status \in Uncertain /\ ~envelope[e].known
                  /\ package[envelope[e].package].status = "sending"

(* attach_verified_esign_draft reads the provider under the row locks.     *)
Attach(e) ==
    /\ Recoverable(e) /\ Valid(envelope[e].package)
    /\ paper[e] = "draft"
    /\ envelope' = [envelope EXCEPT ![e] = [@ EXCEPT !.status = "draft", !.known = TRUE]]
    /\ UNCHANGED <<leadOpen, deal, authority, package, providerSide>>

(* The operator attests that the provider holds no document (yet).         *)
Abandon(e) ==
    /\ Recoverable(e)
    /\ paper[e] = "none"
    /\ envelope' = [envelope EXCEPT ![e].status = "error"]
    /\ SetPackage(envelope[e].package, "approved")
    /\ UNCHANGED <<leadOpen, deal, authority, providerSide>>

-----------------------------------------------------------------------------
(* The provider and its reports.                                           *)

Moves == [draft |-> {"cancelled", "error"},
          sent |-> {"viewed", "bounced", "completed"} \cup PaperFailures,
          viewed |-> {"completed"} \cup PaperFailures]

PaperMoves(e, event) ==
    /\ paper[e] \in DOMAIN Moves
    /\ event \in Moves[paper[e]] \cap Emitted
    /\ paper' = [paper EXCEPT ![e] = IF event = "bounced" THEN @ ELSE event]
    /\ raised' = [raised EXCEPT ![e] = @ \cup {event}]
    /\ UNCHANGED <<local, taken, desk>>

(* Faulty: the lead is not looked at.                                       *)
QuarantinedByDeal(p) == ~Open \/ ~Valid(p)

Quarantined(p) == ~Open \/ ~leadOpen \/ ~Valid(p)

(* ignored_provider_event_status, on the status the session has loaded.    *)
Ignored(seen, event) == \/ seen \in Finished /\ event # seen
                        \/ Behind(event, seen)

(* A completed document is filed as evidence only.                         *)
Quarantine(e) ==
    LET p == envelope[e].package IN
    IF envelope[e].filed # "none" THEN UNCHANGED <<deal, package, envelope>>
    ELSE /\ envelope' = [envelope EXCEPT ![e] =
                           [@ EXCEPT !.status = "completed", !.filed = "quarantined"]]
         /\ package' = IF package[p].status \in {"approved", "sending"}
                       THEN [package EXCEPT ![p].status = "sent"] ELSE package
         /\ deal' = IF Open THEN "sent" ELSE deal

Complete(e) ==
    LET p == envelope[e].package IN
    IF envelope[e].filed # "none"
    THEN envelope' = [envelope EXCEPT ![e].status = "completed"] /\ UNCHANGED <<deal, package>>
    ELSE /\ envelope' = [envelope EXCEPT ![e] =
                           [@ EXCEPT !.status = "completed", !.filed = "executed"]]
         /\ SetPackage(p, "executed")
         /\ deal' = "executed"

(* A delivery the sender has not recorded yet is recorded by the event.    *)
Late(event, seen) ==
    /\ event \in DeliveryEvents
    /\ seen \in {"creating_draft", "draft", "sending", "send_uncertain"}

(* Release the package once the provider has closed the document; seen is   *)
(* the status the session found.                                           *)
Release(e, event, seen) ==
    LET p == envelope[e].package
        releases == seen \notin Finished /\ package[p].status \in {"sending", "sent"}
        recorded == IF Late(event, seen) THEN FinalDeal(p) ELSE deal IN
    /\ envelope' = [envelope EXCEPT ![e].status = IF event = seen THEN @ ELSE event]
    /\ package' = IF releases THEN [package EXCEPT ![p].status = "approved"] ELSE package
    /\ deal' = IF releases /\ recorded = "sent" THEN "contract_prep" ELSE recorded

(* apply_provider_event.  A failure rolls back to the savepoint: no change.*)
Apply(e, event, seen) ==
    LET p == envelope[e].package IN
    IF event = "completed"
    THEN IF Quarantined(p) THEN Quarantine(e)
         ELSE /\ Late(event, seen) => Finalizable(p)
              /\ Complete(e)
    ELSE /\ Late(event, seen) => Finalizable(p)
         /\ IF event \in PaperFailures THEN Release(e, event, seen)
            ELSE /\ envelope' = [envelope EXCEPT ![e].status = IF event = seen THEN @ ELSE event]
                 /\ IF Late(event, seen)
                    THEN package' = FinalPackage(p) /\ deal' = FinalDeal(p)
                    ELSE UNCHANGED <<deal, package>>

(* process_signwell_event: recorded once, unless it failed.                *)
Webhook(e, event) ==
    /\ event \in raised[e] \ taken[e]
    /\ envelope[e].known
    /\ IF Ignored(envelope[e].status, event) THEN UNCHANGED <<deal, package, envelope>>
       ELSE Apply(e, event, envelope[e].status)
    /\ taken' = [taken EXCEPT ![e] = @ \cup {event}]
    /\ UNCHANGED <<leadOpen, authority, paper, raised, desk>>

(* Reconciling loads the envelope, asks the provider, and only then locks   *)
(* the row; the session keeps the status it loaded.                         *)
Look(s, e) ==
    /\ At(s, "idle")
    /\ envelope[e].known
    /\ desk' = [desk EXCEPT ![s] = [phase |-> "looking", envelope |-> e,
                                    seen |-> envelope[e].status, report |-> paper[e]]]
    /\ UNCHANGED <<local, paper, raised, taken>>

Reconcile(s) ==
    /\ At(s, "looking")
    /\ LET e == desk[s].envelope
           seen == desk[s].seen
           report == desk[s].report IN
         IF Ignored(seen, report) THEN UNCHANGED <<deal, package, envelope>>
         ELSE Apply(e, report, seen)
    /\ desk' = [desk EXCEPT ![s] = Idle]
    /\ UNCHANGED <<leadOpen, authority, paper, raised, taken>>

-----------------------------------------------------------------------------
Next ==
    \/ NewAuthority \/ RequestPlan \/ ArchiveLead \/ RestoreLead \/ Fund \/ Cancel
    \/ \E p \in Packages :
         \/ CreatePackage(p) \/ RequestApproval(p) \/ MarkSent(p) \/ Withdraw(p)
         \/ MarkExecuted(p) \/ ImportExecuted(p)
         \/ \E decision \in {"approved", "draft", "void"} : Decide(p, decision)
    \/ \E s \in Staff :
         \/ \E p \in Packages, e \in Envelopes : Reserve(s, p, e)
         \/ \E e \in Envelopes : Resume(s, e) \/ Look(s, e)
         \/ Create(s) \/ CreateFails(s) \/ SaveDraft(s) \/ MarkSending(s)
         \/ Send(s) \/ SendFails(s) \/ Record(s) \/ Crash(s) \/ Reconcile(s)
    \/ \E e \in Envelopes :
         \/ Attach(e) \/ Abandon(e)
         \/ \E event \in Events : PaperMoves(e, event) \/ Webhook(e, event)

Spec == Init /\ [][Next]_contractVars

-----------------------------------------------------------------------------
TypeOK ==
    /\ leadOpen \in BOOLEAN
    /\ deal \in {"contract_prep", "approval_pending", "sent", "executed"} \cup ClosedDeal
    /\ authority \in [number : 1..MaxAuthority, fit : BOOLEAN]
    /\ package \in [Packages -> [status : PackageStatus, basis : 0..MaxAuthority]]
    /\ envelope \in [Envelopes -> [status : EnvelopeStatus, package : Packages \cup {0},
                                   known : BOOLEAN, filed : {"none", "quarantined", "executed"}]]
    /\ \A e \in Envelopes : envelope[e].status # "none" => envelope[e].package \in Packages
    /\ \A e \in Envelopes : taken[e] \subseteq raised[e]

(* No seller ever holds two documents of one package that can be signed:   *)
(* retries, recoveries and second requests never send another one.         *)
OneSignable ==
    \A e, f \in DOMAIN paper :
        e # f /\ Signable(e) /\ Signable(f) => envelope[e].package # envelope[f].package

(* Whatever can still be signed belongs to a transaction that is not       *)
(* cancelled, and has a request that is not finished, by its saved provider*)
(* id, so that an answer, an event or a reconciliation can still reach it. *)
SignableIsTracked ==
    \A e \in DOMAIN paper :
        Signable(e) => Live(e) /\ envelope[e].known /\ deal # "cancelled"

(* A package that is out for signature becomes executed only while the      *)
(* authority it was drafted on holds, its transaction is not finished and   *)
(* its lead is open, whoever records it and however late.                   *)
ExecutedOnAuthority ==
    [][\A p \in DOMAIN package :
         (package[p].status \notin {"none", "executed"} /\ package'[p].status = "executed")
             => Valid(p) /\ Open /\ leadOpen]_contractVars

(* Claim: terminal provider failures release their reservation once without *)
(* altering a later delivery: a signable document's package is out.         *)
DeliveryKept ==
    \A e \in Envelopes : Signable(e)
        => package[envelope[e].package].status \in {"sending", "sent", "executed"}
=============================================================================
