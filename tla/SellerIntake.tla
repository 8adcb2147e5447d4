---------------------------- MODULE SellerIntake ----------------------------
(***************************************************************************)
(* Seller leads from the website's two steps and from Facebook forms.      *)
(* Step 1 makes a lead with a placeholder contact; step 2 promotes it, or  *)
(* merges it into the lead the seller already has and deletes the          *)
(* placeholder unless somebody has worked on it or owns it.  A step 2, like*)
(* a Facebook event in the worker, reads first and writes at its commit;   *)
(* only the steps of one browser journey exclude each other.               *)
(***************************************************************************)
EXTENDS Naturals, FiniteSets

CONSTANTS
  Journeys,      \* website attempts (intake_attempt_id)
  Forms,         \* Facebook leads (provider_lead_id)
  Sellers, Places,
  AssetClasses,  \* of "house" and "land"
  Leads,         \* lead rows, numbered
  Requests,      \* transactions that may be in flight together
  FormAttempts,  \* facebook_lead_intake_max_attempts
  None

ASSUME SourcesAssumption == Journeys \cap Forms = {} /\ None \notin Journeys \cup Forms

ASSUME LeadsAssumption == Leads \subseteq Nat /\ None \notin Leads

ASSUME SellersAssumption == "none" \notin Sellers /\ "placeholder" \notin Sellers

ASSUME AssetsAssumption == "house" \in AssetClasses /\ None \notin AssetClasses

ASSUME FormAttemptsAssumption == FormAttempts \in Nat

VARIABLES
  leads,        \* Lead rows: status, contact, place, asset class, whether rows
                \* refer to them (used), whether a placeholder has or had an owner
                \* and, history, whether the class is not the one it was sought by
  contacts,     \* seller of each Contact; a contact has its first lead's number
  submission,   \* LeadFormSubmission per journey
  form,         \* MetaLeadEvent per Facebook lead
  request       \* the transactions in flight and what they have read

intakeVars == <<leads, contacts, submission, form, request>>

Sources == Journeys \cup Forms
Unused == [status |-> "none", contact |-> None, place |-> None, asset |-> "house",
           used |-> FALSE, owned |-> FALSE, astray |-> FALSE, by |-> None]
NoRequest == [at |-> "idle", for |-> None, seller |-> None, place |-> None, asset |-> "house",
              contact |-> None, match |-> None, discard |-> FALSE]

IntakeInit ==
  /\ leads = [l \in Leads |-> Unused]
  /\ contacts = [l \in Leads |-> "none"]
  /\ submission = [j \in Journeys |-> [status |-> "none", lead |-> None]]
  /\ form = [f \in Forms |-> [status |-> "none", attempts |-> 0, lead |-> None, stale |-> FALSE]]
  /\ request = [r \in Requests |-> NoRequest]

Fresh ==
  {l \in Leads : /\ leads[l].status = "none"
                 /\ \A k \in Leads : k < l => leads[k].status # "none"}
Busy(x) == \E r \in Requests : request[r].at # "idle" /\ request[r].for = x

-----------------------------------------------------------------------------
(* capture_public_seller_address: under the journey's lock it makes the    *)
(* placeholder, or moves it to a corrected address.  A new placeholder is  *)
(* routed to an owner at once if the Acquisitions team has an active member*)
(* (apply_acquisition_stage_routing).                                      *)
Step1(j, p) ==
  /\ ~Busy(j)
  /\ \/ /\ submission[j].status = "none"
        /\ \E l \in Fresh, routed \in BOOLEAN :
             /\ leads' = [leads EXCEPT ![l] = [Unused EXCEPT
                  !.status = "open", !.contact = l, !.place = p, !.owned = routed, !.by = j]]
             /\ contacts' = [contacts EXCEPT ![l] = "placeholder"]
             /\ submission' = [submission EXCEPT ![j] = [status |-> "address_only", lead |-> l]]
     \/ /\ submission[j].status = "address_only"
        /\ leads' = [leads EXCEPT ![submission[j].lead].place = p]
        /\ UNCHANGED <<contacts, submission>>
  /\ UNCHANGED <<form, request>>

(* can_discard_address_only_placeholder: nothing but Step 1 has been there.*)
Discardable(j, l) ==
  /\ leads[l].status = "open" /\ contacts[leads[l].contact] = "placeholder"
  /\ leads[l].asset = "house" /\ ~leads[l].used /\ ~leads[l].owned
  /\ \A k \in Journeys \ {j} : submission[k].lead # l

(* find_duplicate_match: any contact with the seller's number, and its     *)
(* active lead for the place and the asset class.                          *)
Matches(c, p, k) ==
  {l \in Leads : /\ leads[l].status = "open" /\ leads[l].contact = c
                 /\ leads[l].place = p /\ leads[l].asset = k}

OrNone(S) == IF S = {} THEN {None} ELSE S

(* The seller's contact and lead, and whether the journey's own placeholder*)
(* may be deleted for it, as they are read.  The asset class sought is the *)
(* submission's or, if that names none, the property's.                    *)
ResolveRecords(r, x, s, p) ==
  LET own == IF x \in Journeys THEN submission[x].lead ELSE None IN
  \E k \in AssetClasses, c \in OrNone({c \in Leads : contacts[c] = s}) :
    \E l \in OrNone(Matches(c, p, k)) :
      request' = [request EXCEPT ![r] =
        [at |-> "writing", for |-> x, seller |-> s, place |-> p, asset |-> k,
         contact |-> c, match |-> l,
         discard |-> l \notin {None, own} /\ own # None /\ Discardable(x, own)]]

(* create_public_seller_lead reads; a completed journey is answered again. *)
Step2(r, j, s, p) ==
  /\ request[r].at = "idle" /\ ~Busy(j) /\ submission[j].status # "completed"
  /\ ResolveRecords(r, j, s, p)
  /\ UNCHANGED <<leads, contacts, submission, form>>

(* The same for the Facebook event a worker has claimed. *)
ReadForm(r, s, p) ==
  /\ request[r].at = "claimed"
  /\ ResolveRecords(r, request[r].for, s, p)
  /\ UNCHANGED <<leads, contacts, submission, form>>

Created(x, l) == [NoRequest EXCEPT !.at = "created", !.for = x, !.match = l]

After(r, l) ==
  LET x == request[r].for IN
  IF x \in Journeys
  THEN /\ submission' = [submission EXCEPT ![x] = [status |-> "completed", lead |-> l]]
       /\ request' = [request EXCEPT ![r] = NoRequest]
  ELSE /\ request' = [request EXCEPT ![r] = Created(x, l)]
       /\ UNCHANGED submission

(* Faulty: the placeholder is promoted without a look for the seller's     *)
(* lead.                                                                   *)
NeverMerges(r, own) == FALSE

Merges(r, own) == request[r].match \notin {None, own}

(* Faulty: the journey keeps its lead although that is deleted. *)
MergeKeeping(r, own) ==
  /\ request[r].discard /\ ~leads[own].used
  /\ leads' = [leads EXCEPT ![own].status = "gone"]
  /\ contacts' = [contacts EXCEPT ![leads[own].contact] = "none"]
  /\ After(r, own)

(* Faulty: a merged placeholder is always kept. *)
MergeLeaving(r, own) ==
  /\ leads' = [leads EXCEPT ![own].place = request[r].place]
  /\ UNCHANGED contacts /\ After(r, request[r].match)

(* The placeholder is merged into the seller's lead and deleted, or kept   *)
(* if it may not be.  The database refuses to delete what other rows refer *)
(* to.                                                                     *)
Merge(r, own) ==
  \/ /\ request[r].discard /\ ~leads[own].used
     /\ leads' = [leads EXCEPT ![own].status = "gone"]
     /\ contacts' = [contacts EXCEPT ![leads[own].contact] = "none"]
     /\ After(r, request[r].match)
  \/ /\ ~request[r].discard
     /\ leads' = [leads EXCEPT ![own].place = request[r].place]
     /\ UNCHANGED contacts /\ After(r, request[r].match)

(* The placeholder takes on the known contact in place of its own, which   *)
(* is deleted, or its own contact becomes the seller.  It takes on the     *)
(* asset class only if the submission names one.                           *)
Promote(r, own) ==
  LET q == request[r] lead == leads[own] mine == lead.contact
      new == IF q.contact = None THEN mine ELSE q.contact
  IN /\ new # mine => ~lead.used
     /\ \E k \in {q.asset, lead.asset} :
          leads' = [leads EXCEPT ![own] =
            [lead EXCEPT !.place = q.place, !.contact = new, !.asset = k, !.used = TRUE,
                         !.astray = lead.astray \/ k # q.asset]]
     /\ contacts' = [contacts EXCEPT ![mine] = IF new = mine THEN q.seller ELSE "none"]
     /\ After(r, own)

(* No placeholder: the seller's active lead, or a new one. *)
Create(r) ==
  LET q == request[r] IN
  \/ q.match # None /\ UNCHANGED <<leads, contacts>> /\ After(r, q.match)
  \/ /\ q.match = None
     /\ \E l \in Fresh :
          /\ leads' = [leads EXCEPT ![l] = [Unused EXCEPT
               !.status = "open", !.contact = IF q.contact = None THEN l ELSE q.contact,
               !.place = q.place, !.asset = q.asset, !.used = TRUE, !.by = q.for]]
          /\ contacts' = IF q.contact = None THEN [contacts EXCEPT ![l] = q.seller] ELSE contacts
          /\ After(r, l)

Commit(r) ==
  LET x == request[r].for IN
  /\ request[r].at = "writing"
  /\ IF x \in Journeys /\ submission[x].status = "address_only"
     THEN LET own == submission[x].lead IN
          IF Merges(r, own) THEN Merge(r, own) ELSE Promote(r, own)
     ELSE Create(r)
  /\ UNCHANGED form

(* The transaction fails, on the database's refusal or with its process:   *)
(* a visitor's request leaves nothing; a worker records the failure of its *)
(* event unless it died.                                                   *)
Failed(event) ==
  [event EXCEPT !.status = IF event.attempts >= FormAttempts THEN "exhausted" ELSE "retry"]

Fail(r) ==
  /\ request[r].at # "idle"
  /\ request' = [request EXCEPT ![r] = NoRequest]
  /\ \/ UNCHANGED form
     \/ /\ request[r].for \in Forms /\ request[r].at \in {"claimed", "writing"}
        /\ form' = [form EXCEPT ![request[r].for] = Failed(form[request[r].for])]
  /\ UNCHANGED <<leads, contacts, submission>>

-----------------------------------------------------------------------------
(* receive_zapier_facebook_lead; repeated calls change nothing. *)
Receive(f) ==
  /\ form[f].status = "none"
  /\ form' = [form EXCEPT ![f].status = "pending"]
  /\ UNCHANGED <<leads, contacts, submission, request>>

(* process_next_meta_lead_event: a claim is reclaimed after five minutes.  *)
Claimed(event) ==
  [event EXCEPT !.status = "processing", !.stale = FALSE,
     !.attempts = IF event.attempts < FormAttempts THEN event.attempts + 1 ELSE event.attempts]

ClaimForm(r, f) ==
  /\ request[r].at = "idle"
  /\ form[f].status \in {"pending", "retry"} \/ (form[f].status = "processing" /\ form[f].stale)
  /\ form' = [form EXCEPT ![f] = Claimed(form[f])]
  /\ request' = [request EXCEPT ![r] = [NoRequest EXCEPT !.at = "claimed", !.for = f]]
  /\ UNCHANGED <<leads, contacts, submission>>

MarkProcessed(r) ==
  /\ request[r].at = "created"
  /\ form' = [form EXCEPT ![request[r].for] =
       [@ EXCEPT !.status = "processed", !.lead = request[r].match]]
  /\ request' = [request EXCEPT ![r] = NoRequest]
  /\ UNCHANGED <<leads, contacts, submission>>

NeedsReview(r) ==
  /\ request[r].at = "claimed"
  /\ form' = [form EXCEPT ![request[r].for].status = "needs_review"]
  /\ request' = [request EXCEPT ![r] = NoRequest]
  /\ UNCHANGED <<leads, contacts, submission>>

FiveMinutes(f) ==
  /\ form[f].status = "processing" /\ ~form[f].stale
  /\ form' = [form EXCEPT ![f].stale = TRUE]
  /\ UNCHANGED <<leads, contacts, submission, request>>

(* Staff log a call, a task or a conversation on a lead, or close it. *)
Use(l) ==
  /\ leads[l].status = "open" /\ ~leads[l].used
  /\ leads' = [leads EXCEPT ![l].used = TRUE]
  /\ UNCHANGED <<contacts, submission, form, request>>

Close(l) ==
  /\ leads[l].status = "open"
  /\ leads' = [leads EXCEPT ![l].status = "closed"]
  /\ UNCHANGED <<contacts, submission, form, request>>

(* Staff give a placeholder an owner; that of other leads is not asked for.*)
Own(l) ==
  /\ leads[l].status = "open" /\ contacts[leads[l].contact] = "placeholder" /\ ~leads[l].owned
  /\ leads' = [leads EXCEPT ![l].owned = TRUE]
  /\ UNCHANGED <<contacts, submission, form, request>>

(* The voice agent learns of a lead's asset class in a call on it. *)
Reclassify(l, k) ==
  /\ leads[l].status = "open" /\ leads[l].used /\ leads[l].asset # k
  /\ leads' = [leads EXCEPT ![l].asset = k, ![l].astray = TRUE]
  /\ UNCHANGED <<contacts, submission, form, request>>

IntakeNext ==
  \/ \E j \in Journeys, p \in Places : Step1(j, p)
  \/ \E r \in Requests, s \in Sellers, p \in Places :
       ReadForm(r, s, p) \/ \E j \in Journeys : Step2(r, j, s, p)
  \/ \E r \in Requests : Commit(r) \/ Fail(r) \/ MarkProcessed(r) \/ NeedsReview(r)
                         \/ \E f \in Forms : ClaimForm(r, f)
  \/ \E f \in Forms : Receive(f) \/ FiveMinutes(f)
  \/ \E l \in Leads : Use(l) \/ Close(l) \/ Own(l) \/ \E k \in AssetClasses : Reclassify(l, k)

IntakeSpec == IntakeInit /\ [][IntakeNext]_intakeVars

-----------------------------------------------------------------------------
IntakeTyped ==
  /\ \A l \in Leads : /\ leads[l].status \in {"none", "open", "closed", "gone"}
                      /\ contacts[l] \in Sellers \cup {"none", "placeholder"}
  /\ \A j \in Journeys : submission[j].status \in {"none", "address_only", "completed"}
  /\ form \in [Forms ->
       [status : {"none", "pending", "processing", "retry", "processed", "needs_review",
                  "exhausted"},
        attempts : 0..FormAttempts, lead : Leads \cup {None}, stale : BOOLEAN]]

(* What a visitor or a Facebook form submitted always belongs to a lead    *)
(* that exists and has a contact, whatever was merged and deleted in       *)
(* overlapping requests.                                                   *)
SubmittedHasLead ==
  LET Kept(l) == leads[l].status \in {"open", "closed"} /\ contacts[leads[l].contact] # "none"
  IN /\ \A j \in DOMAIN submission : submission[j].status # "none" => Kept(submission[j].lead)
     /\ \A f \in DOMAIN form : form[f].lead # None => Kept(form[f].lead)

(* A finished journey leaves no cold placeholder behind that nobody owns   *)
(* or has worked on.                                                       *)
NoPlaceholderLeft ==
  \A j \in DOMAIN submission, l \in DOMAIN leads :
    (submission[j].status = "completed" /\ leads[l].by = j /\ leads[l].status = "open")
      => (l = submission[j].lead \/ leads[l].used \/ leads[l].owned)

(* A seller has at most one active lead for a place and an asset class,    *)
(* over repeated steps, journeys, forms and claims, among the leads that   *)
(* have the class they were sought by.                                     *)
OneActiveLead ==
  \A k, l \in DOMAIN leads :
    (/\ leads[k].status = "open" /\ leads[l].status = "open" /\ leads[k].place = leads[l].place
     /\ leads[k].asset = leads[l].asset /\ ~leads[k].astray /\ ~leads[l].astray
     /\ contacts[leads[k].contact] = contacts[leads[l].contact]
     /\ contacts[leads[k].contact] \in Sellers)
      => k = l

(* Transactions do not overlap. *)
OneAtATime == \A q, r \in DOMAIN request : q = r

(* Whoever has submitted something has a lead with a contact, over merges, *)
(* deletions and overlapping requests, and comes back, by whichever way,   *)
(* to no placeholder nobody owns or works on and, as long as the           *)
(* transactions do not overlap, to one active lead for a place and class.  *)
OneLeadPerSeller ==
  SubmittedHasLead /\ NoPlaceholderLeft /\ (OneAtATime => OneActiveLead)
=============================================================================
