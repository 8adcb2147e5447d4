---------------------------- MODULE ResendEvents ----------------------------
(***************************************************************************)
(* Inbound e-mail over Resend: webhooks that may be lost or repeated, the  *)
(* recovery scan of the provider's mailbox, the stored events both leave,  *)
(* and the workers that claim an event, route the message and import it.   *)
(* Every action is one database transaction.                               *)
(***************************************************************************)
EXTENDS Naturals, FiniteSets

CONSTANTS
  Readers,        \* workers that import mail
  Admins,         \* e-mail managers
  Mails,          \* messages Resend has received for the company
  EventAttempts,  \* resend_event_max_attempts
  MaxReviews,     \* bound: manager decisions
  NoEvent

VARIABLES
  letter,    \* CommunicationProviderEvent rows
  imported,  \* messages with a CommunicationRecord
  reader,    \* where each worker is
  admin,     \* the event a manager's routing request has read
  cases      \* manager decisions so far

mailVars == <<letter, imported, reader, admin, cases>>

(* A message has two possible events: its webhook's, under the webhook's   *)
(* id, and the recovery scan's, under recovery:<message id>.               *)
Events == Mails \X {"webhook", "recovery"}
MailOf(e) == e[1]

ASSUME MailAssumption == NoEvent \notin Events /\ EventAttempts \in Nat

Parked == {"unmatched", "ignored"}
Done == {"processed", "duplicate"}

EventRows ==
  [status   : {"none", "received", "retry", "processing", "dead_letter"} \cup Done \cup Parked,
   attempts : 0..EventAttempts,
   claims   : Nat,            \* claims ever made, the source of fresh tokens
   token    : Nat,            \* 0, or the claim that holds the event
   stale    : BOOLEAN,        \* the processing lease has run out
   routed   : BOOLEAN]        \* a matched route is stored in the payload

Resting == [at |-> "idle", on |-> NoEvent, token |-> 0, result |-> "none"]

MailInit ==
  /\ letter = [e \in Events |->
       [status |-> "none", attempts |-> 0, claims |-> 0, token |-> 0,
        stale |-> FALSE, routed |-> FALSE]]
  /\ imported = {}
  /\ reader = [w \in Readers |-> Resting]
  /\ admin = [a \in Admins |-> NoEvent]
  /\ cases = 0

-----------------------------------------------------------------------------
(* Arrival. *)

Ingest(e) ==
  /\ letter[e].status = "none"
  /\ letter' = [letter EXCEPT ![e].status = "received"]
  /\ UNCHANGED <<imported, reader, admin, cases>>

MailWebhook(m) == Ingest(<<m, "webhook">>)

Stale(e) == letter[e].status = "processing" /\ letter[e].stale

DeadLettered(row) == [row EXCEPT !.status = "dead_letter", !.token = 0, !.stale = FALSE]

(* Faulty: the scan only looks after events it has stored before. *)
RecoverKnownOnly(m) ==
  LET e == <<m, "recovery">> IN
  /\ m \notin imported /\ Stale(e)
  /\ letter' = [letter EXCEPT ![e] = DeadLettered(@)]
  /\ UNCHANGED <<imported, reader, admin, cases>>

(* Faulty: an event recovered from a dead worker starts counting anew. *)
RecoverAfresh(m) ==
  LET e == <<m, "recovery">> IN
  /\ m \notin imported
  /\ \/ Ingest(e)
     \/ /\ Stale(e)
        /\ letter' = [letter EXCEPT ![e] =
             [@ EXCEPT !.status = "retry", !.token = 0, !.stale = FALSE, !.attempts = 0]]
        /\ UNCHANGED <<imported, reader, admin, cases>>

(* The scan looks past a webhook's event that is still to be processed.    *)
RecoverMail(m) ==
  LET e == <<m, "recovery">> IN
  /\ m \notin imported
  /\ \/ Ingest(e)
     \/ /\ Stale(e)
        /\ letter' = [letter EXCEPT ![e] =
             IF @.attempts >= EventAttempts THEN DeadLettered(@)
             ELSE [@ EXCEPT !.status = "retry", !.token = 0, !.stale = FALSE]]
        /\ UNCHANGED <<imported, reader, admin, cases>>

-----------------------------------------------------------------------------
(* Claims. *)

MailClaimable(e) == letter[e].status \in {"received", "retry"} \/ Stale(e)

ClaimMail(w, e) ==
  /\ reader[w].at = "idle" /\ MailClaimable(e)
  /\ letter[e].attempts < EventAttempts
  /\ LET n == letter[e].claims + 1 IN
     /\ letter' = [letter EXCEPT ![e] =
          [@ EXCEPT !.status = "processing", !.attempts = letter[e].attempts + 1,
                    !.claims = n, !.token = n, !.stale = FALSE]]
     /\ reader' = [reader EXCEPT ![w] = [Resting EXCEPT !.at = "claimed", !.on = e, !.token = n]]
  /\ UNCHANGED <<imported, admin, cases>>

(* A claim that finds the attempts used up. *)
Exhaust(w, e) ==
  /\ reader[w].at = "idle" /\ MailClaimable(e)
  /\ letter[e].attempts >= EventAttempts
  /\ letter' = [letter EXCEPT ![e] = DeadLettered(@)]
  /\ UNCHANGED <<imported, reader, admin, cases>>

(* ensure_resend_event_claim *)
Owns(w) ==
  LET e == reader[w].on IN
  letter[e].status = "processing" /\ letter[e].token = reader[w].token

ReaderTurn(w, step) == reader' = [reader EXCEPT ![w] = step]

(* Faulty: a message is a duplicate as soon as its other event is in work. *)
RouteBySibling(w) ==
  /\ reader[w].at = "claimed"
  /\ \E e \in Events : MailOf(e) = MailOf(reader[w].on) /\ e # reader[w].on
                      /\ letter[e].status = "processing"
  /\ ReaderTurn(w, [reader[w] EXCEPT !.at = "settling", !.result = "duplicate"])
  /\ UNCHANGED <<letter, imported, admin, cases>>

(* Reading the message and its route: what is already imported, what no    *)
(* alias or conversation wants, and what has a route.                      *)
Route(w) ==
  LET e == reader[w].on
      Settle(r) == ReaderTurn(w, [reader[w] EXCEPT !.at = "settling", !.result = r])
                   /\ UNCHANGED letter
  IN
  /\ reader[w].at = "claimed"
  /\ \/ MailOf(e) \in imported /\ Settle("duplicate")
     \/ /\ MailOf(e) \notin imported /\ ~letter[e].routed
        /\ \E r \in Parked : Settle(r)
     \/ /\ MailOf(e) \notin imported
        /\ IF Owns(w)                                \* checkpoint_resend_event_claim
           THEN /\ letter' = [letter EXCEPT ![e] = [@ EXCEPT !.routed = TRUE, !.stale = FALSE]]
                /\ ReaderTurn(w, [reader[w] EXCEPT !.at = "importing", !.result = "processed"])
           ELSE ReaderTurn(w, Resting) /\ UNCHANGED letter     \* ResendLeaseLostError
  /\ UNCHANGED <<imported, admin, cases>>

(* finalize_resend_event_claim: the import and the event's end commit      *)
(* together, or not at all when the claim is lost.  A second record of the *)
(* same message breaks a unique constraint and is a failure.               *)
Finalize(w) ==
  LET e == reader[w].on IN
  /\ reader[w].at \in {"settling", "importing"}
  /\ \/ /\ reader[w].at = "importing" /\ MailOf(e) \in imported
        /\ ReaderTurn(w, [reader[w] EXCEPT !.at = "failing"])
        /\ UNCHANGED <<letter, imported>>
     \/ /\ reader[w].at = "importing" => MailOf(e) \notin imported
        /\ IF Owns(w)
           THEN /\ letter' = [letter EXCEPT ![e] =
                     [@ EXCEPT !.status = reader[w].result, !.token = 0, !.stale = FALSE]]
                /\ imported' = imported \cup
                     (IF reader[w].at = "importing" THEN {MailOf(e)} ELSE {})
           ELSE UNCHANGED <<letter, imported>>
        /\ ReaderTurn(w, Resting)
  /\ UNCHANGED <<admin, cases>>

(* The provider, the storage or the database fails under the worker. *)
MailTrouble(w) ==
  /\ reader[w].at \in {"claimed", "settling", "importing"}
  /\ ReaderTurn(w, [reader[w] EXCEPT !.at = "failing"])
  /\ UNCHANGED <<letter, imported, admin, cases>>

(* Faulty: the failure is recorded whoever holds the event now. *)
RecordFailureUnfenced(w) ==
  LET e == reader[w].on IN
  /\ reader[w].at = "failing"
  /\ letter' = [letter EXCEPT ![e] =
       IF @.attempts >= EventAttempts THEN DeadLettered(@)
       ELSE [@ EXCEPT !.status = "retry", !.token = 0, !.stale = FALSE]]
  /\ ReaderTurn(w, Resting)
  /\ UNCHANGED <<imported, admin, cases>>

RecordFailure(w) ==
  LET e == reader[w].on IN
  /\ reader[w].at = "failing"
  /\ letter' = IF ~Owns(w) THEN letter
              ELSE [letter EXCEPT ![e] =
                     IF @.attempts >= EventAttempts THEN DeadLettered(@)
                     ELSE [@ EXCEPT !.status = "retry", !.token = 0, !.stale = FALSE]]
  /\ ReaderTurn(w, Resting)
  /\ UNCHANGED <<imported, admin, cases>>

ReaderDies(w) ==
  /\ reader[w].at # "idle"
  /\ ReaderTurn(w, Resting)
  /\ UNCHANGED <<letter, imported, admin, cases>>

(* The lease runs out, on a dead worker or on a slow one. *)
MailLeaseExpires(e) ==
  /\ letter[e].status = "processing" /\ ~letter[e].stale
  /\ letter' = [letter EXCEPT ![e].stale = TRUE]
  /\ UNCHANGED <<imported, reader, admin, cases>>

-----------------------------------------------------------------------------
(* Managers.  Manual routing reads the parked event without a lock.        *)

ReadException(a, e) ==
  /\ admin[a] = NoEvent /\ letter[e].status \in Parked /\ cases < MaxReviews
  /\ admin' = [admin EXCEPT ![a] = e]
  /\ UNCHANGED <<letter, imported, reader, cases>>

ResolveException(a) ==
  LET e == admin[a] IN
  /\ e # NoEvent
  /\ letter' = [letter EXCEPT ![e] =
       [@ EXCEPT !.status = "received", !.attempts = 0, !.token = 0, !.stale = FALSE,
                 !.routed = TRUE]]
  /\ admin' = [admin EXCEPT ![a] = NoEvent]
  /\ cases' = cases + 1
  /\ UNCHANGED <<imported, reader>>

(* A repeated delivery of the same webhook finds its event and changes     *)
(* nothing; a dead letter only a manager brings back.                      *)
RequeueDeadLetter(e) ==
  /\ letter[e].status = "dead_letter" /\ cases < MaxReviews
  /\ letter' = [letter EXCEPT ![e] = [@ EXCEPT !.status = "retry", !.attempts = 0]]
  /\ cases' = cases + 1
  /\ UNCHANGED <<imported, reader, admin>>

-----------------------------------------------------------------------------
Reads(w) ==
  \/ \E e \in Events : ClaimMail(w, e) \/ Exhaust(w, e)
  \/ Route(w) \/ Finalize(w) \/ RecordFailure(w)

MailNext ==
  \/ \E m \in Mails : MailWebhook(m) \/ RecoverMail(m)
  \/ \E w \in Readers : Reads(w) \/ MailTrouble(w) \/ ReaderDies(w)
  \/ \E e \in Events : MailLeaseExpires(e) \/ RequeueDeadLetter(e)
  \/ \E a \in Admins : ResolveException(a) \/ \E e \in Events : ReadException(a, e)

MailSpec == MailInit /\ [][MailNext]_mailVars

(* The worker loop runs the event lane and the recovery lane for ever, and *)
(* leases run out; a webhook may never come.                               *)
FairMailSpec ==
  /\ MailSpec
  /\ \A w \in Readers : WF_mailVars(Reads(w))
  /\ \A m \in Mails : WF_mailVars(RecoverMail(m))
  /\ \A e \in Events : WF_mailVars(MailLeaseExpires(e))

-----------------------------------------------------------------------------
MailTyped ==
  /\ letter \in [Events -> EventRows]
  /\ imported \subseteq Mails
  /\ reader \in [Readers ->
       [at : {"idle", "claimed", "settling", "importing", "failing"},
        on : Events \cup {NoEvent}, token : Nat,
        result : {"none"} \cup Done \cup Parked]]
  /\ admin \in [Admins -> Events \cup {NoEvent}]
  /\ cases \in Nat

(* "An expired lease can be reclaimed without allowing the stale worker to *)
(* overwrite the new attempt": what one attempt finished no older attempt, *)
(* no recovery and no late failure reopens, relabels or fails, and the     *)
(* message stays in the inbox.  Only a manager reopens it, whose routing   *)
(* request read the event before another manager's and commits after it.   *)
FinishedStays ==
  [][/\ imported \subseteq imported'
     /\ \A e \in Events :
          letter[e].status \in Done /\ letter'[e].status # letter[e].status
            => \E a \in DOMAIN admin : admin[a] = e /\ admin'[a] = NoEvent]_mailVars

(* A message is reported as processed or duplicate only once it is in the  *)
(* inbox, although the import and the report are decided before the fence. *)
DoneIsImported ==
  \A e \in Events : letter[e].status \in Done => MailOf(e) \in imported

(* A message that always fails costs EventAttempts claims, and as many more*)
(* for each manager's decision: neither reclaiming, nor recovery, nor the  *)
(* failure path gives an event new attempts.                               *)
PoisonIsBounded ==
  \A e \in Events : letter[e].claims <= EventAttempts * (1 + cases)

(* What is reported as imported is, and what cannot be costs a bounded     *)
(* number of attempts.                                                     *)
ImportsTrue == DoneIsImported /\ PoisonIsBounded

(* No message of the provider is lost: it is imported, or an event of it   *)
(* waits for a person, whatever webhooks, workers and providers do.        *)
EveryMailAccounted ==
  \A m \in Mails :
    <>(m \in imported \/ \E e \in Events : MailOf(e) = m
                           /\ letter[e].status \in Parked \cup {"dead_letter"})
=============================================================================
