---------------------------- MODULE InboxProofs ----------------------------
(***************************************************************************)
(* What the inbox takes in.  For any number of messages, reports, photos,  *)
(* workers and attempts, whichever leases run out and whoever dies:        *)
(*   - what is reported as imported is, and a message that always fails    *)
(*     costs a bounded number of attempts (ResendEvents);                  *)
(*   - the delivery status converges (ResendLifecycle);                    *)
(*   - the photos of a message are all kept, and no more than its limit    *)
(*     (MmsMedia).                                                         *)
(* The three components share no variable; each part states the inductive  *)
(* invariant of one and proves it on its own.                              *)
(***************************************************************************)
EXTENDS ResendEvents, ResendLifecycle, MmsMedia, WellFoundedInduction, TLAPS

-----------------------------------------------------------------------------
(***************************************************************************)
(* ResendEvents.  Imports and reports are decided before the fence that    *)
(* commits them: the invariant says that what a worker has in hand is      *)
(* decided rightly, and who pays for each claim.                           *)
(***************************************************************************)
(* What a worker has in hand is decided before the transaction that        *)
(* commits it: a duplicate was in the inbox already, and an import is      *)
(* reported as nothing but processed.                                      *)
InHand ==
  \A w \in Readers :
    /\ reader[w].at # "idle" => reader[w].on \in Events
    /\ reader[w].at = "settling" =>
         /\ reader[w].result \in Parked \cup {"duplicate"}
         /\ reader[w].result = "duplicate" => MailOf(reader[w].on) \in imported
    /\ reader[w].at = "importing" => reader[w].result = "processed"

(* Claims are paid for: by the attempts on the row, or by a decision that  *)
(* set them back.                                                          *)
Paid == \A e \in Events : letter[e].claims <= letter[e].attempts + EventAttempts * cases

ImportInv == MailTyped /\ InHand /\ DoneIsImported /\ Paid

-----------------------------------------------------------------------------
LEMMA MailStarts ==
  ASSUME MailInit
  PROVE  ImportInv
<1> USE MailAssumption DEF MailInit, Resting
<1>1. MailTyped  BY DEF MailTyped, EventRows
<1>2. InHand  BY DEF InHand
<1>3. DoneIsImported  BY DEF DoneIsImported, Done
<1>4. Paid  BY DEF Paid
<1> QED  BY <1>1, <1>2, <1>3, <1>4 DEF ImportInv

(* A step that changes one event's row, nothing in the workers' hands and  *)
(* nothing in the inbox, reports nothing as done, and takes no attempt     *)
(* back.                                                                   *)
LEMMA RowKeeps ==
  ASSUME ImportInv, NEW e \in Events, NEW row \in EventRows,
         letter' = [letter EXCEPT ![e] = row],
         row.status \in Done => letter[e].status \in Done,
         row.claims = letter[e].claims, row.attempts = letter[e].attempts,
         UNCHANGED <<imported, reader, admin, cases>>
  PROVE  ImportInv'
<1> USE DEF ImportInv, MailTyped
<1>1. MailTyped'  OBVIOUS
<1>2. InHand'  BY DEF InHand
<1>3. DoneIsImported'  BY DEF DoneIsImported
<1>4. Paid'  BY DEF Paid
<1> QED  BY <1>1, <1>2, <1>3, <1>4

LEMMA IngestKeeps ==
  ASSUME ImportInv, NEW e \in Events, Ingest(e)
  PROVE  ImportInv'
<1> DEFINE row == [letter[e] EXCEPT !.status = "received"]
<1>1. row \in EventRows  BY DEF ImportInv, MailTyped, EventRows
<1>2. letter' = [letter EXCEPT ![e] = row]  BY DEF Ingest, ImportInv, MailTyped
<1>3. row.status = "received" /\ row.claims = letter[e].claims /\ row.attempts = letter[e].attempts
  BY DEF ImportInv, MailTyped, EventRows
<1> QED  BY <1>1, <1>2, <1>3, RowKeeps DEF Ingest, Done

LEMMA DeadLetteredRow ==
  ASSUME NEW row \in EventRows
  PROVE  /\ DeadLettered(row) \in EventRows
         /\ DeadLettered(row).status = "dead_letter"
         /\ DeadLettered(row).claims = row.claims
         /\ DeadLettered(row).attempts = row.attempts
  BY DEF DeadLettered, EventRows

LEMMA RetryRow ==
  ASSUME NEW row \in EventRows
  PROVE  LET again == [row EXCEPT !.status = "retry", !.token = 0, !.stale = FALSE] IN
         /\ again \in EventRows /\ again.status = "retry"
         /\ again.claims = row.claims /\ again.attempts = row.attempts
  BY DEF EventRows

LEMMA RecoverKeeps ==
  ASSUME ImportInv, NEW m \in Mails, RecoverMail(m)
  PROVE  ImportInv'
<1> DEFINE e == <<m, "recovery">>
           row == IF letter[e].attempts >= EventAttempts THEN DeadLettered(letter[e])
                  ELSE [letter[e] EXCEPT !.status = "retry", !.token = 0, !.stale = FALSE]
<1>1. e \in Events /\ letter[e] \in EventRows  BY DEF Events, ImportInv, MailTyped
<1>2. CASE Ingest(e)  BY <1>1, <1>2, IngestKeeps
<1>3. CASE letter' = [letter EXCEPT ![e] = row] /\ UNCHANGED <<imported, reader, admin, cases>>
  <2>1. row \in EventRows /\ row.status \in {"dead_letter", "retry"}
          /\ row.claims = letter[e].claims /\ row.attempts = letter[e].attempts
    BY <1>1, DeadLetteredRow, RetryRow
  <2> HIDE DEF row
  <2> QED  BY <1>1, <1>3, <2>1, RowKeeps DEF Done
<1> QED  BY <1>1, <1>2, <1>3 DEF RecoverMail, Ingest, ImportInv, MailTyped

LEMMA ExhaustKeeps ==
  ASSUME ImportInv, NEW w \in Readers, NEW e \in Events, Exhaust(w, e)
  PROVE  ImportInv'
<1>1. letter[e] \in EventRows  BY DEF ImportInv, MailTyped
<1> QED  BY <1>1, DeadLetteredRow, RowKeeps DEF Exhaust, Done, ImportInv, MailTyped

LEMMA LeaseExpiresKeeps ==
  ASSUME ImportInv, NEW e \in Events, MailLeaseExpires(e)
  PROVE  ImportInv'
<1> DEFINE row == [letter[e] EXCEPT !.stale = TRUE]
<1>1. letter[e] \in EventRows  BY DEF ImportInv, MailTyped
<1>2. row \in EventRows /\ row.status = letter[e].status
        /\ row.claims = letter[e].claims /\ row.attempts = letter[e].attempts
  BY <1>1 DEF EventRows
<1>3. letter' = [letter EXCEPT ![e] = row]  BY DEF MailLeaseExpires, ImportInv, MailTyped
<1> QED  BY <1>2, <1>3, RowKeeps DEF MailLeaseExpires

LEMMA ClaimKeeps ==
  ASSUME ImportInv, NEW w \in Readers, NEW e \in Events, ClaimMail(w, e)
  PROVE  ImportInv'
<1> DEFINE n == letter[e].claims + 1
           row == letter'[e]
           step == [Resting EXCEPT !.at = "claimed", !.on = e, !.token = n]
<1>1. letter[e] \in EventRows /\ letter[e].attempts < EventAttempts
  BY DEF ClaimMail, ImportInv, MailTyped
<1>2. n \in Nat /\ letter[e].attempts + 1 \in 0..EventAttempts
  BY <1>1, MailAssumption DEF EventRows
<1>3. row \in EventRows /\ row.status = "processing"
        /\ row.claims = n /\ row.attempts = letter[e].attempts + 1
  BY <1>1, <1>2 DEF ClaimMail, ImportInv, MailTyped, EventRows
<1>a. letter' = [letter EXCEPT ![e] = row]  BY DEF ClaimMail, ImportInv, MailTyped
<1>b. reader' = [reader EXCEPT ![w] = step]  BY DEF ClaimMail
<1>4. letter' = [letter EXCEPT ![e] = row] /\ reader' = [reader EXCEPT ![w] = step]
        /\ UNCHANGED <<imported, admin, cases>>
  BY <1>a, <1>b DEF ClaimMail
<1>5. step.at = "claimed" /\ step.on = e
        /\ step \in [at : {"claimed"}, on : Events, token : Nat, result : {"none"}]
  BY <1>2 DEF Resting
<1> HIDE DEF row, step
<1>6. MailTyped'  BY <1>2, <1>3, <1>4, <1>5 DEF ImportInv, MailTyped
<1>7. InHand'  BY <1>4, <1>5 DEF InHand, ImportInv, MailTyped
<1>8. DoneIsImported'  BY <1>3, <1>4 DEF DoneIsImported, ImportInv, MailTyped, Done
<1>9. Paid'
  <2> DEFINE credit == EventAttempts * cases
  <2> SUFFICES ASSUME NEW x \in Events
               PROVE  letter'[x].claims <= letter'[x].attempts + credit
    BY <1>4 DEF Paid
  <2>1. credit \in Nat  BY MailAssumption DEF ImportInv, MailTyped
  <2>2. letter[x].claims <= letter[x].attempts + credit  BY DEF ImportInv, Paid
  <2> HIDE DEF credit
  <2>3. CASE x = e  BY <1>1, <1>3, <1>4, <2>1, <2>2, <2>3 DEF ImportInv, MailTyped, EventRows
  <2>4. CASE x # e  BY <1>4, <2>2, <2>4 DEF ImportInv, MailTyped
  <2> QED  BY <2>3, <2>4
<1> QED  BY <1>6, <1>7, <1>8, <1>9 DEF ImportInv

Hands ==
  [at : {"idle", "claimed", "settling", "importing", "failing"},
   on : Events \cup {NoEvent}, token : Nat, result : {"none"} \cup Done \cup Parked]

(* A step of one worker that leaves the events alone and takes nothing up. *)
LEMMA HandKeeps ==
  ASSUME ImportInv, NEW w \in Readers, NEW step \in Hands,
         reader' = [reader EXCEPT ![w] = step],
         step.at \in {"settling", "failing"}, step.on \in Events,
         step.at = "settling" => step.result \in Parked \cup {"duplicate"},
         step.at = "settling" /\ step.result = "duplicate" => MailOf(step.on) \in imported,
         UNCHANGED <<letter, imported, admin, cases>>
  PROVE  ImportInv'
<1> USE DEF ImportInv, MailTyped
<1>1. MailTyped'  BY DEF Hands
<1>2. InHand'  BY DEF InHand
<1>3. DoneIsImported' /\ Paid'  BY DEF DoneIsImported, Paid
<1> QED  BY <1>1, <1>2, <1>3

LEMMA FailingKeeps ==
  ASSUME ImportInv, NEW w \in Readers, reader[w].on \in Events,
         ReaderTurn(w, [reader[w] EXCEPT !.at = "failing"]),
         UNCHANGED <<letter, imported, admin, cases>>
  PROVE  ImportInv'
<1> DEFINE step == [reader[w] EXCEPT !.at = "failing"]
<1>1. reader[w] \in Hands  BY DEF ImportInv, MailTyped, Hands
<1>2. step \in Hands /\ step.at = "failing" /\ step.on = reader[w].on  BY <1>1 DEF Hands
<1>3. reader' = [reader EXCEPT ![w] = step]  BY DEF ReaderTurn
<1> HIDE DEF step
<1> QED  BY <1>2, <1>3, HandKeeps

LEMMA RestKeeps ==
  ASSUME ImportInv, NEW w \in Readers, reader' = [reader EXCEPT ![w] = Resting],
         UNCHANGED <<letter, imported, admin, cases>>
  PROVE  ImportInv'
<1> USE DEF ImportInv, MailTyped, Resting
<1>1. MailTyped'  OBVIOUS
<1>2. InHand'  BY DEF InHand
<1>3. DoneIsImported' /\ Paid'  BY DEF DoneIsImported, Paid
<1> QED  BY <1>1, <1>2, <1>3

-----------------------------------------------------------------------------
(* The worker that holds a claim.                                          *)

LEMMA RouteKeeps ==
  ASSUME ImportInv, NEW w \in Readers, Route(w)
  PROVE  ImportInv'
<1> DEFINE e == reader[w].on
<1>1. reader[w].at = "claimed" /\ e \in Events /\ reader[w] \in Hands
  BY DEF Route, ImportInv, InHand, MailTyped, Hands
<1>2. ASSUME NEW r \in Parked \cup {"duplicate"}, r = "duplicate" => MailOf(e) \in imported,
             ReaderTurn(w, [reader[w] EXCEPT !.at = "settling", !.result = r]),
             UNCHANGED <<letter, imported, admin, cases>>
      PROVE  ImportInv'
  <2> DEFINE step == [reader[w] EXCEPT !.at = "settling", !.result = r]
  <2>1. step \in Hands /\ step.at = "settling" /\ step.on = e /\ step.result = r
    BY <1>1 DEF Hands, Done
  <2>2. reader' = [reader EXCEPT ![w] = step]  BY <1>2 DEF ReaderTurn
  <2> HIDE DEF step
  <2> QED  BY <1>1, <1>2, <2>1, <2>2, HandKeeps
<1>3. CASE \/ \E r \in Parked :
                ReaderTurn(w, [reader[w] EXCEPT !.at = "settling", !.result = r]) /\ UNCHANGED letter
           \/ /\ MailOf(e) \in imported
              /\ ReaderTurn(w, [reader[w] EXCEPT !.at = "settling", !.result = "duplicate"])
              /\ UNCHANGED letter
  BY <1>2, <1>3 DEF Route, Parked
<1>4. CASE ReaderTurn(w, Resting) /\ UNCHANGED <<letter, imported, admin, cases>>
  BY <1>4, RestKeeps DEF ReaderTurn
<1>5. CASE /\ letter' = [letter EXCEPT ![e] = [@ EXCEPT !.routed = TRUE, !.stale = FALSE]]
           /\ ReaderTurn(w, [reader[w] EXCEPT !.at = "importing", !.result = "processed"])
           /\ UNCHANGED <<imported, admin, cases>>
  <2> DEFINE row == [letter[e] EXCEPT !.routed = TRUE, !.stale = FALSE]
  <2>1. letter[e] \in EventRows  BY <1>1 DEF ImportInv, MailTyped
  <2>2. row \in EventRows /\ row.status = letter[e].status
          /\ row.claims = letter[e].claims /\ row.attempts = letter[e].attempts
    BY <2>1 DEF EventRows
  <2> DEFINE step == [reader[w] EXCEPT !.at = "importing", !.result = "processed"]
  <2>s. step \in Hands /\ step.at = "importing" /\ step.on = e /\ step.result = "processed"
    BY <1>1 DEF Hands, Done
  <2>3. letter' = [letter EXCEPT ![e] = row] /\ reader' = [reader EXCEPT ![w] = step]
    BY <1>5 DEF ReaderTurn
  <2> HIDE DEF row, step
  <2>4. MailTyped'  BY <1>1, <1>5, <2>2, <2>3, <2>s DEF ImportInv, MailTyped, Hands
  <2>5. InHand'  BY <1>1, <1>5, <2>3, <2>s DEF InHand, ImportInv, MailTyped
  <2>6. DoneIsImported'  BY <1>5, <2>2, <2>3 DEF DoneIsImported, ImportInv, MailTyped
  <2>7. Paid'  BY <1>5, <2>2, <2>3 DEF Paid, ImportInv, MailTyped
  <2> QED  BY <2>4, <2>5, <2>6, <2>7 DEF ImportInv
<1> QED  BY <1>3, <1>4, <1>5 DEF Route, ReaderTurn

LEMMA FinalizeKeeps ==
  ASSUME ImportInv, NEW w \in Readers, Finalize(w)
  PROVE  ImportInv'
<1> DEFINE e == reader[w].on
<1>1. reader[w].at \in {"settling", "importing"} /\ e \in Events
  BY DEF Finalize, ImportInv, InHand
<1>2. CASE ReaderTurn(w, [reader[w] EXCEPT !.at = "failing"])
             /\ UNCHANGED <<letter, imported, admin, cases>>
  BY <1>1, <1>2, FailingKeeps
<1>3. CASE ReaderTurn(w, Resting) /\ UNCHANGED <<letter, imported, admin, cases>>
  BY <1>3, RestKeeps DEF ReaderTurn
<1>4. CASE /\ letter' = [letter EXCEPT ![e] =
                [@ EXCEPT !.status = reader[w].result, !.token = 0, !.stale = FALSE]]
           /\ imported' = imported \cup
                (IF reader[w].at = "importing" THEN {MailOf(e)} ELSE {})
           /\ ReaderTurn(w, Resting) /\ UNCHANGED <<admin, cases>>
  <2> DEFINE row == [letter[e] EXCEPT !.status = reader[w].result, !.token = 0, !.stale = FALSE]
  <2>1. letter[e] \in EventRows /\ reader[w].result \in Done \cup Parked
    BY <1>1 DEF ImportInv, MailTyped, InHand, Done
  <2>2. row \in EventRows /\ row.status = reader[w].result
          /\ row.claims = letter[e].claims /\ row.attempts = letter[e].attempts
    BY <2>1 DEF EventRows
  <2>3. letter' = [letter EXCEPT ![e] = row] /\ reader' = [reader EXCEPT ![w] = Resting]
    BY <1>4 DEF ReaderTurn
  <2> HIDE DEF row
  <2>4. MailOf(e) \in Mails  BY <1>1 DEF MailOf, Events
  <2>5. MailTyped'  BY <1>4, <2>2, <2>3, <2>4 DEF ImportInv, MailTyped, Resting
  <2>6. InHand'  BY <1>4, <2>3 DEF InHand, ImportInv, MailTyped, Resting
  <2>7. row.status \in Done => MailOf(e) \in imported'
    BY <1>1, <1>4, <2>2 DEF ImportInv, InHand, Done, Parked
  <2>8. DoneIsImported'  BY <1>4, <2>3, <2>7 DEF DoneIsImported, ImportInv, MailTyped
  <2>9. Paid'  BY <1>4, <2>2, <2>3 DEF Paid, ImportInv, MailTyped
  <2> QED  BY <2>5, <2>6, <2>8, <2>9 DEF ImportInv
<1> QED  BY <1>2, <1>3, <1>4 DEF Finalize, ReaderTurn

LEMMA TroubleKeeps ==
  ASSUME ImportInv, NEW w \in Readers, MailTrouble(w)
  PROVE  ImportInv'
<1>1. reader[w].on \in Events  BY DEF MailTrouble, ImportInv, InHand
<1> QED  BY <1>1, FailingKeeps DEF MailTrouble

LEMMA RecordFailureKeeps ==
  ASSUME ImportInv, NEW w \in Readers, RecordFailure(w)
  PROVE  ImportInv'
<1> DEFINE e == reader[w].on
           row == IF letter[e].attempts >= EventAttempts THEN DeadLettered(letter[e])
                  ELSE [letter[e] EXCEPT !.status = "retry", !.token = 0, !.stale = FALSE]
<1>1. e \in Events /\ letter[e] \in EventRows  BY DEF RecordFailure, ImportInv, InHand, MailTyped
<1>2. CASE letter' = letter  BY <1>2, RestKeeps DEF RecordFailure, ReaderTurn
<1>3. CASE letter' = [letter EXCEPT ![e] = row]
  <2>1. row \in EventRows /\ row.status \in {"dead_letter", "retry"}
          /\ row.claims = letter[e].claims /\ row.attempts = letter[e].attempts
    BY <1>1, DeadLetteredRow, RetryRow
  <2> HIDE DEF row
  <2>2. reader' = [reader EXCEPT ![w] = Resting] /\ UNCHANGED <<imported, admin, cases>>
    BY DEF RecordFailure, ReaderTurn
  <2>3. MailTyped'  BY <1>3, <2>1, <2>2 DEF ImportInv, MailTyped, Resting
  <2>4. InHand'  BY <2>2 DEF InHand, ImportInv, MailTyped, Resting
  <2>5. DoneIsImported'  BY <1>3, <2>1, <2>2 DEF DoneIsImported, ImportInv, MailTyped, Done
  <2>6. Paid'  BY <1>3, <2>1, <2>2 DEF Paid, ImportInv, MailTyped
  <2> QED  BY <2>3, <2>4, <2>5, <2>6 DEF ImportInv
<1> QED  BY <1>2, <1>3 DEF RecordFailure

LEMMA CrashKeeps ==
  ASSUME ImportInv, NEW w \in Readers, ReaderDies(w)
  PROVE  ImportInv'
  BY RestKeeps DEF ReaderDies, ReaderTurn

-----------------------------------------------------------------------------
(* Managers.  Each decision pays for EventAttempts more claims.              *)

LEMMA DecisionPays ==
  ASSUME ImportInv, NEW e \in Events, NEW row \in EventRows,
         letter' = [letter EXCEPT ![e] = row], row.claims = letter[e].claims,
         cases' = cases + 1
  PROVE  Paid'
<1> DEFINE credit == EventAttempts * cases
<1>1. EventAttempts * (cases + 1) = credit + EventAttempts /\ credit \in Nat
  BY MailAssumption DEF ImportInv, MailTyped
<1> SUFFICES ASSUME NEW x \in Events
             PROVE  letter'[x].claims <= letter'[x].attempts + (credit + EventAttempts)
  BY <1>1 DEF Paid
<1>2. letter[x] \in EventRows /\ letter[x].claims <= letter[x].attempts + credit
  BY DEF ImportInv, MailTyped, Paid
<1> HIDE DEF credit
<1>3. CASE x = e  BY <1>1, <1>2, <1>3, MailAssumption DEF ImportInv, MailTyped, EventRows
<1>4. CASE x # e  BY <1>1, <1>2, <1>4, MailAssumption DEF ImportInv, MailTyped, EventRows
<1> QED  BY <1>3, <1>4

LEMMA ManagerKeeps ==
  ASSUME ImportInv,
         \/ \E a \in Admins : ResolveException(a) \/ \E e \in Events : ReadException(a, e)
         \/ \E e \in Events : RequeueDeadLetter(e)
  PROVE  ImportInv'
<1> USE DEF ImportInv, MailTyped
<1>0. 0 \in 0..EventAttempts  BY MailAssumption
<1>1. ASSUME NEW a \in Admins, ResolveException(a)  PROVE ImportInv'
  <2> DEFINE e == admin[a]
             row == [letter[e] EXCEPT !.status = "received", !.attempts = 0, !.token = 0,
                                     !.stale = FALSE, !.routed = TRUE]
  <2>1. e \in Events /\ letter[e] \in EventRows  BY <1>1 DEF ResolveException
  <2>2. row \in EventRows /\ row.status = "received" /\ row.claims = letter[e].claims
    BY <2>1, <1>0 DEF EventRows
  <2>3. letter' = [letter EXCEPT ![e] = row] /\ cases' = cases + 1
          /\ admin' = [admin EXCEPT ![a] = NoEvent] /\ UNCHANGED <<imported, reader>>
    BY <1>1 DEF ResolveException
  <2> HIDE DEF row
  <2>4. MailTyped'  BY <2>1, <2>2, <2>3
  <2>5. Paid'  BY <2>1, <2>2, <2>3, DecisionPays
  <2>6. InHand'  BY <2>3 DEF InHand
  <2>7. DoneIsImported'  BY <2>2, <2>3 DEF DoneIsImported, Done
  <2> QED  BY <2>4, <2>5, <2>6, <2>7
<1>2. ASSUME NEW a \in Admins, NEW e \in Events, ReadException(a, e)  PROVE ImportInv'
  BY <1>2 DEF ReadException, InHand, DoneIsImported, Paid
<1>3. ASSUME NEW e \in Events, RequeueDeadLetter(e)  PROVE ImportInv'
  <2> DEFINE row == [letter[e] EXCEPT !.status = "retry", !.attempts = 0]
  <2>1. row \in EventRows /\ row.status = "retry" /\ row.claims = letter[e].claims
    BY <1>0 DEF EventRows
  <2>2. letter' = [letter EXCEPT ![e] = row] /\ cases' = cases + 1
          /\ UNCHANGED <<imported, reader, admin>>
    BY <1>3 DEF RequeueDeadLetter
  <2> HIDE DEF row
  <2>3. MailTyped'  BY <2>1, <2>2
  <2>4. Paid'  BY <2>1, <2>2, DecisionPays
  <2>5. InHand'  BY <2>2 DEF InHand
  <2>6. DoneIsImported'  BY <2>1, <2>2 DEF DoneIsImported, Done
  <2> QED  BY <2>3, <2>4, <2>5, <2>6
<1> QED  BY <1>1, <1>2, <1>3

-----------------------------------------------------------------------------
LEMMA MailSteps ==
  ASSUME ImportInv, [MailNext]_mailVars
  PROVE  ImportInv'
<1>1. CASE UNCHANGED mailVars
  BY <1>1 DEF mailVars, ImportInv, MailTyped, InHand, DoneIsImported, Paid
<1>2. ASSUME NEW m \in Mails, MailWebhook(m) \/ RecoverMail(m)  PROVE ImportInv'
  <2>1. <<m, "webhook">> \in Events  BY DEF Events
  <2> QED  BY <1>2, <2>1, IngestKeeps, RecoverKeeps DEF MailWebhook
<1>3. ASSUME NEW w \in Readers, Reads(w) \/ MailTrouble(w) \/ ReaderDies(w)  PROVE ImportInv'
  BY <1>3, ClaimKeeps, ExhaustKeeps, RouteKeeps, FinalizeKeeps, RecordFailureKeeps,
     TroubleKeeps, CrashKeeps
  DEF Reads
<1>4. ASSUME NEW e \in Events, MailLeaseExpires(e)  PROVE ImportInv'  BY <1>4, LeaseExpiresKeeps
<1> QED  BY <1>1, <1>2, <1>3, <1>4, ManagerKeeps DEF MailNext

(* Every claimed message that counts as done is in the inbox (a commit     *)
(* behind the fence of finalize_resend_event_claim), and an event is       *)
(* claimed at most EventAttempts times, and as often again per decision of a *)
(* manager (resend_event_max_attempts).                                    *)
THEOREM ImportsAreTrue == MailSpec => [](MailTyped /\ ImportsTrue)
<1>1. MailInit => ImportInv  BY MailStarts
<1>2. ImportInv /\ [MailNext]_mailVars => ImportInv'  BY MailSteps
<1>3. ImportInv => MailTyped /\ ImportsTrue
  <2> SUFFICES ASSUME ImportInv, NEW e \in Events
               PROVE  letter[e].claims <= EventAttempts * (1 + cases)
    BY DEF ImportInv, ImportsTrue, PoisonIsBounded
  <2> DEFINE credit == EventAttempts * cases
  <2>1. EventAttempts * (1 + cases) = credit + EventAttempts /\ credit \in Nat
    BY MailAssumption DEF ImportInv, MailTyped
  <2>2. letter[e] \in EventRows /\ letter[e].claims <= letter[e].attempts + credit
    BY DEF ImportInv, MailTyped, Paid
  <2> HIDE DEF credit
  <2> QED  BY <2>1, <2>2, MailAssumption DEF EventRows
<1> QED  BY <1>1, <1>2, <1>3, PTL DEF MailSpec

-----------------------------------------------------------------------------
(* What has ended.  Nobody but a manager takes an event out of its end.    *)

Ends == Done \cup Parked

LEMMA OthersLeaveEnds ==
  ASSUME ImportInv, MailNext, \A a \in Admins : ~ResolveException(a), NEW e \in Events,
         letter[e].status \in Ends
  PROVE  letter'[e].status = letter[e].status
<1> USE DEF Ends, Done, Parked, ImportInv, MailTyped
<1>1. ASSUME NEW x \in Events, Ingest(x) \/ MailLeaseExpires(x) \/ RequeueDeadLetter(x)
      PROVE  letter'[e].status = letter[e].status
  BY <1>1 DEF Ingest, MailLeaseExpires, RequeueDeadLetter
<1>2. ASSUME NEW m \in Mails, MailWebhook(m) \/ RecoverMail(m)
      PROVE  letter'[e].status = letter[e].status
  <2>1. <<m, "webhook">> \in Events /\ <<m, "recovery">> \in Events  BY DEF Events
  <2> QED  BY <1>1, <1>2, <2>1 DEF MailWebhook, RecoverMail, Stale
<1>3. ASSUME NEW w \in Readers, NEW x \in Events, ClaimMail(w, x) \/ Exhaust(w, x)
      PROVE  letter'[e].status = letter[e].status
  BY <1>3 DEF ClaimMail, Exhaust, MailClaimable, Stale
<1>4. ASSUME NEW w \in Readers, Route(w)
      PROVE  letter'[e].status = letter[e].status
  <2>1. reader[w].on \in Events /\ letter[e] \in EventRows /\ letter[reader[w].on] \in EventRows
    BY <1>4 DEF Route, InHand
  <2>2. CASE letter' = letter  BY <2>2
  <2>3. CASE letter' = [letter EXCEPT ![reader[w].on] =
                         [@ EXCEPT !.routed = TRUE, !.stale = FALSE]]
    BY <2>1, <2>3 DEF EventRows
  <2> QED  BY <1>4, <2>2, <2>3 DEF Route
<1>5. ASSUME NEW w \in Readers, Finalize(w) \/ RecordFailure(w)
      PROVE  letter'[e].status = letter[e].status
  BY <1>5 DEF Finalize, RecordFailure, Owns, InHand
<1>6. ASSUME NEW w \in Readers, MailTrouble(w) \/ ReaderDies(w)
      PROVE  letter'[e].status = letter[e].status
  BY <1>6 DEF MailTrouble, ReaderDies
<1>7. ASSUME NEW a \in Admins, NEW x \in Events, ReadException(a, x)
      PROVE  letter'[e].status = letter[e].status
  BY <1>7 DEF ReadException
<1> QED  BY <1>1, <1>2, <1>3, <1>4, <1>5, <1>6, <1>7 DEF MailNext, Reads

(* Only the transaction that commits an import changes what is in the      *)
(* inbox, and it adds to it.                                               *)
LEMMA InboxGrows ==
  ASSUME [MailNext]_mailVars
  PROVE  imported \subseteq imported'
BY DEF MailNext, mailVars, Reads, MailWebhook, RecoverMail, Ingest, ClaimMail, Exhaust, Route,
       Finalize, MailTrouble, RecordFailure, ReaderDies, MailLeaseExpires, RequeueDeadLetter,
       ReadException, ResolveException

LEMMA ResolveTakesItsOwn ==
  ASSUME ImportInv, NEW a \in Admins, ResolveException(a), NEW e \in Events,
         letter'[e].status # letter[e].status
  PROVE  a \in DOMAIN admin /\ admin[a] = e /\ admin'[a] = NoEvent
BY DEF ImportInv, MailTyped, ResolveException

(* No late worker, recovered event or late failure reopens, repeats or     *)
(* fails what has been processed, and no message leaves the inbox, however *)
(* many managers read and decide together: "without allowing the stale     *)
(* worker to overwrite the new attempt".  What is reopened is what a       *)
(* manager's own request had read, and that request ends with it.          *)
THEOREM FinishedEventsStay == MailSpec => FinishedStays
<1>1. MailInit => ImportInv  BY MailStarts
<1>2. ImportInv /\ [MailNext]_mailVars => ImportInv'  BY MailSteps
<1> DEFINE ByManager(e) == \E a \in DOMAIN admin : admin[a] = e /\ admin'[a] = NoEvent
           Kept == /\ imported \subseteq imported'
                   /\ \A e \in Events :
                        letter[e].status \in Done /\ letter'[e].status # letter[e].status
                          => ByManager(e)
<1>3. ImportInv /\ [MailNext]_mailVars => [Kept]_mailVars
  <2> SUFFICES ASSUME ImportInv, MailNext, NEW e \in Events,
                      letter[e].status \in Done, letter'[e].status # letter[e].status
               PROVE  ByManager(e)
    BY InboxGrows
  <2>1. PICK a \in Admins : ResolveException(a)  BY OthersLeaveEnds DEF Ends
  <2> QED  BY <2>1, ResolveTakesItsOwn
<1> QED  BY <1>1, <1>2, <1>3, PTL DEF MailSpec, FinishedStays

-----------------------------------------------------------------------------
(***************************************************************************)
(* ResendLifecycle.  The account always shows the report to be shown among *)
(* those processed so far; that needs one worker at a time (it knows the   *)
(* account as it is) and times that agree with the statuses.               *)
(***************************************************************************)
Accounts == [status : DOMAIN StatusRank, at : Nat]
NoticeRow ==
  [status : {"none", "waiting", "processing", "processed", "dead_letter"}, attempts : Nat]
TellerRow == [on : Notices \cup {NoNotice}, saw : Accounts \cup {NoNotice}]

NoticeState ==
  /\ account \in Accounts \cup {NoNotice}
  /\ banned \in BOOLEAN
  /\ notice \in [Notices -> NoticeRow]
  /\ teller \in [Tellers -> TellerRow]

(* A report is in one worker's hand only.                                  *)
InOneHand ==
  /\ \A w \in Tellers :
       teller[w].on # NoNotice => notice[teller[w].on].status = "processing"
  /\ \A v, w \in Tellers : teller[v].on = teller[w].on /\ teller[v].on # NoNotice => v = w

(* A record that was found stays.                                          *)
SeenExists == \A w \in Tellers : teller[w].saw # NoNotice => account # NoNotice

(* A single worker knows the record as it is, or did not find it.          *)
KnowsAccount == \A w \in Tellers : teller[w].on # NoNotice => teller[w].saw \in {NoNotice, account}

Final(r) == r.kind \in FinalStatuses

(* Of these reports t is the one to be shown.                              *)
Leads(t, R) ==
  /\ Final(t) => \A q \in R : Final(q) => q.at <= t.at
  /\ ~Final(t) => \A q \in R : ~Final(q) /\ StatusRank[q.kind] <= StatusRank[t.kind]

Taken(r) == [status |-> r.kind, at |-> r.at]
Unreported == [status |-> "sent", at |-> 0]

Shows(a, R) ==
  \/ R = {} /\ a \in {NoNotice, Unreported}
  \/ \E t \in R : a = Taken(t) /\ Leads(t, R)

NoticeIInv ==
  /\ NoticeState /\ InOneHand /\ SeenExists /\ BounceSuppresses
  /\ OneTeller /\ TimesAgree => KnowsAccount /\ Shows(account, Processed)

-----------------------------------------------------------------------------
LEMMA Ranks ==
  /\ \A k \in DOMAIN StatusRank : StatusRank[k] \in Nat /\ k # "pending" => StatusRank[k] >= 10
  /\ FinalStatuses \subseteq DOMAIN StatusRank
  /\ \A j, k \in DOMAIN StatusRank \ FinalStatuses : StatusRank[j] = StatusRank[k] => j = k
  /\ StatusRank["sent"] = 10 /\ "sent" \in DOMAIN StatusRank \ FinalStatuses
BY DEF StatusRank, FinalStatuses

LEMMA RankType == \A k \in DOMAIN StatusRank : StatusRank[k] \in Nat
BY DEF StatusRank

LEMMA Reported ==
  ASSUME NEW r \in Notices
  PROVE  /\ r.kind \in DOMAIN StatusRank /\ r.kind # "pending" /\ r.at \in Nat /\ r.at > 0
         /\ StatusRank[r.kind] \in Nat /\ StatusRank[r.kind] >= 10
         /\ Taken(r) \in Accounts /\ Taken(r).status = r.kind /\ Taken(r).at = r.at
BY NoticesAssumption, Ranks, RankType DEF Taken, Accounts

LEMMA OverridesIs ==
  ASSUME NEW a, NEW r
  PROVE  Overrides(a, r) <=>
           IF a.status \in FinalStatuses THEN Final(r) /\ (a.at = 0 \/ r.at >= a.at)
           ELSE Final(r) \/ (/\ a.at = 0 \/ r.at >= a.at
                             /\ StatusRank[r.kind] >= StatusRank[a.status])
BY DEF Overrides, Final

(* One more report leaves the one to be shown.                             *)
LEMMA OneMore ==
  ASSUME TimesAgree, NEW R \in SUBSET Notices, NEW r \in Notices, NEW a, a # NoNotice, Shows(a, R),
         NEW b, b = IF Overrides(a, r) THEN Taken(r) ELSE a
  PROVE  Shows(b, R \cup {r})
<1>1. CASE R = {}
  <2>1. a = Unreported
    BY <1>1 DEF Shows
  <2>2. a.status = "sent" /\ a.at = 0
    BY <2>1 DEF Unreported
  <2>3. Overrides(a, r)
    BY <2>2, OverridesIs, Ranks, Reported
  <2>4. Leads(r, {r})
    BY Reported DEF Leads
  <2> QED BY <1>1, <2>3, <2>4 DEF Shows
<1>2. CASE R # {}
  <2>1. PICK t \in R : a = Taken(t) /\ Leads(t, R)
    BY <1>2 DEF Shows
  <2>2. t \in Notices /\ a.status = t.kind /\ a.at = t.at /\ a.at > 0
    BY <2>1, Reported
  <2>3. CASE Final(t)
    <3>1. Overrides(a, r) <=> Final(r) /\ r.at >= t.at
      BY <2>2, <2>3, OverridesIs, Reported DEF Final
    <3>2. CASE Overrides(a, r)
      <4>1. Leads(r, R \cup {r})
        BY <2>1, <2>2, <2>3, <3>1, <3>2, Reported DEF Leads
      <4> QED BY <3>2, <4>1 DEF Shows
    <3>3. CASE ~Overrides(a, r)
      <4>1. Leads(t, R \cup {r})
        BY <2>1, <2>2, <2>3, <3>1, <3>3, Reported DEF Leads
      <4> QED BY <2>1, <3>3, <4>1 DEF Shows
    <3> QED BY <3>2, <3>3
  <2>4. CASE ~Final(t) /\ Final(r)
    <3>1. Overrides(a, r)
      BY <2>2, <2>4, OverridesIs DEF Final
    <3>2. Leads(r, R \cup {r})
      BY <2>1, <2>4, Reported DEF Leads
    <3> QED BY <3>1, <3>2 DEF Shows
  <2>5. CASE ~Final(t) /\ ~Final(r)
    <3>1. Overrides(a, r) <=> r.at >= t.at /\ StatusRank[r.kind] >= StatusRank[t.kind]
      BY <2>2, <2>5, OverridesIs, Reported DEF Final
    <3>2. CASE Overrides(a, r)
      <4>1. Leads(r, R \cup {r})
        BY <2>1, <2>2, <2>5, <3>1, <3>2, Reported DEF Leads
      <4> QED BY <3>2, <4>1 DEF Shows
    <3>3. CASE ~Overrides(a, r)
      <4>1. StatusRank[r.kind] <= StatusRank[t.kind]
        BY <2>2, <2>5, <3>1, <3>3, Reported DEF TimesAgree, Final
      <4>2. Leads(t, R \cup {r})
        BY <2>1, <2>5, <4>1 DEF Leads
      <4> QED BY <2>1, <3>3, <4>2 DEF Shows
    <3> QED BY <3>2, <3>3
  <2> QED BY <2>3, <2>4, <2>5
<1> QED BY <1>1, <1>2

-----------------------------------------------------------------------------
LEMMA NoticeStarts ==
  ASSUME NoticeInit
  PROVE  NoticeIInv
<1>1. NoticeState
  BY DEF NoticeInit, NoticeState, Free, NoticeRow, TellerRow
<1>2. Processed = {}
  BY DEF NoticeInit, Processed
<1>3. InOneHand /\ KnowsAccount /\ SeenExists
  BY DEF NoticeInit, InOneHand, KnowsAccount, SeenExists, Free
<1> QED BY <1>1, <1>2, <1>3 DEF NoticeIInv, Shows, NoticeInit, BounceSuppresses

LEMMA Tells == NoticeState => DOMAIN teller = Tellers
BY DEF NoticeState

(* Steps that process no report.                                           *)
LEMMA QuietKeeps ==
  ASSUME NoticeIInv, NoticeState', InOneHand', SeenExists', Processed' = Processed, banned' = banned,
         account' = account, KnowsAccount => KnowsAccount'
  PROVE  NoticeIInv'
BY DEF NoticeIInv, BounceSuppresses, OneTeller, NoticeState

LEMMA CommitKeeps ==
  ASSUME NoticeIInv, Commit
  PROVE  NoticeIInv'
<1>1. Unreported \in Accounts /\ Unreported # NoNotice
  BY NoticesAssumption, Ranks DEF Unreported, Accounts
<1>2. NoticeState' /\ InOneHand' /\ SeenExists' /\ BounceSuppresses' /\ Processed' = Processed
  BY <1>1 DEF Commit, SeenExists, NoticeIInv, NoticeState, InOneHand, BounceSuppresses, Processed, Unreported
<1>3. ASSUME OneTeller', TimesAgree
      PROVE  KnowsAccount' /\ Shows(account, Processed)'
  <2>1. OneTeller
    BY <1>3 DEF OneTeller, Commit
  <2>2. KnowsAccount /\ Shows(account, Processed) /\ account = NoNotice /\ account' = Unreported
    BY <1>3, <2>1 DEF NoticeIInv, Commit, Unreported
  <2>3. Processed = {}
    BY <2>2, Reported, NoticesAssumption DEF Shows, Processed, Accounts
  <2>4. KnowsAccount'
    BY <2>2 DEF KnowsAccount, Commit
  <2> QED BY <1>2, <2>2, <2>3, <2>4 DEF Shows
<1> QED BY <1>2, <1>3 DEF NoticeIInv

LEMMA ArriveKeeps ==
  ASSUME NoticeIInv, NEW r \in Notices, Arrive(r)
  PROVE  NoticeIInv'
<1>1. PICK n : n = [notice[r] EXCEPT !.status = "waiting"]
  OBVIOUS
<1>2. n \in NoticeRow /\ n.status = "waiting"
  BY <1>1 DEF NoticeIInv, NoticeState, NoticeRow
<1>3. notice' = [notice EXCEPT ![r] = n]
  BY <1>1 DEF Arrive
<1>4. NoticeState' /\ InOneHand' /\ SeenExists' /\ Processed' = Processed
  BY <1>2, <1>3 DEF Arrive, SeenExists, NoticeIInv, NoticeState, InOneHand, Processed
<1> QED BY <1>4, QuietKeeps DEF Arrive, KnowsAccount

LEMMA ClaimNoticeKeeps ==
  ASSUME NoticeIInv, NEW w \in Tellers, NEW r \in Notices, ClaimNotice(w, r)
  PROVE  NoticeIInv'
<1>1. PICK n : n = [status |-> "processing", attempts |-> notice[r].attempts + 1]
  OBVIOUS
<1>2. n \in NoticeRow /\ n.status = "processing" /\ notice[r].status = "waiting"
  BY <1>1 DEF NoticeIInv, NoticeState, NoticeRow, ClaimNotice
<1>3. notice' = [notice EXCEPT ![r] = n]
  BY <1>1 DEF ClaimNotice
<1>4. PICK h : h = [on |-> r, saw |-> account]
  OBVIOUS
<1>5. h \in TellerRow /\ h.on = r /\ h.saw = account
  BY <1>4 DEF NoticeIInv, NoticeState, TellerRow
<1>6. teller' = [teller EXCEPT ![w] = h]
  BY <1>4 DEF ClaimNotice
<1>7. NoticeState' /\ Processed' = Processed
  BY <1>2, <1>3, <1>5, <1>6 DEF ClaimNotice, NoticeIInv, NoticeState, Processed
<1>8. InOneHand' /\ SeenExists'
  BY <1>2, <1>3, <1>5, <1>6 DEF NoticeIInv, NoticeState, InOneHand, SeenExists, ClaimNotice
<1>9. KnowsAccount => KnowsAccount'
  BY <1>5, <1>6 DEF KnowsAccount, ClaimNotice, NoticeIInv, NoticeState
<1> QED BY <1>7, <1>8, <1>9, QuietKeeps DEF ClaimNotice

LEMMA RetryNoticeKeeps ==
  ASSUME NoticeIInv, NEW w \in Tellers, RetryNotice(w)
  PROVE  NoticeIInv'
<1>1. PICK r \in Notices : r = teller[w].on
  BY DEF RetryNotice, NoticeIInv, NoticeState, TellerRow
<1>2. PICK s \in {"dead_letter", "waiting"} :
        s = IF notice[r].attempts >= NoticeAttempts THEN "dead_letter" ELSE "waiting"
  OBVIOUS
<1>3. PICK n : n = [notice[r] EXCEPT !.status = s]
  OBVIOUS
<1>4. n \in NoticeRow /\ n.status = s /\ notice[r].status = "processing"
  BY <1>1, <1>2, <1>3 DEF NoticeIInv, NoticeState, NoticeRow, RetryNotice, InOneHand
<1>5. notice' = [notice EXCEPT ![r] = n]
  BY <1>1, <1>2, <1>3 DEF RetryNotice
<1>6. Free \in TellerRow /\ Free.on = NoNotice /\ Free.saw = NoNotice /\ teller' = [teller EXCEPT ![w] = Free]
  BY DEF Free, TellerRow, RetryNotice
<1>7. NoticeState' /\ Processed' = Processed
  BY <1>2, <1>4, <1>5, <1>6 DEF RetryNotice, NoticeIInv, NoticeState, Processed
<1>8. InOneHand' /\ SeenExists'
  BY <1>1, <1>4, <1>5, <1>6 DEF NoticeIInv, NoticeState, InOneHand, SeenExists, RetryNotice
<1>9. KnowsAccount => KnowsAccount'
  BY <1>6 DEF KnowsAccount, RetryNotice, NoticeIInv, NoticeState
<1> QED BY <1>7, <1>8, <1>9, QuietKeeps DEF RetryNotice

LEMMA ApplyNoticeKeeps ==
  ASSUME NoticeIInv, NEW w \in Tellers, ApplyNotice(w)
  PROVE  NoticeIInv'
<1>1. PICK r \in Notices : r = teller[w].on
  BY DEF ApplyNotice, NoticeIInv, NoticeState, TellerRow
<1>2. PICK a \in Accounts : a = teller[w].saw
  BY DEF ApplyNotice, NoticeIInv, NoticeState, TellerRow
<1>3. PICK n : n = [notice[r] EXCEPT !.status = "processed"]
  OBVIOUS
<1>4. n \in NoticeRow /\ n.status = "processed" /\ notice[r].status = "processing"
  BY <1>1, <1>3 DEF NoticeIInv, NoticeState, NoticeRow, ApplyNotice, InOneHand
<1>5. notice' = [notice EXCEPT ![r] = n]
  BY <1>1, <1>3 DEF ApplyNotice
<1>6. Free \in TellerRow /\ Free.on = NoNotice /\ Free.saw = NoNotice /\ teller' = [teller EXCEPT ![w] = Free]
  BY DEF Free, TellerRow, ApplyNotice
<1>7. Processed' = Processed \cup {r}
  BY <1>4, <1>5 DEF NoticeIInv, NoticeState, Processed
<1>8. banned' = (banned \/ r.kind \in Suppressing)
  BY <1>1 DEF ApplyNotice
<1>9. account' = IF Overrides(a, r) THEN Written(a, r) ELSE account
  BY <1>1, <1>2 DEF ApplyNotice
<1>10. InOneHand'
  BY <1>1, <1>4, <1>5, <1>6 DEF NoticeIInv, NoticeState, InOneHand, ApplyNotice
<1>11. BounceSuppresses'
  BY <1>7, <1>8 DEF BounceSuppresses, NoticeIInv, NoticeState
<1>12. NoticeState' /\ SeenExists'
  <2>1. account \in Accounts
    BY <1>2, NoticesAssumption DEF NoticeIInv, NoticeState, SeenExists
  <2>2. Written(a, r) \in Accounts
    BY <2>1, Reported DEF Written, Accounts
  <2>3. account' \in Accounts /\ NoNotice \notin Accounts
    BY <1>9, <2>1, <2>2, NoticesAssumption DEF Accounts
  <2>4. banned' \in BOOLEAN
    BY <1>8 DEF NoticeIInv, NoticeState
  <2> QED BY <1>4, <1>5, <1>6, <2>3, <2>4 DEF NoticeIInv, NoticeState, SeenExists
<1>13. ASSUME OneTeller', TimesAgree
       PROVE  KnowsAccount' /\ Shows(account, Processed)'
  <2>1. OneTeller
    BY <1>6, <1>13 DEF OneTeller, NoticeIInv, NoticeState
  <2>2. a = account /\ a # NoNotice /\ Shows(a, Processed)
    BY <1>1, <1>2, <1>13, <2>1, NoticesAssumption DEF NoticeIInv, KnowsAccount, Accounts, ApplyNotice
  <2>3. Written(a, r) = Taken(r)
    BY <2>2 DEF Written, Taken
  <2>4. account' = IF Overrides(a, r) THEN Taken(r) ELSE a
    BY <1>9, <2>2, <2>3
  <2>5. Processed \in SUBSET Notices
    BY DEF Processed
  <2>6. PICK b : b = account'
    OBVIOUS
  <2>7. Shows(b, Processed \cup {r})
    BY <1>13, <2>2, <2>4, <2>5, <2>6, OneMore
  <2>8. KnowsAccount'
    BY <1>6, <2>1 DEF KnowsAccount, OneTeller, NoticeIInv, NoticeState
  <2> QED BY <1>7, <2>6, <2>7, <2>8
<1> QED BY <1>10, <1>11, <1>12, <1>13 DEF NoticeIInv

LEMMA NoticeSteps ==
  ASSUME NoticeIInv, [NoticeNext]_noticeVars
  PROVE  NoticeIInv'
<1>1. CASE UNCHANGED noticeVars
  BY <1>1 DEF noticeVars, NoticeIInv, NoticeState, InOneHand, SeenExists, BounceSuppresses,
              Processed, OneTeller, KnowsAccount, Shows
<1>2. CASE Commit
  BY <1>2, CommitKeeps
<1>3. ASSUME NEW r \in Notices, Arrive(r) PROVE NoticeIInv'
  BY <1>3, ArriveKeeps
<1>4. ASSUME NEW w \in Tellers, ApplyNotice(w) PROVE NoticeIInv'
  BY <1>4, ApplyNoticeKeeps
<1>5. ASSUME NEW w \in Tellers, RetryNotice(w) PROVE NoticeIInv'
  BY <1>5, RetryNoticeKeeps
<1>6. ASSUME NEW w \in Tellers, NEW r \in Notices, ClaimNotice(w, r) PROVE NoticeIInv'
  BY <1>6, ClaimNoticeKeeps
<1> QED BY <1>1, <1>2, <1>3, <1>4, <1>5, <1>6 DEF NoticeNext

(* The report the record shows, when all are processed, is the decisive.   *)
LEMMA ShownIsDecisive ==
  ASSUME NoticeIInv
  PROVE  Converges
<1>1. SUFFICES ASSUME OneTeller, TimesAgree, Notices # {}, Processed = Notices
               PROVE  account.status = Decisive(Notices).kind
  BY DEF Converges, ShowsDecisive, NoticeIInv
<1>2. PICK t \in Notices : account = Taken(t) /\ Leads(t, Notices)
  BY <1>1 DEF NoticeIInv, Shows
<1>3. account.status = t.kind
  BY <1>2, Reported
<1>4. PICK ends : ends = {r \in Notices : r.kind \in FinalStatuses}
  OBVIOUS
<1>5. CASE ends # {}
  <2>1. t \in ends /\ \A q \in ends : q.at <= t.at
    BY <1>2, <1>4, <1>5 DEF Leads, Final
  <2>2. PICK d : d = CHOOSE r \in ends : \A q \in ends : q.at <= r.at
    OBVIOUS
  <2>3. d \in ends /\ \A q \in ends : q.at <= d.at
    BY <2>1, <2>2
  <2>4. d.at = t.at
    BY <1>4, <2>1, <2>3, Reported
  <2>5. d.kind = t.kind
    BY <1>1, <1>4, <2>1, <2>3, <2>4 DEF TimesAgree
  <2>6. Decisive(Notices) = d
    BY <1>4, <1>5, <2>2 DEF Decisive
  <2> QED BY <1>3, <2>5, <2>6
<1>6. CASE ends = {}
  <2>1. \A q \in Notices : ~Final(q) /\ StatusRank[q.kind] <= StatusRank[t.kind]
    BY <1>2, <1>4, <1>6 DEF Leads, Final
  <2>2. PICK d : d = CHOOSE r \in Notices : \A q \in Notices :
                       StatusRank[q.kind] <= StatusRank[r.kind]
    OBVIOUS
  <2>3. d \in Notices /\ \A q \in Notices : StatusRank[q.kind] <= StatusRank[d.kind]
    BY <2>1, <2>2
  <2>4. StatusRank[d.kind] = StatusRank[t.kind]
    BY <2>1, <2>3, Reported
  <2>5. d.kind = t.kind
    BY <2>1, <2>3, <2>4, Ranks, Reported DEF Final
  <2>6. Decisive(Notices) = d
    BY <1>4, <1>6, <2>2 DEF Decisive
  <2> QED BY <1>3, <2>5, <2>6
<1> QED BY <1>5, <1>6

(* The delivery status converges (should_apply_status): one worker ends on *)
(* the decisive report in whatever order they come, if the times that the  *)
(* provider gives agree with what it reports; and a processed bounce       *)
(* suppresses the recipient, although two workers may overwrite each       *)
(* other's status.                                                         *)
THEOREM ReportsConverge == NoticeSpec => []Converges
<1>1. NoticeInit => NoticeIInv
  BY NoticeStarts
<1>2. NoticeIInv /\ [NoticeNext]_noticeVars => NoticeIInv'
  BY NoticeSteps
<1>3. NoticeIInv => Converges
  BY ShownIsDecisive
<1> QED BY <1>1, <1>2, <1>3, PTL DEF NoticeSpec

-----------------------------------------------------------------------------
(***************************************************************************)
(* MmsMedia.  What is stored is always a first part of the message, and so *)
(* is what each worker knows of it, so that a worker whose next photo is   *)
(* new knows all that is stored when it measures it.                       *)
(***************************************************************************)
LEMMA PhotosAre ==
  ASSUME size \in Received
  PROVE  Photos = 1..Len(size) /\ Len(size) \in Nat
BY PhotosAssumption DEF Photos

LEMMA BytesOfNone == Bytes({}) = 0
<1>1. PICK g : g = [s \in SUBSET {} |-> 0]
  OBVIOUS
<1> QED BY <1>1 DEF Bytes, SumFunctionOnSet, FoldFunctionOnSet, MapThenFoldSet

(* The photo a worker takes next is the first of those it does not know.   *)
LEMMA CurrentIsFirst ==
  ASSUME size \in Received, NEW w \in Keepers, Left(w) # {}
  PROVE  Current(w) \in Left(w) /\ \A j \in Left(w) : Current(w) <= j
<1>1. Left(w) \subseteq Nat
  BY PhotosAre DEF Left
<1>2. PICK R : R = OpToRel(<, Nat)
  OBVIOUS
<1>3. IsWellFoundedOn(R, Nat)
  BY <1>2, NatLessThanWellFounded, Zenon
<1>4. PICK i \in Left(w) : \A j \in Left(w) : ~(<<j, i>> \in R)
  BY <1>1, <1>3, WFMin
<1>5. \A x, y \in Nat : x < y => <<x, y>> \in R
  BY <1>2, Zenon DEF OpToRel
<1>6. ASSUME NEW j \in Left(w)
      PROVE  i <= j
  <2>1. i \in Nat /\ j \in Nat
    BY <1>1
  <2>2. ~(j < i)
    BY <1>4, <1>5, <2>1, Zenon
  <2> QED BY <2>1, <2>2
<1>7. PICK c : c = Current(w)
  OBVIOUS
<1>8. c \in Left(w) /\ \A j \in Left(w) : c <= j
  BY <1>6, <1>7, Zenon DEF Current
<1> QED BY <1>7, <1>8, Zenon

-----------------------------------------------------------------------------
(* Photos are stored in the order of the message: what is stored, and what *)
(* a worker knows as stored, is always the first photos of it.             *)
Leading(S) == S \subseteq Photos /\ \A i \in S : \A j \in Photos : j <= i => j \in S

Knows(w) == Leading(keeper[w].has) /\ keeper[w].has \subseteq stored

(* The row of the event is locked by a worker at its first photo, which    *)
(* still holds the claim.                                                  *)
LocksRight(w) == keeper[w].locks => keeper[w].at = "storing" /\ HoldsMedia(w)

PhotosInv ==
  /\ MediaTyped
  /\ Leading(stored)
  /\ \A w \in Keepers : Knows(w) /\ LocksRight(w)
  /\ PhotosKept

LEMMA PhotosStart == MediaInit => PhotosInv
<1> SUFFICES ASSUME MediaInit PROVE PhotosInv
  OBVIOUS
<1>1. MediaTyped
  BY PhotosAssumption DEF MediaInit, MediaTyped, Away, Ended, Photos
<1>2. Leading(stored) /\ \A w \in Keepers : Knows(w) /\ LocksRight(w)
  BY DEF MediaInit, Leading, Knows, LocksRight, Away
<1>3. PhotosKept
  <2>1. stored = {} /\ media.status # "processed"
    BY DEF MediaInit
  <2>2. Bytes(stored) <= MaxTotal
    BY <2>1, BytesOfNone, PhotosAssumption
  <2> QED BY <2>1, <2>2 DEF PhotosKept, PhotosComplete, PhotosBounded
<1> QED BY <1>1, <1>2, <1>3 DEF PhotosInv

(* A photo is stored by a worker that knows all that is stored before it.  *)
LEMMA StoresNext ==
  ASSUME NEW w \in Keepers, PhotosInv, Left(w) # {}, Current(w) \notin stored
  PROVE  stored = keeper[w].has
<1>1. PICK c : c = Current(w)
  OBVIOUS
<1>2. c \in Left(w) /\ \A j \in Left(w) : c <= j
  BY <1>1, CurrentIsFirst DEF PhotosInv, MediaTyped
<1>3. keeper[w].has \subseteq stored /\ Leading(stored)
  BY DEF PhotosInv, Knows
<1>4. SUFFICES ASSUME NEW s \in stored PROVE s \in keeper[w].has
  BY <1>3
<1>5. s \in Nat /\ c \in Nat /\ s \in Photos /\ c \in Photos
  BY <1>2, <1>3, PhotosAre DEF Leading, Left, PhotosInv, MediaTyped
<1>6. ~(c <= s)
  BY <1>1, <1>3, <1>5 DEF Leading
<1>7. s \notin Left(w)
  BY <1>2, <1>5, <1>6
<1> QED BY <1>5, <1>7 DEF Left

LEMMA LeadingGrows ==
  ASSUME size \in Received, NEW w \in Keepers, Left(w) # {}, Leading(keeper[w].has)
  PROVE  Leading(keeper[w].has \cup {Current(w)}) /\ Current(w) \in Photos
<1>1. PICK c : c = Current(w)
  OBVIOUS
<1>2. c \in Left(w) /\ \A j \in Left(w) : c <= j
  BY <1>1, CurrentIsFirst
<1>3. c \in Photos /\ Photos \subseteq Nat
  BY <1>2, PhotosAre DEF Left
<1>4. ASSUME NEW i \in keeper[w].has \cup {c}, NEW j \in Photos, j <= i
      PROVE  j \in keeper[w].has \cup {c}
  <2>1. CASE i \in keeper[w].has
    BY <1>4, <2>1 DEF Leading
  <2>2. CASE i = c
    <3>1. CASE j \in Left(w)
      BY <1>2, <1>3, <1>4, <2>2, <3>1
    <3>2. CASE j \notin Left(w)
      BY <3>2 DEF Left
    <3> QED BY <3>1, <3>2
  <2> QED BY <2>1, <2>2
<1>5. Leading(keeper[w].has \cup {c})
  BY <1>3, <1>4 DEF Leading
<1> QED BY <1>1, <1>3, <1>5

-----------------------------------------------------------------------------
LEMMA ClaimKeepsPhotos ==
  ASSUME PhotosInv, NEW w \in Keepers, ClaimMedia(w)
  PROVE  PhotosInv'
<1>1. MediaTyped /\ Leading(stored) /\ (\A v \in Keepers : Knows(v) /\ LocksRight(v)) /\ PhotosKept
  BY DEF PhotosInv
<1>2. /\ size' = size /\ stored' = stored /\ media.status \notin {"processed"} /\ media'.status # "processed"
      /\ \A v \in Keepers : ~keeper[v].locks
  <2>1. /\ size' = size /\ stored' = stored /\ media.status # "processed"
        /\ \A v \in Keepers : ~keeper[v].locks
    BY DEF ClaimMedia, MediaClaimable, MediaLocked
  <2>2. Closed("dead_letter").status # "processed"
    BY <1>1 DEF Closed, MediaTyped
  <2>3. media'.status # "processed"
    BY <2>2 DEF ClaimMedia
  <2> QED BY <2>1, <2>3
<1>3. MediaTyped' /\ \A v \in Keepers : keeper'[v].has = keeper[v].has /\ ~keeper'[v].locks
  <2>1. CASE media.attempts >= MediaAttempts
    BY <1>1, <1>2, <2>1 DEF ClaimMedia, MediaTyped, Closed, Ended, Photos
  <2>2. CASE ~(media.attempts >= MediaAttempts)
    <3>1. media.attempts + 1 \in 0..MediaAttempts
      BY <1>1, <2>2, PhotosAssumption DEF MediaTyped
    <3>2. PICK r : r = [keeper[w] EXCEPT !.at = "claimed"]
      OBVIOUS
    <3>3. keeper' = [keeper EXCEPT ![w] = r]
      BY <2>2, <3>2 DEF ClaimMedia
    <3>4. /\ r \in [at : {"idle", "claimed", "storing"}, has : SUBSET Photos, locks : BOOLEAN]
          /\ r.has = keeper[w].has /\ r.locks = keeper[w].locks
      BY <1>1, <3>2 DEF MediaTyped
    <3>5. media' = [status |-> "processing", attempts |-> media.attempts + 1,
                    holder |-> w, stale |-> FALSE]
      BY <2>2 DEF ClaimMedia
    <3> QED BY <1>1, <1>2, <3>1, <3>3, <3>4, <3>5 DEF MediaTyped, Photos
  <2> QED BY <2>1, <2>2
<1>4. \A v \in Keepers : Knows(v)' /\ LocksRight(v)'
  BY <1>1, <1>2, <1>3 DEF Knows, LocksRight, Leading, Photos
<1>5. Leading(stored)' /\ PhotosKept'
  BY <1>1, <1>2 DEF PhotosKept, PhotosComplete, PhotosBounded, Leading, Photos, Bytes
<1> QED BY <1>3, <1>4, <1>5 DEF PhotosInv

LEMMA BeginKeepsPhotos ==
  ASSUME PhotosInv, NEW w \in Keepers, BeginMedia(w)
  PROVE  PhotosInv'
<1>1. MediaTyped /\ Leading(stored) /\ (\A v \in Keepers : Knows(v) /\ LocksRight(v)) /\ PhotosKept
  BY DEF PhotosInv
<1>2. size' = size /\ media' = media /\ stored' = stored
  BY DEF BeginMedia
<1>3. PICK r : r = IF HoldsMedia(w) THEN [at |-> "storing", has |-> stored, locks |-> TRUE] ELSE Away
  OBVIOUS
<1>4. keeper' = [keeper EXCEPT ![w] = r]
  BY <1>3 DEF BeginMedia
<1>5. /\ r \in [at : {"idle", "claimed", "storing"}, has : SUBSET Photos, locks : BOOLEAN]
      /\ r.has \in {stored, {}} /\ (r.locks => r.at = "storing" /\ HoldsMedia(w))
  BY <1>1, <1>3 DEF MediaTyped, Away
<1>6. MediaTyped'
  BY <1>1, <1>2, <1>4, <1>5 DEF MediaTyped, Photos
<1>7. ASSUME NEW v \in Keepers PROVE Knows(v)' /\ LocksRight(v)'
  <2>1. keeper'[v] = IF v = w THEN r ELSE keeper[v]
    BY <1>1, <1>4 DEF MediaTyped
  <2>2. CASE v = w
    BY <1>1, <1>2, <1>5, <2>1, <2>2 DEF Knows, LocksRight, Leading, HoldsMedia, Photos
  <2>3. CASE v # w
    BY <1>1, <1>2, <2>1, <2>3 DEF Knows, LocksRight, HoldsMedia, Leading, Photos
  <2> QED BY <2>2, <2>3
<1>8. Leading(stored)' /\ PhotosKept'
  BY <1>1, <1>2 DEF PhotosKept, PhotosComplete, PhotosBounded, Leading, Photos, Bytes
<1> QED BY <1>6, <1>7, <1>8 DEF PhotosInv

LEMMA StoreKeepsPhotos ==
  ASSUME PhotosInv, NEW w \in Keepers, Store(w)
  PROVE  PhotosInv'
<1>1. MediaTyped /\ Leading(stored) /\ (\A v \in Keepers : Knows(v) /\ LocksRight(v)) /\ PhotosKept
  BY DEF PhotosInv
<1>2. PICK c : c = Current(w)
  OBVIOUS
<1>3. /\ size' = size /\ media' = media /\ stored' = stored \cup {c}
      /\ Left(w) # {} /\ c \notin stored /\ Bytes(keeper[w].has \cup {c}) <= MaxTotal
      /\ keeper[w].at = "storing"
  BY <1>2 DEF Store, Fits
<1>4. stored = keeper[w].has
  BY <1>2, <1>3, StoresNext
<1>5. Leading(stored \cup {c}) /\ c \in Photos
  BY <1>1, <1>2, <1>3, <1>4, LeadingGrows DEF MediaTyped
<1>6. PICK q : q = [keeper[w] EXCEPT !.has = @ \cup {c}]
  OBVIOUS
<1>7. PICK r : r = [q EXCEPT !.locks = FALSE]
  OBVIOUS
<1>8. keeper' = [keeper EXCEPT ![w] = r]
  BY <1>1, <1>2, <1>6, <1>7 DEF Store, MediaTyped
<1>9. /\ r \in [at : {"idle", "claimed", "storing"}, has : SUBSET Photos, locks : BOOLEAN]
      /\ r.has = stored \cup {c} /\ ~r.locks
  BY <1>1, <1>4, <1>5, <1>6, <1>7 DEF MediaTyped
<1>10. MediaTyped'
  BY <1>1, <1>3, <1>5, <1>8, <1>9 DEF MediaTyped, Photos
<1>11. ASSUME NEW v \in Keepers PROVE Knows(v)' /\ LocksRight(v)'
  <2>1. keeper'[v] = IF v = w THEN r ELSE keeper[v]
    BY <1>1, <1>8 DEF MediaTyped
  <2>2. CASE v = w
    BY <1>3, <1>5, <1>9, <2>1, <2>2 DEF Knows, LocksRight, Leading, Photos
  <2>3. CASE v # w
    BY <1>1, <1>3, <2>1, <2>3 DEF Knows, LocksRight, HoldsMedia, Leading, Photos
  <2> QED BY <2>2, <2>3
<1>12. Leading(stored)'
  BY <1>3, <1>5 DEF Leading, Photos
<1>13. PhotosKept'
  <2>1. stored' = keeper[w].has \cup {c}
    BY <1>3, <1>4
  <2>2. Bytes(stored)' <= MaxTotal
    BY <1>3, <2>1 DEF Bytes
  <2>3. media.status # "processed"
    BY <1>1, <1>3, <1>5 DEF PhotosKept, PhotosComplete
  <2> QED BY <1>3, <2>2, <2>3 DEF PhotosKept, PhotosComplete, PhotosBounded
<1> QED BY <1>10, <1>11, <1>12, <1>13 DEF PhotosInv

(* The end of a worker's turn.                                             *)
LEMMA LeavingKeepsPhotos ==
  ASSUME PhotosInv, NEW w \in Keepers, size' = size, stored' = stored,
         keeper' = [keeper EXCEPT ![w] = Away],
         NEW status \in {"processing", "retry"} \cup Ended,
         \/ media' = media
         \/ HoldsMedia(w) /\ media' = Closed(status),
         status = "processed" => stored = Photos
  PROVE  PhotosInv'
<1>1. MediaTyped /\ Leading(stored) /\ (\A v \in Keepers : Knows(v) /\ LocksRight(v)) /\ PhotosKept
  BY DEF PhotosInv
<1>2. media' \in [status : {"pending", "processing", "retry"} \cup Ended,
                  attempts : 0..MediaAttempts, holder : Keepers \cup {NoKeeper}, stale : BOOLEAN]
  <2>1. CASE media' = media
    BY <1>1, <2>1 DEF MediaTyped
  <2>2. CASE HoldsMedia(w) /\ media' = Closed(status)
    <3>1. PICK a : a = [media EXCEPT !.status = status]
      OBVIOUS
    <3>2. PICK b : b = [a EXCEPT !.holder = NoKeeper]
      OBVIOUS
    <3>3. media' = [b EXCEPT !.stale = FALSE]
      BY <2>2, <3>1, <3>2, <1>1 DEF Closed, MediaTyped
    <3> QED BY <1>1, <3>1, <3>2, <3>3 DEF MediaTyped
  <2> QED BY <2>1, <2>2
<1>3. Away \in [at : {"idle", "claimed", "storing"}, has : SUBSET Photos, locks : BOOLEAN]
  BY DEF Away
<1>4. MediaTyped'
  BY <1>1, <1>2, <1>3 DEF MediaTyped, Photos
<1>5. ASSUME NEW v \in Keepers PROVE Knows(v)' /\ LocksRight(v)'
  <2>1. keeper'[v] = IF v = w THEN Away ELSE keeper[v]
    BY <1>1 DEF MediaTyped
  <2>2. CASE v = w
    BY <2>1, <2>2 DEF Knows, LocksRight, Leading, Away, Photos
  <2>3. CASE v # w
    <3>1. Knows(v)'
      BY <1>1, <2>1, <2>3 DEF Knows, Leading, Photos
    <3>2. ASSUME keeper[v].locks PROVE media' = media
      BY <1>1, <2>3, <3>2 DEF LocksRight, HoldsMedia
    <3>3. LocksRight(v)'
      BY <1>1, <2>1, <2>3, <3>2 DEF LocksRight, HoldsMedia
    <3> QED BY <3>1, <3>3
  <2> QED BY <2>2, <2>3
<1>6. media'.status = "processed" => stored = Photos
  BY <1>1 DEF Closed, MediaTyped, PhotosKept, PhotosComplete
<1>7. Leading(stored)' /\ PhotosKept'
  BY <1>1, <1>6 DEF PhotosKept, PhotosComplete, PhotosBounded, Leading, Photos, Bytes
<1> QED BY <1>4, <1>5, <1>7 DEF PhotosInv

LEMMA PhotosStep == PhotosInv /\ [MediaNext]_mediaVars => PhotosInv'
<1> SUFFICES ASSUME PhotosInv, [MediaNext]_mediaVars PROVE PhotosInv'
  OBVIOUS
<1>1. CASE UNCHANGED mediaVars
  BY <1>1 DEF mediaVars, PhotosInv, MediaTyped, Leading, Knows, LocksRight, HoldsMedia,
              PhotosKept, PhotosComplete, PhotosBounded, Photos, Bytes
<1>2. CASE MediaLeaseExpires
  <2>1. /\ size' = size /\ stored' = stored /\ keeper' = keeper /\ media' = [media EXCEPT !.stale = TRUE]
        /\ \A v \in Keepers : ~keeper[v].locks
    BY <1>2 DEF MediaLeaseExpires, MediaLocked
  <2>2. MediaTyped' /\ media'.status = media.status
    BY <2>1 DEF PhotosInv, MediaTyped, Photos
  <2> QED BY <2>1, <2>2 DEF PhotosInv, Leading, Knows, LocksRight, PhotosKept, PhotosComplete,
                            PhotosBounded, Photos, Bytes
<1>3. ASSUME NEW w \in Keepers, Keeps(w) \/ Die(w) PROVE PhotosInv'
  <2>1. CASE ClaimMedia(w)
    BY <2>1, ClaimKeepsPhotos
  <2>2. CASE BeginMedia(w)
    BY <2>2, BeginKeepsPhotos
  <2>3. CASE Store(w)
    BY <2>3, StoreKeepsPhotos
  <2>4. CASE Finish(w)
    <3>1. stored = Photos
      BY <2>4 DEF Finish, Left, PhotosInv, Knows, Leading
    <3>2. /\ size' = size /\ stored' = stored /\ keeper' = [keeper EXCEPT ![w] = Away]
          /\ (media' = media \/ (HoldsMedia(w) /\ media' = Closed("processed")))
      BY <2>4 DEF Finish
    <3> QED BY <3>1, <3>2, LeavingKeepsPhotos DEF Ended
  <2>5. CASE Reject(w)
    <3>1. /\ size' = size /\ stored' = stored /\ keeper' = [keeper EXCEPT ![w] = Away]
          /\ (media' = media \/ (HoldsMedia(w) /\ media' = Closed("rejected")))
          /\ "rejected" \in {"processing", "retry"} \cup Ended /\ "rejected" # "processed"
      BY <2>5 DEF Reject, Ended
    <3> QED BY <3>1, LeavingKeepsPhotos
  <2>6. CASE FailMedia(w)
    <3>1. PICK s : s = IF media.attempts >= MediaAttempts THEN "dead_letter" ELSE "retry"
      OBVIOUS
    <3>2. s \in {"retry", "dead_letter"}
      BY <3>1
    <3>3. /\ size' = size /\ stored' = stored /\ keeper' = [keeper EXCEPT ![w] = Away]
          /\ (media' = media \/ (HoldsMedia(w) /\ media' = Closed(s)))
      BY <2>6, <3>1 DEF FailMedia
    <3> QED BY <3>2, <3>3, LeavingKeepsPhotos DEF Ended
  <2>7. CASE Die(w)
    <3>1. media' = media /\ size' = size /\ stored' = stored /\ keeper' = [keeper EXCEPT ![w] = Away]
      BY <2>7 DEF Die
    <3>2. "retry" \in {"processing", "retry"} \cup Ended /\ "retry" # "processed"
      OBVIOUS
    <3> QED BY <3>1, <3>2, LeavingKeepsPhotos
  <2> QED BY <1>3, <2>1, <2>2, <2>3, <2>4, <2>5, <2>6, <2>7 DEF Keeps
<1> QED BY <1>1, <1>2, <1>3 DEF MediaNext

(* The photos of a received message are kept: whichever workers died or    *)
(* were overtaken at whichever photo, one shown as processed has every     *)
(* photo, and no message ever stores more bytes than the limit.            *)
THEOREM PhotosAreKept == MediaSpec => []PhotosKept
<1>1. PhotosInv => PhotosKept
  BY DEF PhotosInv
<1> QED BY <1>1, PhotosStart, PhotosStep, PTL DEF MediaSpec

(* What ended the work on a message stays its end: a worker that was       *)
(* overtaken does not reopen the event or relabel it.                      *)
THEOREM MediaStaysEnded == MediaSpec => MediaEnds
<1>1. ASSUME PhotosInv, [MediaNext]_mediaVars, media.status \in Ended
      PROVE  media'.status = media.status
  BY <1>1 DEF MediaNext, mediaVars, Keeps, ClaimMedia, MediaClaimable, BeginMedia, Store, Finish,
              Reject, FailMedia, Die, MediaLeaseExpires, HoldsMedia, Ended
<1> QED BY <1>1, PhotosStart, PhotosStep, PTL DEF MediaSpec, MediaEnds
=============================================================================
