-------------------------- MODULE ResendLifecycle --------------------------
(***************************************************************************)
(* What Resend reports about one outbound e-mail, and what the inbox shows *)
(* of it.  Reports arrive in any order and may precede the commit of the   *)
(* outbound record; a worker reads the record without a lock, decides, and *)
(* writes it when it finalizes its claim on the report's event.            *)
(***************************************************************************)
EXTENDS Naturals, FiniteSets

CONSTANTS
  Tellers,         \* workers that apply reports
  Notices,         \* the provider's reports: [kind, at]
  NoticeAttempts,  \* resend_event_max_attempts
  NoNotice

FinalStatuses == {"bounced", "failed", "suppressed", "complained"}
Suppressing == {"bounced", "suppressed", "complained"}

StatusRank ==
  [pending |-> 0, sent |-> 10, delivery_delayed |-> 20, delivered |-> 30,
   bounced |-> 40, failed |-> 40, suppressed |-> 40, complained |-> 50]

(* The status "pending" is the inbox's own: Resend reports none.           *)
ASSUME NoticesAssumption ==
  /\ \A r \in Notices : r.kind \in DOMAIN StatusRank \ {"pending"} /\ r.at \in Nat \ {0}
  /\ NoNotice \notin Notices \cup [status : DOMAIN StatusRank, at : Nat]

VARIABLES
  account,  \* the outbound CommunicationRecord: status, provider_status_at (0: unset)
  banned,   \* the recipient's SuppressionRecord is active
  notice,   \* the reports' CommunicationProviderEvent rows
  teller    \* what each worker has read

noticeVars == <<account, banned, notice, teller>>

Free == [on |-> NoNotice, saw |-> NoNotice]

NoticeInit ==
  /\ account = NoNotice
  /\ banned = FALSE
  /\ notice = [r \in Notices |-> [status |-> "none", attempts |-> 0]]
  /\ teller = [w \in Tellers |-> Free]

-----------------------------------------------------------------------------
(* The sending transaction commits. *)
Commit ==
  /\ account = NoNotice
  /\ account' = [status |-> "sent", at |-> 0]
  /\ UNCHANGED <<banned, notice, teller>>

Arrive(r) ==
  /\ notice[r].status = "none"
  /\ notice' = [notice EXCEPT ![r].status = "waiting"]
  /\ UNCHANGED <<account, banned, teller>>

(* The claim, and the unlocked read of the record. *)
ClaimNotice(w, r) ==
  /\ teller[w].on = NoNotice /\ notice[r].status = "waiting"
  /\ notice' = [notice EXCEPT ![r] = [status |-> "processing", attempts |-> @.attempts + 1]]
  /\ teller' = [teller EXCEPT ![w] = [on |-> r, saw |-> account]]
  /\ UNCHANGED <<account, banned>>

(* Faulty: the later report wins, whatever it says. *)
AppliesLatest(current, r) == r.at >= current.at

(* should_apply_status *)
Overrides(current, r) ==
  CASE current.status \in FinalStatuses ->
         r.kind \in FinalStatuses /\ (current.at = 0 \/ r.at >= current.at)
    [] current.status \notin FinalStatuses /\ r.kind \in FinalStatuses -> TRUE
    [] OTHER -> /\ current.at = 0 \/ r.at >= current.at
                /\ StatusRank[r.kind] >= StatusRank[current.status]

(* The flush writes the columns that differ from what the worker saw. *)
Written(saw, r) ==
  [status |-> IF r.kind = saw.status THEN account.status ELSE r.kind, at |-> r.at]

(* Faulty: the recipient is suppressed only if the status was taken over. *)
ApplyWithStatus(w) ==
  LET r == teller[w].on saw == teller[w].saw IN
  /\ r # NoNotice /\ saw # NoNotice
  /\ account' = IF Overrides(saw, r) THEN Written(saw, r) ELSE account
  /\ banned' = (banned \/ (Overrides(saw, r) /\ r.kind \in Suppressing))
  /\ notice' = [notice EXCEPT ![r].status = "processed"]
  /\ teller' = [teller EXCEPT ![w] = Free]

(* A write from what the worker saw: the unlocked record may have moved.   *)
(* Its dispatch is not missing: both were committed by one transaction.    *)
ApplyNotice(w) ==
  LET r == teller[w].on saw == teller[w].saw IN
  /\ r # NoNotice /\ saw # NoNotice
  /\ account' = IF Overrides(saw, r) THEN Written(saw, r) ELSE account
  /\ banned' = (banned \/ r.kind \in Suppressing)
  /\ notice' = [notice EXCEPT ![r].status = "processed"]
  /\ teller' = [teller EXCEPT ![w] = Free]

(* ResendLifecycleNotReadyError, or any other failure of the attempt. *)
RetryNotice(w) ==
  LET r == teller[w].on IN
  /\ r # NoNotice
  /\ notice' = [notice EXCEPT ![r].status =
       IF notice[r].attempts >= NoticeAttempts THEN "dead_letter" ELSE "waiting"]
  /\ teller' = [teller EXCEPT ![w] = Free]
  /\ UNCHANGED <<account, banned>>

NoticeNext ==
  \/ Commit
  \/ \E r \in Notices : Arrive(r)
  \/ \E w \in Tellers : ApplyNotice(w) \/ RetryNotice(w) \/ \E r \in Notices : ClaimNotice(w, r)

NoticeSpec == NoticeInit /\ [][NoticeNext]_noticeVars

-----------------------------------------------------------------------------
NoticesTyped ==
  /\ account = NoNotice \/ account \in [status : DOMAIN StatusRank, at : Nat]
  /\ banned \in BOOLEAN
  /\ notice \in [Notices ->
       [status : {"none", "waiting", "processing", "processed", "dead_letter"},
        attempts : 0..NoticeAttempts]]
  /\ \A w \in Tellers : teller[w].on \in Notices \cup {NoNotice}

Processed == {r \in Notices : notice[r].status = "processed"}

(* The report the record should show: the latest terminal one, or else the *)
(* one furthest along.                                                     *)
Decisive(R) ==
  LET ends == {r \in R : r.kind \in FinalStatuses} IN
  IF ends # {} THEN CHOOSE r \in ends : \A q \in ends : q.at <= r.at
  ELSE CHOOSE r \in R : \A q \in R : StatusRank[q.kind] <= StatusRank[r.kind]

(* One worker applies reports at a time.                                   *)
OneTeller == \A v, w \in DOMAIN teller : v = w

(* The provider's times agree with its statuses: a message that went       *)
(* further did not do so earlier, and it does not end in two ways at once. *)
TimesAgree ==
  \A q, r \in Notices :
    /\ (q.kind \in FinalStatuses /\ r.kind \in FinalStatuses /\ q.at = r.at) => q.kind = r.kind
    /\ (/\ q.kind \notin FinalStatuses /\ r.kind \notin FinalStatuses
        /\ StatusRank[q.kind] < StatusRank[r.kind]) => q.at <= r.at

(* Out-of-order reports converge: with one worker, once all reports have   *)
(* been processed the record shows the decisive one, in whatever order     *)
(* they came.                                                              *)
ShowsDecisive ==
  Notices # {} /\ Processed = Notices => account.status = Decisive(Notices).kind

(* A bounce, complaint or suppression that was processed always suppresses *)
(* the recipient, even when a later status had been taken over before.     *)
BounceSuppresses == (\E r \in Processed : r.kind \in Suppressing) => banned

(* Reports in any order end on the decisive one, with one worker and times *)
(* that agree, and a processed bounce suppresses the recipient, with any   *)
(* number of workers.                                                      *)
Converges == (OneTeller /\ TimesAgree => ShowsDecisive) /\ BounceSuppresses
=============================================================================
