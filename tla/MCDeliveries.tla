---------------------------- MODULE MCDeliveries ----------------------------
(***************************************************************************)
(* The communication pipelines for TLC: a revision of outreach under two   *)
(* workers, a received message and its events, the delivery reports of an  *)
(* e-mail, a text of the inbox with its reports, the photos of a received  *)
(* one, and a call of the external dialer.  They share nothing, so a       *)
(* behaviour is one of one pipeline (unit) while the others rest in their  *)
(* initial states.  The module extends the modules of all six, whose       *)
(* constants the configuration gives, so that they are checked on the very *)
(* definitions the proofs about them use.                                  *)
(***************************************************************************)
EXTENDS ConversationTexts, BatchDialerImport, OutreachDelivery,
        ResendEvents, ResendLifecycle, MmsMedia, TLC

CONSTANTS w1, w2, m1, a1, a2, email, text, note, s1, s2, c1, c2

VARIABLE unit

all == <<unit, outreachVars, mailVars, noticeVars, vars, mediaVars, callVars>>

(* The revision of the configuration has one text, three faults, and every *)
(* command except pause.                                                   *)

(* One message by e-mail and one by text, any five commands, one fault.    *)
Steered == INSTANCE OutreachDelivery WITH
  Emails <- {email}, Texts <- {note}, Refusals <- {"failed_retryable"},
  Blocks <- {"ineligible", "transient"}, MaxVersion <- 5, MaxFaults <- 1,
  Controls <- {"approve", "release", "pause", "resume", "cancel", "retry", "redraft"}

(* Leases outlast the workers' turns: no faults.                           *)
Orderly == INSTANCE OutreachDelivery WITH
  Emails <- {email}, Texts <- {note}, Refusals <- {"failed_retryable"},
  Blocks <- {"transient"}, MaxVersion <- 6, MaxFaults <- 0,
  Controls <- {"approve", "release", "pause", "resume", "cancel", "retry"}

(* The mailbox of the configuration has one message, its webhook's and its *)
(* recovery event, and a manager's review.                                 *)

(* The same with one worker and two managers who route it by hand at once. *)
Managed == INSTANCE ResendEvents WITH Readers <- {w1}, Admins <- {a1, a2}

R(kind, at) == [kind |-> kind, at |-> at]

(* A message to several recipients: reports of one recipient's bounce, of  *)
(* another's failure and of a third one's delivery.  Two workers apply     *)
(* them, or one.                                                           *)
MixedReports ==
  {R("sent", 1), R("delivery_delayed", 2), R("bounced", 3), R("failed", 4), R("delivered", 5)}

Alone == INSTANCE ResendLifecycle WITH Tellers <- {w1}

(* The text of the configuration has one key and two requests with it,     *)
(* three reports and two transactions that apply them, and three texts of  *)
(* the seller.                                                             *)
Keyword == [stop |-> "STOP", start |-> "START", hello |-> "none"]

(* Three photos that fit into the message, and three that do not.          *)
TwoMessages == {<<2, 1, 1>>, <<2, 1, 2>>}

(* The call of the configuration is unmapped or a lead and corrected       *)
(* twice; this one is a lead or none, and its worker dies or is overtaken. *)
Corrected == INSTANCE BatchDialerImport WITH
  Unmapped <- {}, Cold <- {"declined"}, MaxFetches <- 2, MaxChanges <- 1, MaxCallFaults <- 1

-----------------------------------------------------------------------------
DeliveriesInit ==
  /\ unit \in {"steered", "texting", "orderly", "mailbox", "managed", "alone",
               "overlapping", "inbox", "photos", "renamed", "corrected"}
  /\ IF unit = "steered" \/ unit = "orderly" THEN Steered!OutreachInit ELSE OutreachInit
  /\ IF unit = "managed" THEN Managed!MailInit ELSE MailInit
  /\ IF unit = "alone" THEN Alone!NoticeInit ELSE NoticeInit
  /\ Init
  /\ MediaInit /\ (unit = "photos" \/ size = <<2, 1, 1>>)
  /\ IF unit = "renamed" THEN CallInit ELSE Corrected!CallInit
  /\ unit \in {"renamed", "corrected"} \/ cdr = "qualified"

Rests(u, v) == IF unit \in u THEN TRUE ELSE UNCHANGED v

(* A step A of the unit u leaves the other units alone.                    *)
In(u, A) ==
  /\ unit = u /\ A /\ UNCHANGED unit
  /\ Rests({"texting", "steered", "orderly"}, outreachVars)
  /\ Rests({"mailbox", "managed"}, mailVars)
  /\ Rests({"alone", "overlapping"}, noticeVars) /\ Rests({"inbox"}, vars)
  /\ Rests({"photos"}, mediaVars) /\ Rests({"renamed", "corrected"}, callVars)

DeliveriesNext ==
  \/ In("texting", OutreachNext)
  \/ In("steered", Steered!OutreachNext) \/ In("orderly", Orderly!OutreachNext)
  \/ In("mailbox", MailNext) \/ In("managed", Managed!MailNext)
  \/ In("alone", Alone!NoticeNext) \/ In("overlapping", NoticeNext)
  \/ In("inbox", Next)
  \/ In("photos", MediaNext)
  \/ In("renamed", CallNext) \/ In("corrected", Corrected!CallNext)

DeliveriesSpec == DeliveriesInit /\ [][DeliveriesNext]_all

WorkerSymmetry ==
  Permutations(Workers) \cup Permutations({s1, s2}) \cup Permutations({c1, c2})

-----------------------------------------------------------------------------
(* Every row has its type. *)
RowsTyped ==
  /\ unit = "texting" => OutreachTypeOK
  /\ unit = "steered" => Steered!OutreachTypeOK
  /\ unit = "mailbox" => MailTyped
  /\ unit = "managed" => Managed!MailTyped
  /\ unit = "alone" => Alone!NoticesTyped
  /\ unit = "inbox" => TypeOK
  /\ unit = "photos" => MediaTyped
  /\ unit = "renamed" => CallTypeOK
  /\ unit = "corrected" => Corrected!CallTypeOK

(* What has ended stays ended, whatever a late worker does: after a        *)
(* cancellation no message leaves (OutreachDelivery), no finished event is *)
(* reopened, repeated or failed but by a second manager (ResendEvents), no *)
(* photo message is relabelled (MmsMedia), and a call a person has rejected*)
(* is left alone until its report changes (BatchDialerImport).             *)
EndedStaysEnded ==
  CancelIsFinal /\ Steered!CancelIsFinal /\ FinishedStays /\ MediaEnds
    /\ RejectedStays /\ Corrected!RejectedStays
=============================================================================
