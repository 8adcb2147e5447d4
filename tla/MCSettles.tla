------------------------------ MODULE MCSettles ------------------------------
(***************************************************************************)
(* What must eventually happen in the background: each pipeline under the  *)
(* fairness of the worker that drives it, and the worker's loop itself.    *)
(* They share nothing, so a behaviour is one of one of them (unit) while   *)
(* the others rest in their initial states.                                *)
(***************************************************************************)
EXTENDS Naturals, FiniteSets

CONSTANTS w1, w2, m1, a1, email, text, s1, c1, c2, None

VARIABLES
  unit,
  revision, version, delivery, courier, copies, faults,   \* OutreachDelivery
  letter, imported, reader, admin, cases,                 \* ResendEvents
  loop, failure, heartbeat,                               \* WorkerLoop
  dispatch, shown, sent, sender, status, clerk, stopped, heard,  \* ConversationTexts
  size, media, stored, keeper,                            \* MmsMedia
  cdr, call, route, desk, lease, dialer, said, budget     \* BatchDialerImport

outreach == <<revision, version, delivery, courier, copies, faults>>
mail == <<letter, imported, reader, admin, cases>>
lanes == <<loop, failure, heartbeat>>
texts == <<dispatch, shown, sent, sender, status, clerk, stopped, heard>>
photos == <<size, media, stored, keeper>>
calls == <<cdr, call, route, desk, lease, dialer, said, budget>>
all == <<unit, outreach, mail, lanes, texts, photos, calls>>

Workers == {w1, w2}

(* A released revision that nobody touches again, one fault.               *)
Released == INSTANCE OutreachDelivery WITH
  Emails <- {email}, Texts <- {text}, Refusals <- {"failed_retryable"}, Blocks <- {},
  MaxVersion <- 3, MaxFaults <- 1, Controls <- {"approve", "release"}, NoDelivery <- None,
  worker <- courier

(* One message whose webhook may never come, and no manager.               *)
Mailbox == INSTANCE ResendEvents WITH
  Readers <- Workers, Admins <- {a1}, Mails <- {m1}, EventAttempts <- 2, MaxReviews <- 0,
  NoEvent <- None

(* Two operations, backoff 1, 2, 2, ...                                    *)
Lane == INSTANCE WorkerLoop WITH
  Lanes <- 2, Errors <- {"e"}, RetryBase <- 1, RetryMax <- 2,
  StaleAfter <- 1, StallAfter <- 2, MaxRecorded <- 3

(* One text and two of its reports, two workers, and no texts of the       *)
(* seller.                                                                 *)
Inbox == INSTANCE ConversationTexts WITH
  Senders <- {s1}, Keys <- {"key"}, Reports <- {"sent", "delivered"}, Clerks <- {c1, c2},
  MaxAttempts <- 2, Heard <- {}, KeywordOf <- <<>>,
  record <- shown, report <- status, suppressed <- stopped

(* Two photos that fit into their message.                                 *)
Photos == INSTANCE MmsMedia WITH
  Keepers <- Workers, Received <- {<<1, 1>>}, MaxTotal <- 2, MediaAttempts <- 2,
  NoKeeper <- None

(* A call corrected once between a lead and none, one fault, and a manager *)
(* who may route its campaign.                                             *)
Dialed == INSTANCE BatchDialerImport WITH
  Importers <- Workers, Absent <- None, Pollers <- {w1},
  Warm <- {"qualified"}, Unmapped <- {}, Cold <- {"declined"},
  Transcripts <- {"text"}, Choices <- {"map"}, MaxRetries <- 1, MaxFetches <- 2,
  MaxChanges <- 1, MaxCallFaults <- 1,
  event <- call, mapped <- route, reviews <- desk, importer <- dialer

-----------------------------------------------------------------------------
Init ==
  /\ unit \in {"released", "mailbox", "lanes", "inbox", "photos", "dialed"}
  /\ Released!OutreachInit /\ Mailbox!MailInit /\ Lane!LoopInit /\ Inbox!Init
  /\ Photos!MediaInit
  /\ Dialed!CallInit
  /\ unit = "dialed" \/ cdr = "qualified"

Rests(u, v) == IF unit = u THEN TRUE ELSE UNCHANGED v

(* A step A of the unit u leaves the other units alone.                    *)
In(u, A) ==
  /\ unit = u /\ A /\ UNCHANGED unit
  /\ Rests("released", outreach) /\ Rests("mailbox", mail) /\ Rests("lanes", lanes)
  /\ Rests("inbox", texts) /\ Rests("photos", photos) /\ Rests("dialed", calls)

Next ==
  \/ In("released", Released!OutreachNext) \/ In("mailbox", Mailbox!MailNext)
  \/ In("lanes", Lane!LoopNext) \/ In("inbox", Inbox!Next) \/ In("photos", Photos!MediaNext) \/ In("dialed", Dialed!CallNext)

(* The fairness each module states, for the unit that is running.          *)
ReleasedIsWorked ==
  /\ \A w \in Workers : WF_all(In("released", Released!Turns(w)))
  /\ \A m \in {email, text} : WF_all(In("released", Released!ClaimExpires(m)))

MailboxIsWorked ==
  /\ \A w \in Workers : WF_all(In("mailbox", Mailbox!Reads(w)))
  /\ WF_all(In("mailbox", Mailbox!RecoverMail(m1)))
  /\ \A e \in Mailbox!Events : WF_all(In("mailbox", Mailbox!MailLeaseExpires(e)))

LoopGoesOn ==
  /\ WF_all(In("lanes", Lane!Steps /\ ~Lane!Raise))
  /\ WF_all(In("lanes", Lane!Tick))

ReportsAreWorked ==
  /\ \A c \in {c1, c2} : WF_all(In("inbox", Inbox!Recovers(c)))
  /\ \A e \in Inbox!Event : WF_all(In("inbox", Inbox!LeaseExpires(e)))

PhotosAreWorked ==
  /\ \A w \in Workers : WF_all(In("photos", Photos!Keeps(w)))
  /\ WF_all(In("photos", Photos!MediaLeaseExpires))

CallsAreWorked ==
  /\ WF_all(In("dialed", Dialed!PollLeaseExpires))
  /\ WF_all(In("dialed", \E w \in Workers : Dialed!ClaimAges(w)))
  /\ SF_all(In("dialed", Dialed!Fetch(w1)))
  /\ SF_all(In("dialed", Dialed!Archive(w1)))
  /\ SF_all(In("dialed", \E w \in Workers : Dialed!ClaimCall(w)))
  /\ WF_all(In("dialed", \E w \in Workers : Dialed!Judge(w)))

Spec ==
  /\ Init /\ [][Next]_all
  /\ ReleasedIsWorked /\ MailboxIsWorked /\ LoopGoesOn
  /\ ReportsAreWorked /\ PhotosAreWorked /\ CallsAreWorked

-----------------------------------------------------------------------------
(* A released message is decided or given up by the operator, whichever    *)
(* worker dies with it (OutreachDelivery).                                 *)
ReleasedSettles == Released!ReleasedSettles

(* A received message is imported or waits for a person, even if its       *)
(* webhook is lost (ResendEvents).                                         *)
EveryMailAccounted == unit = "mailbox" => Mailbox!EveryMailAccounted

(* A failing or busy operation keeps no other one from its turn, and a     *)
(* dead process, or one that hangs while its heartbeat thread goes on, is  *)
(* reported (WorkerLoop).                                                  *)
EveryLaneHasItsTurn ==
  /\ Lane!EveryLaneHasItsTurn
  /\ unit = "lanes" => Lane!SilenceIsReported

(* A report kept because its text was not on record yet is applied or      *)
(* given up (ConversationTexts); a received MMS is settled, whichever      *)
(* worker dies with it (MmsMedia); and what the dialer reports of a call   *)
(* is archived and settled (BatchDialerImport).                            *)
ImportsSettle ==
  /\ unit = "inbox" => Inbox!ReportsSettle
  /\ unit = "photos" => Photos!MediaSettles
  /\ unit = "dialed" => Dialed!CallsSettle
=============================================================================
