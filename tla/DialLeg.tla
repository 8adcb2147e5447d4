------------------------------ MODULE DialLeg ------------------------------
(***************************************************************************)
(* The vocabulary of one provider call leg and the pure rule that reduces  *)
(* provider evidence into it: DIAL_LEG_STATUSES and the sets and ranks     *)
(* derived from it, advance_dial_leg_provider_state, the Twilio status     *)
(* maps, the session state a leg implies, and the seller outcomes a        *)
(* terminal leg admits.  No state: the modules of the dialer extend it.    *)
(***************************************************************************)
EXTENDS Naturals

TerminalStatuses == {"cancelled", "no_answer", "busy", "failed", "completed"}

ActiveStatuses ==
  {"queued", "dialing", "ringing", "answered", "connected", "cancelling"}

LegStatuses == ActiveStatuses \cup TerminalStatuses

(* DIAL_LEG_PROGRESS_RANK. *)
Rank == [queued |-> 0, dialing |-> 1, ringing |-> 2,
         answered |-> 3, connected |-> 4, cancelling |-> 5]

(* DIAL_LEG_TERMINAL_REGRESSIONS: terminal evidence that is weaker than    *)
(* what the leg already shows.                                             *)
Regressions(target) ==
  CASE target = "cancelled" -> {"answered", "connected"}
    [] target \in {"no_answer", "busy"} -> {"answered", "connected", "cancelling"}
    [] OTHER -> {}

(* Faulty: late evidence reopens a finished leg. *)
AcceptsAfterTheEnd(status, target, older) ==
  /\ ~older
  /\ status \notin Regressions(target)
  /\ (target \in ActiveStatuses /\ status \in ActiveStatuses) => Rank[target] >= Rank[status]

(* advance_dial_leg_provider_state accepts the target: the evidence is not *)
(* older than the last one applied, the leg is open, and the target is     *)
(* neither a regression nor a step back in rank.                           *)
Accepts(status, target, older) ==
  /\ ~older
  /\ status \notin TerminalStatuses
  /\ status \notin Regressions(target)
  /\ target \in ActiveStatuses => Rank[target] >= Rank[status]

Advance(status, target, older) ==
  IF Accepts(status, target, older) THEN target ELSE status

(* TWILIO_TO_DIAL_LEG_STATUS, over the statuses Twilio reports. *)
TwilioStatuses ==
  {"initiated", "ringing", "in-progress", "completed", "busy", "failed",
   "no-answer", "canceled"}

FromTwilio == [x \in TwilioStatuses |->
  CASE x = "initiated"   -> "dialing"
    [] x = "in-progress" -> "connected"
    [] x = "no-answer"   -> "no_answer"
    [] x = "canceled"    -> "cancelled"
    [] OTHER             -> x]

(* callback_target_status: what a signed callback means for the leg; "none"*)
(* when it only concerns the staff side of the bridge.                     *)
CallbackTarget(status, reported, contact) ==
  IF status = "cancelling" /\ reported = "completed" THEN "cancelled"
  ELSE IF ~contact /\ reported \in {"ringing", "in-progress", "completed"}
       THEN "none"
       ELSE FromTwilio[reported]

(* reconcile_session_current_leg: the session state a leg status implies.  *)
StateShowing(status, old) ==
  CASE status = "queued" -> IF old = "paused" THEN "paused" ELSE "ready"
    [] status \in {"dialing", "cancelling"}   -> "dialing"
    [] status = "ringing"                     -> "ringing"
    [] status \in {"answered", "connected"}   -> "connected"
    [] status \in TerminalStatuses            -> "wrap_up"

LiveStates == {"ready", "dialing", "ringing", "connected", "wrap_up",
               "paused", "reconnecting"}

EndedStates == {"ended", "stopped", "failed", "expired"}

(* Seller outcomes, one representative per way the code treats them:       *)
(* "final" is not_interested or do_not_call, "callback" also follow_up,    *)
(* "warm" is interested or appointment_set.                                *)
Outcomes == {"no_answer", "left_voicemail", "wrong_number", "callback", "warm", "final"}

(* validate_native_seller_disposition: the outcomes a terminal leg admits. *)
OutcomesFor(status, reachedSeller) ==
  CASE status \in {"no_answer", "busy"} -> {"no_answer"}
    [] status = "completed" ->
         IF reachedSeller THEN Outcomes \ {"no_answer"} ELSE {"left_voicemail"}
    [] OTHER -> {}
=============================================================================
