-------------------------- MODULE DialCoordinator --------------------------
(***************************************************************************)
(* The native prospecting dialer coordinator: calling sessions, the        *)
(* records they reserve, the call each reservation makes, and every actor  *)
(* that can move them - the caller's browser, managers, the kill switch,   *)
(* the pilot rollback, Twilio, and the recovery worker.                    *)
(*                                                                         *)
(* Every action is one database transaction.  Transactions that change a   *)
(* session hold its row lock from the first read, so they are atomic here; *)
(* starting a session reads the switch before there is a row to lock and   *)
(* is split in two.  A rejected or rolled-back request changes nothing and *)
(* is no action.  The blockers that are not modelled (hours, caps, spend,  *)
(* profile, line, cohort, recipient) may refuse any request, so no action  *)
(* that a policy guards is ever forced to happen.                          *)
(***************************************************************************)
EXTENDS DialLeg, FiniteSets

CONSTANTS
  Callers,            \* prospecting callers
  Entries,            \* calling-list entries, each assigned to one caller
  Sessions,           \* dial sessions that may ever be created
  Attempts,           \* attempts that may ever be created
  CallerOf,           \* the caller a session belongs to
  OwnerOf,            \* the caller an entry is assigned to
  LineLimit,          \* the company's concurrent-leg limit
  MaxSellerAttempts,  \* the script's maximum_seller_attempts
  Modes,              \* connection modes in use: browser softphone, staff cellphone
  Said,               \* seller outcomes callers record
  Leavers,            \* callers whose browser may disappear for good
  None                \* the null reference

ASSUME CoordinatorAssumption ==
  /\ CallerOf \in [Sessions -> Callers]
  /\ OwnerOf \in [Entries -> Callers]
  /\ LineLimit \in Nat \ {0}
  /\ MaxSellerAttempts \in Nat \ {0}
  /\ Modes \subseteq {"browserPrepared", "cellPrepared"}
  /\ Said \subseteq Outcomes
  /\ Leavers \subseteq Callers
  /\ None \notin Sessions \cup Attempts \cup Entries
  /\ IsFiniteSet(Attempts)

VARIABLES
  session,   \* ProspectingDialSession rows
  attempt,   \* ProspectingAttempt rows, each joined with its dial leg
  entry,     \* ProspectCallingBatchEntry rows
  switchOn,  \* the company and campaign dialer switches
  starting,  \* callers whose start request has read the switch
  gone       \* callers whose browser will send nothing more

vars == <<session, attempt, entry, switchOn, starting, gone>>

-----------------------------------------------------------------------------
(* Rows. *)

CallStages == {"none", "browserPrepared", "cellPrepared", "dispatching", "placed"}

SessionRows ==
  [state  : LiveStates \cup EndedStates \cup {"unborn"},
   cur    : Attempts \cup {None},                 \* current_attempt_id
   lease  : {"live", "expired", "stale", "none"}, \* stale: ran out long ago
   pause  : BOOLEAN,                              \* pause_after_current
   stop   : BOOLEAN,                              \* stop_after_current
   orphan : {"unseen", "grace", "over"},          \* queued_orphan_first_seen_at
   orphanLeg : Attempts \cup {None}]              \* queued_orphan_leg_id

AttemptRows ==
  [status : {"free", "in_progress", "seller", "technical", "cancelled"},
   entry  : Entries \cup {None},
   by     : Sessions \cup {None},                 \* None for a manual attempt
   leg    : LegStatuses \cup {"none"},
   call   : CallStages,
   talked : BOOLEAN,                              \* connected_at is set
   undo   : LegStatuses \cup {"none"},            \* what a refused cancel restores
   snap   : [status : {"none", "queued", "needs_correction"},
             due : BOOLEAN, count : Nat]]         \* reservation_snapshot

EntryRows ==
  [status : {"queued", "needs_correction", "in_progress", "handoff_pending", "completed"},
   due : BOOLEAN,                                 \* next_attempt_at is unset or past
   converted : BOOLEAN,                           \* the prospect has a lead
   count : Nat]                                   \* attempt_count

BlankSession ==
  [state |-> "unborn", cur |-> None, lease |-> "none",
   pause |-> FALSE, stop |-> FALSE, orphan |-> "unseen", orphanLeg |-> None]

BlankAttempt ==
  [status |-> "free", entry |-> None, by |-> None, leg |-> "none", call |-> "none",
   talked |-> FALSE, undo |-> "none",
   snap |-> [status |-> "none", due |-> FALSE, count |-> 0]]

Init ==
  /\ session = [s \in Sessions |-> BlankSession]
  /\ attempt = [a \in Attempts |-> BlankAttempt]
  /\ entry = [e \in Entries |->
       [status |-> "queued", due |-> TRUE, converted |-> FALSE, count |-> 0]]
  /\ switchOn = TRUE
  /\ starting = {}
  /\ gone = {}

-----------------------------------------------------------------------------
(* What the code asks of the rows. *)

Live(s) == session[s].state \in LiveStates

(* locked_control_session and validate_session_lease: the assigned caller, *)
(* with the token of a lease that has not run out.                         *)
HoldsLease(s) == Live(s) /\ session[s].lease = "live" /\ CallerOf[s] \notin gone

Open(A) == {a \in Attempts : A[a].leg \in ActiveStatuses}

(* Faulty: a leg is taken for untouched while its call is being dispatched. *)
UntouchedByStatus(a) == attempt[a].leg = "queued"

Untouched(a) == attempt[a].leg = "queued" /\ attempt[a].call = "none"

(* A session with nothing the provider may have seen. *)
Idle(s) == session[s].cur = None \/ Untouched(session[s].cur)

(* Faulty: attempts opened by hand do not count. *)
CallerBusyDialing(c, A) ==
  \E a \in Attempts :
    A[a].status = "in_progress" /\ A[a].by # None /\ OwnerOf[A[a].entry] = c

CallerBusy(c, A) ==
  \E a \in Attempts : A[a].status = "in_progress" /\ OwnerOf[A[a].entry] = c

(* runtime_policy_blockers counts the open legs, under the organization's  *)
(* row lock (serialize_reservation_capacity).                              *)
OverfullLine(A) == Cardinality(Open(A)) <= LineLimit   \* faulty: off by one

LineFree(A) == Cardinality(Open(A)) < LineLimit

SellerAttempts(e, A) ==
  Cardinality({a \in Attempts : A[a].status = "seller" /\ A[a].entry = e})

(* candidate_entry_statement. *)
Candidates(c, A, E) ==
  {e \in Entries :
     /\ OwnerOf[e] = c
     /\ \/ E[e].status = "needs_correction"
        \/ E[e].status = "queued" /\ E[e].due /\ ~E[e].converted
     /\ \A a \in Attempts : A[a].entry = e =>
          A[a].status # "in_progress" /\ A[a].leg \notin ActiveStatuses}

-----------------------------------------------------------------------------
(* Row updates several transactions share. *)

Renewed(r) == [r EXCEPT !.lease = "live"]

Readied(r) == [r EXCEPT !.state = "ready", !.pause = FALSE]

(* terminate_session.  Nothing reads the flags of an ended session again.  *)
Ended(how) == [BlankSession EXCEPT !.state = how]

(* reconcile_session_current_leg. *)
Reconciled(r, A) ==
  IF r.cur = None
  THEN [r EXCEPT !.state = IF r.state \in {"paused", "reconnecting"} THEN r.state ELSE "ready"]
  ELSE [r EXCEPT !.state = StateShowing(A[r.cur].leg, r.state)]

(* release_unstarted_reservation, for a set R of reservations: the attempt *)
(* and its leg are cancelled and the entry is restored from the snapshot.  *)
Cancelled(r) == [r EXCEPT !.status = "cancelled", !.leg = "cancelled"]

Released(R) ==
  [a \in Attempts |-> IF a \in R THEN Cancelled(attempt[a]) ELSE attempt[a]]

PutBack(row, snap) ==
  [row EXCEPT !.status = snap.status, !.due = snap.due, !.count = snap.count]

Restored(R) ==
  [e \in Entries |->
     IF \E a \in R : attempt[a].entry = e
     THEN PutBack(entry[e], attempt[CHOOSE a \in R : attempt[a].entry = e].snap)
     ELSE entry[e]]

Release(R) == attempt' = Released(R) /\ entry' = Restored(R)

Held(S) == {session[s].cur : s \in S} \ {None}

(* Sessions S stop: an idle one gives its record back and ends, one whose  *)
(* call the provider may know is told to stop after the current call.      *)
StopOrDrain(S, how) ==
  LET idle == {s \in S : Idle(s)}
  IN  /\ Release(Held(idle))
      /\ session' = [s \in Sessions |->
           IF s \in idle THEN Ended(how)
           ELSE IF s \in S THEN [session[s] EXCEPT !.stop = TRUE]
           ELSE session[s]]

(* reservation_snapshot. *)
NoSnapshot(row) == BlankAttempt.snap   \* faulty: nothing to restore

Snapshot(row) == [status |-> row.status, due |-> row.due, count |-> row.count]

(* build_reserved_attempt. *)
Reserved(s, e, row) ==
  [BlankAttempt EXCEPT !.status = "in_progress", !.entry = e, !.by = s,
                       !.leg = "queued", !.snap = Snapshot(row)]

Carrying(r, a) == [r EXCEPT !.cur = a, !.state = "ready"]

(* reserve_next_locked, on the rows the transaction has built so far: one  *)
(* candidate is reserved, or all are skipped and the session ends.  The    *)
(* order of the candidates and the skips for want of a callable phone or   *)
(* an authorized recipient are abstracted, so any candidate may be first   *)
(* and none may be left.  A caller whose active attempt is elsewhere fails *)
(* the unique index on every candidate.                                    *)
ReserveOne(s, r, A, E) ==
  /\ LineFree(A)
  /\ ~CallerBusy(CallerOf[s], A)
  /\ \E a \in Attempts, e \in Candidates(CallerOf[s], A, E) :
       /\ A[a].status = "free"
       /\ session' = [session EXCEPT ![s] = Carrying(r, a)]
       /\ attempt' = [A EXCEPT ![a] = Reserved(s, e, E[e])]
       /\ entry' = [E EXCEPT ![e].status = "in_progress"]

QueueExhausted(s, A, E) ==
  /\ LineFree(A)
  /\ session' = [session EXCEPT ![s] = Ended("ended")]
  /\ attempt' = A
  /\ entry' = E

ReserveNext(s, r, A, E) == ReserveOne(s, r, A, E) \/ QueueExhausted(s, A, E)

OnlySession(s, r) ==
  /\ session' = [session EXCEPT ![s] = r]
  /\ UNCHANGED <<attempt, entry>>

-----------------------------------------------------------------------------
(* The caller's requests. *)

(* start_dial_session reads the organization's switch with no lock held... *)
StartRead(c) ==
  /\ switchOn /\ c \notin gone \cup starting
  /\ \A s \in Sessions : CallerOf[s] = c => ~Live(s)
  /\ starting' = starting \cup {c}
  /\ UNCHANGED <<session, attempt, entry, switchOn, gone>>

(* ...and inserts the session and its first reservation on that reading.   *)
StartCommit(s) ==
  /\ session[s].state = "unborn" /\ CallerOf[s] \in starting
  /\ \A t \in Sessions : CallerOf[t] = CallerOf[s] => ~Live(t)
  /\ ReserveNext(s, Renewed(Readied(BlankSession)), attempt, entry)
  /\ starting' = starting \ {CallerOf[s]}
  /\ UNCHANGED <<switchOn, gone>>

StartRefused(c) ==
  /\ c \in starting
  /\ starting' = starting \ {c}
  /\ UNCHANGED <<session, attempt, entry, switchOn, gone>>

Heartbeat(s) ==
  /\ HoldsLease(s) /\ switchOn
  /\ OnlySession(s, Renewed(Reconciled(session[s], attempt)))
  /\ UNCHANGED <<switchOn, starting, gone>>

(* heartbeat_dial_session with apply_runtime_kill_if_needed: the switch or *)
(* another hard stop is found, so it may happen with the switch on.        *)
HeartbeatKill(s) ==
  /\ HoldsLease(s)
  /\ IF Idle(s) THEN StopOrDrain({s}, "stopped")
     ELSE OnlySession(s, Renewed([Reconciled(session[s], attempt) EXCEPT !.stop = TRUE]))
  /\ UNCHANGED <<switchOn, starting, gone>>

Pause(s) ==
  LET r == session[s] IN
  /\ HoldsLease(s)
  /\ IF \/ r.state = "wrap_up"
        \/ r.cur # None /\ attempt[r.cur].leg \notin {"queued"} \cup TerminalStatuses
     THEN OnlySession(s, Renewed([r EXCEPT !.pause = TRUE]))
     ELSE OnlySession(s, Renewed([r EXCEPT !.state = "paused"]))
  /\ UNCHANGED <<switchOn, starting, gone>>

Resume(s) ==
  LET r == Renewed(Readied(session[s])) IN
  /\ HoldsLease(s) /\ switchOn
  /\ session[s].state \in {"paused", "reconnecting"}
  /\ IF r.cur # None THEN OnlySession(s, Reconciled(r, attempt))
     ELSE ReserveNext(s, r, attempt, entry)
  /\ UNCHANGED <<switchOn, starting, gone>>

End(s) ==
  /\ HoldsLease(s)
  /\ IF Idle(s) THEN StopOrDrain({s}, "ended")
     ELSE OnlySession(s, Renewed([session[s] EXCEPT !.stop = TRUE]))
  /\ UNCHANGED <<switchOn, starting, gone>>

(* recover_dial_session.  When the queue turns out empty the session ends  *)
(* and loses the token the recovery receipt is built from, the request     *)
(* fails and everything rolls back: only a found record commits.           *)
Recover(s) ==
  LET r == Renewed(Reconciled(session[s], attempt)) IN
  /\ Live(s) /\ session[s].lease \in {"expired", "stale"} /\ CallerOf[s] \notin gone
  /\ IF r.cur # None \/ session[s].state = "paused" THEN OnlySession(s, r)
     ELSE switchOn /\ ReserveOne(s, r, attempt, entry)
  /\ UNCHANGED <<switchOn, starting, gone>>

(* reserve_next_dial_record. *)
ReserveRequest(s) ==
  /\ HoldsLease(s) /\ switchOn
  /\ session[s].state \notin {"paused", "reconnecting"} /\ session[s].cur = None
  /\ ReserveNext(s, Renewed(session[s]), attempt, entry)
  /\ UNCHANGED <<switchOn, starting, gone>>

-----------------------------------------------------------------------------
(* Dispositions. *)

(* The entry after a seller outcome, n seller attempts included.           *)
Disposed(e, out, n, fallback) ==
  LET left == CASE out \in {"no_answer", "left_voicemail"} /\ n < MaxSellerAttempts
                     -> [status |-> "queued", due |-> FALSE]
                [] out = "callback" -> [status |-> "queued", due |-> FALSE]
                [] out = "warm" -> [status |-> "handoff_pending", due |-> TRUE]
                [] out = "wrong_number" /\ fallback -> [status |-> "queued", due |-> TRUE]
                [] OTHER -> [status |-> "completed", due |-> TRUE]
  IN  [status |-> left.status, due |-> left.due,
       converted |-> entry[e].converted \/ out = "warm", count |-> entry[e].count + 1]

Closed(a, how) == [attempt EXCEPT ![a].status = how]

(* Faulty: a technical failure is counted as a seller attempt. *)
CountedFailure(a) ==
  [entry EXCEPT ![attempt[a].entry] =
     [@ EXCEPT !.status = "queued", !.due = FALSE, !.count = @ + 1]]

AfterFailure(a) ==
  [entry EXCEPT ![attempt[a].entry] = [@ EXCEPT !.status = "queued", !.due = FALSE]]

AfterOutcome(a, out, fallback) ==
  LET e == attempt[a].entry
  IN  [entry EXCEPT ![e] =
         Disposed(e, out, SellerAttempts(e, attempt) + 1, fallback)]

(* The session leaves its record. *)
Detached(r) == [r EXCEPT !.cur = None, !.pause = FALSE, !.stop = FALSE]

(* Faulty: the wrap-up forgets that a pause was asked for. *)
WrapUpIgnoringPause(s, A, E) ==
  LET r == Renewed(Detached(session[s]))
      settle(x) == session' = [session EXCEPT ![s] = x] /\ attempt' = A /\ entry' = E
  IN  IF session[s].stop THEN settle(Ended("stopped"))
      ELSE \/ settle([r EXCEPT !.state = "paused"])
           \/ switchOn /\ ReserveNext(s, r, A, E)

(* complete_native_wrap_up: the session leaves the record and stops, pauses*)
(* or reserves the next one in the same transaction; a blocked reservation *)
(* leaves it paused.                                                       *)
WrapUp(s, A, E) ==
  LET r == Renewed(Detached(session[s]))
      settle(x) == session' = [session EXCEPT ![s] = x] /\ attempt' = A /\ entry' = E
  IN  IF session[s].stop THEN settle(Ended("stopped"))
      ELSE \/ settle([r EXCEPT !.state = "paused"])
           \/ ~session[s].pause /\ switchOn /\ ReserveNext(s, r, A, E)

AtWrapUp(s, a) ==
  /\ HoldsLease(s) /\ session[s].cur = a /\ a # None
  /\ attempt[a].status = "in_progress" /\ attempt[a].leg \in TerminalStatuses

(* complete_attempt for a native attempt. *)
CompleteSeller(s, a, out, fallback) ==
  /\ AtWrapUp(s, a)
  /\ out \in OutcomesFor(attempt[a].leg, attempt[a].talked)
  /\ WrapUp(s, Closed(a, "seller"), AfterOutcome(a, out, fallback))
  /\ UNCHANGED <<switchOn, starting, gone>>

(* complete_technical_failure: no seller attempt is consumed. *)
CompleteTechnical(s, a) ==
  /\ AtWrapUp(s, a)
  /\ attempt[a].leg \in {"failed", "cancelled"}
  /\ WrapUp(s, Closed(a, "technical"), AfterFailure(a))
  /\ UNCHANGED <<switchOn, starting, gone>>

OpenedByHand(e) == [BlankAttempt EXCEPT !.status = "in_progress", !.entry = e]

(* start_attempt: a caller opens a record by hand. *)
StartManual(e, a) ==
  /\ OwnerOf[e] \notin gone
  /\ attempt[a].status = "free" /\ ~CallerBusy(OwnerOf[e], attempt)
  /\ entry[e].status \in {"queued", "needs_correction"} /\ entry[e].due
  /\ \A b \in Attempts : attempt[b].entry = e => attempt[b].status # "in_progress"
  /\ attempt' = [attempt EXCEPT ![a] = OpenedByHand(e)]
  /\ entry' = [entry EXCEPT ![e].status = "in_progress"]
  /\ UNCHANGED <<session, switchOn, starting, gone>>

(* complete_attempt for an attempt without a dial leg. *)
CompleteManual(a, out, fallback) ==
  /\ attempt[a].status = "in_progress" /\ attempt[a].by = None
  /\ OwnerOf[attempt[a].entry] \notin gone
  /\ attempt' = Closed(a, "seller")
  /\ entry' = AfterOutcome(a, out, fallback)
  /\ UNCHANGED <<session, switchOn, starting, gone>>

(* decide_handoff: accepted or rejected closes the entry. *)
DecideHandoff(e, decision) ==
  /\ entry[e].status = "handoff_pending"
  /\ entry' = [entry EXCEPT ![e].status = decision]
  /\ UNCHANGED <<session, attempt, switchOn, starting, gone>>

-----------------------------------------------------------------------------
(* Managers and launch controls. *)

(* update_company_dialer_switch, update_campaign_dialer_switch. *)
SwitchOn ==
  /\ ~switchOn /\ switchOn' = TRUE
  /\ UNCHANGED <<session, attempt, entry, starting, gone>>

SwitchOff ==
  /\ switchOn' = FALSE
  /\ StopOrDrain({s \in Sessions : Live(s)}, "stopped")
  /\ UNCHANGED <<starting, gone>>

(* _disable_pilot_scope, for the pilot that authorizes caller c: prepared  *)
(* browser calls are abandoned too, sessions with a call under way drain   *)
(* (or refuse the rollback), and every other session is stopped where it   *)
(* stands - one in wrap-up without its disposition.                        *)
PilotRollback(c, drain) ==
  LET scope   == {s \in Sessions : CallerOf[s] = c /\ Live(s)}
      open    == {s \in scope : session[s].cur \in Open(attempt)}
      unsafe  == {s \in open : ~ /\ attempt[session[s].cur].leg = "queued"
                                 /\ attempt[session[s].cur].call \in {"none", "browserPrepared"}}
  IN  /\ drain \/ unsafe = {}
      /\ switchOn' = FALSE
      /\ Release(Held(open \ unsafe))
      /\ session' = [s \in Sessions |->
           IF s \in unsafe THEN [session[s] EXCEPT !.stop = TRUE]
           ELSE IF s \in scope THEN Ended("stopped")
           ELSE session[s]]
      /\ UNCHANGED <<starting, gone>>

(* manager_stop_dial_session, safe drain. *)
ManagerStop(s) ==
  /\ Live(s)
  /\ StopOrDrain({s}, "stopped")
  /\ UNCHANGED <<switchOn, starting, gone>>

(* A cancel is under way on attempt a: its leg shows cancelling, and the   *)
(* request in flight remembers what to restore.                            *)
BeingCancelled(r) ==
  [r EXCEPT !.leg = "cancelling", !.undo = IF r.leg = "cancelling" THEN r.undo ELSE r.leg]

Cancelling(a) == [attempt EXCEPT ![a] = BeingCancelled(@)]

(* manager_stop_dial_session, cancel_unanswered, up to the provider call.  *)
ManagerCancel(s, a) ==
  /\ Live(s) /\ session[s].cur = a /\ a # None
  /\ attempt[a].call = "placed" /\ attempt[a].leg \in {"dialing", "ringing", "cancelling"}
  /\ attempt' = Cancelling(a)
  /\ session' = [session EXCEPT ![s].stop = TRUE]
  /\ UNCHANGED <<entry, switchOn, starting, gone>>

(* manager_recover_dial_session, release_orphan. *)
ManagerRelease(s) ==
  /\ session[s].cur # None /\ Untouched(session[s].cur)
  /\ StopOrDrain({s}, "failed")
  /\ UNCHANGED <<switchOn, starting, gone>>

(* Faulty: the leg is not looked at either. *)
MarkFailedUnchecked(s) ==
  /\ session[s].state # "unborn"
  /\ OnlySession(s, Ended("failed"))
  /\ UNCHANGED <<switchOn, starting, gone>>

(* manager_recover_dial_session, mark_failed: neither the session's state  *)
(* nor the attempt waiting for its disposition is looked at.               *)
ManagerMarkFailed(s) ==
  /\ session[s].state # "unborn"
  /\ session[s].cur # None => attempt[session[s].cur].leg \in TerminalStatuses
  /\ OnlySession(s, Ended("failed"))
  /\ UNCHANGED <<switchOn, starting, gone>>

-----------------------------------------------------------------------------
(* The call of a reservation. *)

(* reconcile_dial_session_from_leg, after the rows A are written. *)
Mirror(a, A) ==
  LET s == A[a].by
  IN  session' = IF s # None /\ Live(s) /\ session[s].cur = a
                 THEN [session EXCEPT ![s] = Reconciled(session[s], A)]
                 ELSE session

(* The leg moves to a status the reducer accepted. *)
Showing(r, status) ==
  [r EXCEPT !.leg = status, !.talked = r.talked \/ status = "connected",
            !.undo = IF status \in TerminalStatuses THEN "none" ELSE r.undo]

Placed(r, status) == [Showing(r, status) EXCEPT !.call = "placed"]

Moved(a, status) == [attempt EXCEPT ![a] = Showing(@, status)]

(* validate_graph_for_start and validate_reserved_dial_leg_policy. *)
MayCall(s, a) ==
  /\ a # None /\ session[s].cur = a /\ session[s].state = "ready" /\ session[s].lease = "live"
  /\ attempt[a].leg = "queued" /\ switchOn
  /\ ~entry[attempt[a].entry].converted

(* prepare_browser_prospecting_voice_call, and start_prospecting_voice_call*)
(* up to its first commit.                                                 *)
PrepareCall(s, a, mode) ==
  /\ HoldsLease(s) /\ MayCall(s, a) /\ attempt[a].call = "none"
  /\ attempt' = [attempt EXCEPT ![a].call = mode]
  /\ UNCHANGED <<session, entry, switchOn, starting, gone>>

(* dispatch_prepared_voice_call up to the marker commit. *)
Dispatch(s, a) ==
  /\ HoldsLease(s) /\ MayCall(s, a) /\ attempt[a].call = "cellPrepared"
  /\ attempt' = [attempt EXCEPT ![a].call = "dispatching"]
  /\ UNCHANGED <<session, entry, switchOn, starting, gone>>

(* The provider has the call: the rest of dispatch_prepared_voice_call, or *)
(* process_browser_prospecting_outbound_request.                           *)
Place(s, a) ==
  /\ MayCall(s, a) /\ attempt[a].call \in {"browserPrepared", "dispatching"}
  /\ attempt' = [attempt EXCEPT ![a] = Placed(@, "dialing")]
  /\ Mirror(a, attempt')
  /\ UNCHANGED <<entry, switchOn, starting, gone>>

(* The process died after the provider accepted the call: its first root   *)
(* callback binds it.  "ringing" says nothing of the seller's leg.         *)
LateRootCallback(a, reported) ==
  /\ attempt[a].call = "dispatching" /\ attempt[a].leg = "queued"
  /\ LET target == CallbackTarget("queued", reported, FALSE)
     IN  attempt' = [attempt EXCEPT ![a] =
                       Placed(@, IF target = "none" THEN "queued" ELSE target)]
  /\ IF attempt'[a].leg = "queued" THEN UNCHANGED session ELSE Mirror(a, attempt')
  /\ UNCHANGED <<entry, switchOn, starting, gone>>

(* mark_start_failure: configuration, a stopped or refused dispatch, an    *)
(* expired browser intent, an unconfirmed start.                           *)
StartFails(a) ==
  /\ attempt[a].leg = "queued"
  /\ attempt[a].call \in {"browserPrepared", "cellPrepared", "dispatching"}
  /\ attempt[a].call = "dispatching" \/ session[attempt[a].by].lease = "live"
  /\ attempt' = Moved(a, "failed")
  /\ Mirror(a, attempt')
  /\ UNCHANGED <<entry, switchOn, starting, gone>>

(* Faulty: the session keeps the abandoned attempt. *)
AbandonKeepingCurrent(s, a) ==
  /\ session[s].cur = a /\ a # None /\ CallerOf[s] \notin gone
  /\ attempt[a].call = "browserPrepared" /\ attempt[a].leg = "queued"
  /\ Release({a})
  /\ UNCHANGED <<session, switchOn, starting, gone>>

(* abandon_untouched_browser_call: cancelled by the caller, or found       *)
(* expired when the caller's browser asks for its state.                   *)
Abandon(s, a) ==
  /\ session[s].cur = a /\ a # None /\ CallerOf[s] \notin gone
  /\ attempt[a].call = "browserPrepared" /\ attempt[a].leg = "queued"
  /\ Release({a})
  /\ session' = [session EXCEPT ![s] = Reconciled([@ EXCEPT !.cur = None], attempt)]
  /\ UNCHANGED <<switchOn, starting, gone>>

(* Faulty: the session is not reconciled with its leg. *)
UnmirroredEvent(a, target) ==
  /\ attempt[a].call = "placed" /\ Accepts(attempt[a].leg, target, FALSE)
  /\ attempt' = Moved(a, target)
  /\ UNCHANGED <<session, entry, switchOn, starting, gone>>

(* Evidence from a signed callback, a fetch or a manager's reconciliation, *)
(* applied by record_dial_provider_event or reconcile_provider_result.     *)
(* Evidence that is ignored changes nothing.                               *)
ProviderEvent(a, target) ==
  /\ attempt[a].call = "placed" /\ Accepts(attempt[a].leg, target, FALSE)
  /\ attempt' = Moved(a, target)
  /\ Mirror(a, attempt')
  /\ UNCHANGED <<entry, switchOn, starting, gone>>

(* control_prospecting_voice_call, cancel, up to the provider call. *)
Cancel(s, a) ==
  /\ HoldsLease(s) /\ session[s].cur = a /\ a # None
  /\ attempt[a].call = "placed"
  /\ attempt[a].leg \in ActiveStatuses \ {"answered", "connected"}
  /\ attempt' = Cancelling(a)
  /\ Mirror(a, attempt')
  /\ UNCHANGED <<entry, switchOn, starting, gone>>

CancelUndone(r) ==
  [r EXCEPT !.undo = "none", !.leg = IF r.leg = "cancelling" THEN r.undo ELSE r.leg]

(* The provider refuses the cancel and the request puts the old status     *)
(* back; only the caller's own request reconciles the session.             *)
CancelRefused(a, mirror) ==
  /\ attempt[a].undo # "none"
  /\ attempt' = [attempt EXCEPT ![a] = CancelUndone(@)]
  /\ IF mirror /\ attempt[a].leg = "cancelling" THEN Mirror(a, attempt')
     ELSE UNCHANGED session
  /\ UNCHANGED <<entry, switchOn, starting, gone>>

(* The process dies before the provider's answer. *)
CancelForgotten(a) ==
  /\ attempt[a].undo # "none"
  /\ attempt' = [attempt EXCEPT ![a].undo = "none"]
  /\ UNCHANGED <<session, entry, switchOn, starting, gone>>

-----------------------------------------------------------------------------
(* The recovery worker: process_next_prospecting_dialer_recovery.          *)

(* Eligible: the lease ran out and heartbeat_at is older than the stale    *)
(* threshold.                                                              *)
Stale(s) == Live(s) /\ session[s].lease = "stale"

(* The pass refreshes heartbeat_at and leaves the lease expired. *)
Seen(r, state) == [r EXCEPT !.state = state, !.lease = "expired"]

WorkerExpiresIdle(s) ==
  /\ Stale(s) /\ session[s].cur = None
  /\ OnlySession(s, Ended("expired"))
  /\ UNCHANGED <<switchOn, starting, gone>>

WorkerKeepsWrapUp(s, a) ==
  /\ Stale(s) /\ session[s].cur = a /\ a # None /\ attempt[a].leg \in TerminalStatuses
  /\ OnlySession(s, Seen(session[s], "wrap_up"))
  /\ UNCHANGED <<switchOn, starting, gone>>

(* The provider has the call, or may still confirm it. *)
WorkerPreserves(s, a) ==
  /\ Stale(s) /\ session[s].cur = a /\ a # None
  /\ attempt[a].leg \in ActiveStatuses /\ attempt[a].call \in {"placed", "dispatching"}
  /\ OnlySession(s, Seen(session[s], "reconnecting"))
  /\ UNCHANGED <<switchOn, starting, gone>>

(* _reconcile_stale_preprovider_start: the start was prepared only, or its *)
(* confirmation window has passed.                                         *)
WorkerFailsStart(s, a) ==
  /\ Stale(s) /\ session[s].cur = a /\ a # None
  /\ attempt[a].leg \in ActiveStatuses
  /\ attempt[a].call \in {"browserPrepared", "cellPrepared", "dispatching"}
  /\ attempt' = Moved(a, "failed")
  /\ session' = [session EXCEPT ![s] = Seen(session[s], "wrap_up")]
  /\ UNCHANGED <<entry, switchOn, starting, gone>>

InGrace(r, a) ==
  [r EXCEPT !.state = "reconnecting", !.lease = "live", !.orphan = "grace",
            !.orphanLeg = IF r.orphan = "unseen" THEN a ELSE r.orphanLeg]

(* Faulty: every pass opens the grace period anew. *)
GraceOpenedAgain(s, a) ==
  /\ Stale(s) /\ session[s].cur = a /\ a # None /\ Untouched(a)
  /\ OnlySession(s, InGrace([session[s] EXCEPT !.orphan = "unseen"], a))
  /\ UNCHANGED <<switchOn, starting, gone>>

(* A reservation no call was prepared for is kept for a grace period...    *)
WorkerOpensGrace(s, a) ==
  /\ Stale(s) /\ session[s].cur = a /\ a # None /\ Untouched(a)
  /\ session[s].orphan \in {"unseen", "grace"}
  /\ OnlySession(s, InGrace(session[s], a))
  /\ UNCHANGED <<switchOn, starting, gone>>

(* ...measured from the first orphan this session ever had. *)
WorkerReleases(s, a) ==
  /\ Stale(s) /\ session[s].cur = a /\ a # None /\ Untouched(a)
  /\ session[s].orphan = "over"
  /\ StopOrDrain({s}, "expired")
  /\ UNCHANGED <<switchOn, starting, gone>>

WorkerPass(s) ==
  \/ WorkerExpiresIdle(s)
  \/ \E a \in Attempts :
       WorkerKeepsWrapUp(s, a) \/ WorkerPreserves(s, a) \/ WorkerFailsStart(s, a)
         \/ WorkerOpensGrace(s, a) \/ WorkerReleases(s, a)

-----------------------------------------------------------------------------
(* Time and people. *)

LeaseExpires(s) ==
  /\ session[s].lease = "live"
  /\ session' = [session EXCEPT ![s].lease = "expired"]
  /\ UNCHANGED <<attempt, entry, switchOn, starting, gone>>

HeartbeatAges(s) ==
  /\ session[s].lease = "expired"
  /\ session' = [session EXCEPT ![s].lease = "stale"]
  /\ UNCHANGED <<attempt, entry, switchOn, starting, gone>>

GraceElapses(s) ==
  /\ session[s].orphan = "grace"
  /\ session' = [session EXCEPT ![s].orphan = "over"]
  /\ UNCHANGED <<attempt, entry, switchOn, starting, gone>>

EntryFallsDue(e) ==
  /\ entry[e].status = "queued" /\ ~entry[e].due
  /\ entry' = [entry EXCEPT ![e].due = TRUE]
  /\ UNCHANGED <<session, attempt, switchOn, starting, gone>>

CallerLeaves(c) ==
  /\ c \in Leavers \ gone
  /\ gone' = gone \cup {c}
  /\ UNCHANGED <<session, attempt, entry, switchOn, starting>>

-----------------------------------------------------------------------------
SessionStep(s) ==
  \/ StartCommit(s) \/ Heartbeat(s) \/ HeartbeatKill(s) \/ Pause(s) \/ Resume(s)
  \/ End(s) \/ Recover(s) \/ ReserveRequest(s)
  \/ ManagerStop(s) \/ ManagerRelease(s) \/ ManagerMarkFailed(s)
  \/ WorkerPass(s) \/ LeaseExpires(s) \/ HeartbeatAges(s) \/ GraceElapses(s)

CallStep(s, a) ==
  \/ \E mode \in Modes : PrepareCall(s, a, mode)
  \/ Dispatch(s, a) \/ Place(s, a) \/ Abandon(s, a) \/ Cancel(s, a) \/ ManagerCancel(s, a)
  \/ \E out \in Said, fallback \in BOOLEAN : CompleteSeller(s, a, out, fallback)
  \/ CompleteTechnical(s, a)

AttemptStep(a) ==
  \/ StartFails(a) \/ CancelForgotten(a)
  \/ \E mirror \in BOOLEAN : CancelRefused(a, mirror)
  \/ \E reported \in {"initiated", "ringing"} : LateRootCallback(a, reported)
  \/ \E x \in TwilioStatuses : ProviderEvent(a, FromTwilio[x])
  \/ \E out \in Said, fallback \in BOOLEAN : CompleteManual(a, out, fallback)

EntryStep(e) ==
  \/ \E a \in Attempts : StartManual(e, a)
  \/ \E d \in {"completed", "needs_correction"} : DecideHandoff(e, d)
  \/ EntryFallsDue(e)

CallerStep(c) ==
  \/ StartRead(c) \/ StartRefused(c) \/ CallerLeaves(c)
  \/ \E drain \in BOOLEAN : PilotRollback(c, drain)

Next ==
  \/ \E s \in Sessions : SessionStep(s)
  \/ \E s \in Sessions, a \in Attempts : CallStep(s, a)
  \/ \E a \in Attempts : AttemptStep(a)
  \/ \E e \in Entries : EntryStep(e)
  \/ \E c \in Callers : CallerStep(c)
  \/ SwitchOn \/ SwitchOff

Spec == Init /\ [][Next]_vars

-----------------------------------------------------------------------------
(* What the coordinator promises. *)

(* Every row keeps its type: the check constraints and foreign keys of the *)
(* dialer's tables.                                                        *)
TypeOK ==
  /\ session \in [Sessions -> SessionRows]
  /\ attempt \in [Attempts -> AttemptRows]
  /\ entry \in [Entries -> EntryRows]
  /\ switchOn \in BOOLEAN
  /\ starting \subseteq Callers
  /\ gone \subseteq Leavers

(* No orphan call: whatever sequence of kills, recoveries and answers a    *)
(* session goes through, a leg that is open belongs to the attempt a live  *)
(* session is working on.  An open leg nobody holds would block its        *)
(* prospect and the company's line for ever, since only its session's      *)
(* recovery closes it.                                                     *)
OpenLegHeld ==
  \A a \in Open(attempt) :
    /\ attempt[a].status = "in_progress"
    /\ attempt[a].by \in Sessions
    /\ Live(attempt[a].by) /\ session[attempt[a].by].cur = a

(* The record a session works on is really its own and still undecided, so *)
(* no disposition is ever asked for twice.                                 *)
CurrentIsUndecided ==
  \A s \in Sessions : session[s].cur # None =>
    /\ Live(s)
    /\ attempt[session[s].cur].status = "in_progress"
    /\ attempt[session[s].cur].by = s

(* An entry is in progress exactly while one attempt works on it, and a    *)
(* caller works on one record at a time, by hand or through the dialer.    *)
OneAttemptAtATime ==
  /\ \A e \in Entries : entry[e].status = "in_progress" <=>
       \E a \in Attempts : attempt[a].status = "in_progress" /\ attempt[a].entry = e
  /\ \A a, b \in Attempts :
       /\ attempt[a].status = "in_progress" /\ attempt[b].status = "in_progress"
       /\ OwnerOf[attempt[a].entry] = OwnerOf[attempt[b].entry]
       => a = b

(* A finished call is always waiting in wrap-up and wrap-up always has a   *)
(* finished call; a pause holds at most a record not yet dialed; only a    *)
(* session with a record can be reconnecting.                              *)
StateMatchesLeg ==
  \A s \in Sessions : Live(s) =>
    LET a == session[s].cur IN
    /\ session[s].state = "wrap_up" <=> a # None /\ attempt[a].leg \in TerminalStatuses
    /\ session[s].state = "paused" /\ a # None => attempt[a].leg = "queued"
    /\ a = None => session[s].state \in {"ready", "paused"}

(* The reservation lock: the company never has more open legs than lines.  *)
CapacityRespected == Cardinality(Open(attempt)) <= LineLimit

(* attempt_count is the number of seller dispositions, whatever was        *)
(* reserved, released, abandoned or failed in between.                     *)
CountExact == \A e \in Entries : entry[e].count = SellerAttempts(e, attempt)

(* A reservation whose call the provider may know is never handed back to  *)
(* the queue, where another reservation would dial the prospect again.     *)
NeverReleasedAfterDispatch ==
  [][\A a \in Attempts :
       attempt[a].status = "in_progress" /\ attempt'[a].status = "cancelled"
         => attempt[a].call \notin {"dispatching", "placed"}]_vars

(* A caller who asked to pause after the current call is given no further  *)
(* record by anything that happens on the way to the pause.                *)
PauseRespected ==
  [][\A s \in Sessions :
       session[s].pause /\ session'[s].cur # session[s].cur
         => session'[s].cur = None /\ session'[s].state \in {"paused"} \cup EndedStates]_vars
=============================================================================
