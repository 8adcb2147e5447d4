----------------------- MODULE DialCoordinatorProofs -----------------------
(***************************************************************************)
(* Proofs about the coordinator for any callers, records, sessions and     *)
(* attempts.  First the inductive invariant, from which the types, the     *)
(* owner of every open leg and the undecided current record follow; then   *)
(* what a step may do to the calls of its attempts and to the sessions on  *)
(* them, in three arguments that rest on it:                               *)
(*   - no step hands back a reservation the provider may be dialing, and   *)
(*     no step opens a leg beyond the company's lines;                     *)
(*   - what a live session shows agrees with the leg of the record it      *)
(*     works on: whoever moves a leg, refuses to cancel it, pauses,        *)
(*     releases or recovers the session, and in whatever order;            *)
(*   - a pause asked for during a call is heeded when the call is over.    *)
(* Last, attempt_count is exact and the coordinator implements the         *)
(* reservation contract.  Both follow from one fact about every            *)
(* transaction: it moves each attempt at most one stage onward, and it     *)
(* adds one to a record's count exactly when it decides an attempt on it.  *)
(* A release writes the count back from the reservation's snapshot, so the *)
(* invariant of that part says that no decision can have happened since:   *)
(* the snapshot's count is the record's.  It rests in turn on a fact of    *)
(* the tables, proved before it: a record is worked on by one attempt at a *)
(* time, and a caller works on one record at a time, on every path that    *)
(* reserves, releases, decides or opens one.                               *)
(***************************************************************************)
EXTENDS DialReservations, FiniteSetTheorems, TLAPS

-----------------------------------------------------------------------------
(* The vocabulary. *)

LEMMA StateShowingIsLive ==
  ASSUME NEW status \in LegStatuses, NEW old \in LiveStates
  PROVE  StateShowing(status, old) \in LiveStates
  BY DEF StateShowing, LegStatuses, ActiveStatuses, TerminalStatuses, LiveStates

LEMMA TwilioTargets ==
  /\ \A x \in TwilioStatuses : FromTwilio[x] \in LegStatuses
  /\ \A x \in {"initiated", "ringing"} :
       CallbackTarget("queued", x, FALSE) \in LegStatuses \cup {"none"}
  BY DEF FromTwilio, TwilioStatuses, CallbackTarget, LegStatuses, ActiveStatuses, TerminalStatuses

-----------------------------------------------------------------------------
(* One field of a row is written at a time. *)

LEMMA AttemptStatusWritten ==
  ASSUME NEW r \in AttemptRows,
         NEW v \in {"free", "in_progress", "seller", "technical", "cancelled"}
  PROVE  LET q == [r EXCEPT !.status = v] IN
         /\ q \in AttemptRows
         /\ q.status = v /\ q.entry = r.entry /\ q.by = r.by /\ q.leg = r.leg
         /\ q.call = r.call /\ q.undo = r.undo /\ q.snap = r.snap
  BY DEF AttemptRows

LEMMA LegWritten ==
  ASSUME NEW r \in AttemptRows, NEW v \in LegStatuses
  PROVE  LET q == [r EXCEPT !.leg = v] IN
         /\ q \in AttemptRows
         /\ q.leg = v /\ q.status = r.status /\ q.entry = r.entry /\ q.by = r.by
         /\ q.call = r.call /\ q.undo = r.undo /\ q.snap = r.snap
  BY DEF AttemptRows

LEMMA CallWritten ==
  ASSUME NEW r \in AttemptRows, NEW v \in CallStages
  PROVE  LET q == [r EXCEPT !.call = v] IN
         /\ q \in AttemptRows
         /\ q.call = v /\ q.status = r.status /\ q.entry = r.entry /\ q.by = r.by
         /\ q.leg = r.leg /\ q.undo = r.undo /\ q.snap = r.snap
  BY DEF AttemptRows

LEMMA TalkedWritten ==
  ASSUME NEW r \in AttemptRows, NEW v \in BOOLEAN
  PROVE  LET q == [r EXCEPT !.talked = v] IN
         /\ q \in AttemptRows
         /\ q.status = r.status /\ q.entry = r.entry /\ q.by = r.by /\ q.leg = r.leg
         /\ q.call = r.call /\ q.undo = r.undo /\ q.snap = r.snap
  BY DEF AttemptRows

LEMMA UndoWritten ==
  ASSUME NEW r \in AttemptRows, NEW v \in LegStatuses \cup {"none"}
  PROVE  LET q == [r EXCEPT !.undo = v] IN
         /\ q \in AttemptRows
         /\ q.undo = v /\ q.status = r.status /\ q.entry = r.entry /\ q.by = r.by
         /\ q.leg = r.leg /\ q.call = r.call /\ q.snap = r.snap
  BY DEF AttemptRows

LEMMA CancelledRow ==
  ASSUME NEW r \in AttemptRows
  PROVE  /\ Cancelled(r) \in AttemptRows
         /\ Cancelled(r).status = "cancelled" /\ Cancelled(r).leg = "cancelled"
         /\ Cancelled(r).entry = r.entry /\ Cancelled(r).by = r.by
         /\ Cancelled(r).call = r.call /\ Cancelled(r).snap = r.snap
<1> DEFINE q == [r EXCEPT !.status = "cancelled"]
<1>1. q \in AttemptRows /\ q.status = "cancelled" /\ q.entry = r.entry
      /\ q.by = r.by /\ q.call = r.call /\ q.snap = r.snap
  BY AttemptStatusWritten
<1>2. Cancelled(r) = [q EXCEPT !.leg = "cancelled"]
  BY DEF q, Cancelled
<1>3. "cancelled" \in LegStatuses
  BY DEF LegStatuses, TerminalStatuses
<1> HIDE DEF q
<1> QED BY <1>1, <1>2, <1>3, LegWritten

LEMMA EntryWritten ==
  ASSUME NEW r \in EntryRows, NEW d \in BOOLEAN, NEW n \in Nat,
         NEW v \in {"queued", "needs_correction", "in_progress", "handoff_pending", "completed"}
  PROVE  /\ [r EXCEPT !.status = v] \in EntryRows
         /\ [r EXCEPT !.due = d] \in EntryRows
         /\ [r EXCEPT !.count = n] \in EntryRows
  BY DEF EntryRows

LEMMA PutBackRow ==
  ASSUME NEW row \in EntryRows,
         NEW snap \in [status : {"queued", "needs_correction"}, due : BOOLEAN, count : Nat]
  PROVE  PutBack(row, snap) \in EntryRows
<1> DEFINE p == [row EXCEPT !.status = snap.status]
           q == [p EXCEPT !.due = snap.due]
<1>1. p \in EntryRows
  BY EntryWritten
<1>2. PutBack(row, snap) = [q EXCEPT !.count = snap.count]
  BY DEF p, q, PutBack
<1> HIDE DEF p
<1>3. q \in EntryRows
  BY <1>1, EntryWritten
<1> HIDE DEF q
<1> QED BY <1>2, <1>3, EntryWritten

LEMMA SessionStateWritten ==
  ASSUME NEW r \in SessionRows, NEW v \in LiveStates \cup EndedStates \cup {"unborn"}
  PROVE  LET q == [r EXCEPT !.state = v] IN
         q \in SessionRows /\ q.state = v /\ q.cur = r.cur
  BY DEF SessionRows

LEMMA CurWritten ==
  ASSUME NEW r \in SessionRows, NEW v \in Attempts \cup {None}
  PROVE  LET q == [r EXCEPT !.cur = v] IN
         q \in SessionRows /\ q.cur = v /\ q.state = r.state
  BY DEF SessionRows

LEMMA LeaseWritten ==
  ASSUME NEW r \in SessionRows, NEW v \in {"live", "expired", "stale", "none"}
  PROVE  LET q == [r EXCEPT !.lease = v] IN
         q \in SessionRows /\ q.cur = r.cur /\ q.state = r.state
  BY DEF SessionRows

LEMMA FlagsWritten ==
  ASSUME NEW r \in SessionRows, NEW v \in BOOLEAN
  PROVE  /\ LET q == [r EXCEPT !.pause = v] IN
            q \in SessionRows /\ q.cur = r.cur /\ q.state = r.state
         /\ LET q == [r EXCEPT !.stop = v] IN
            q \in SessionRows /\ q.cur = r.cur /\ q.state = r.state
  BY DEF SessionRows

LEMMA OrphanWritten ==
  ASSUME NEW r \in SessionRows, NEW v \in {"unseen", "grace", "over"}
  PROVE  LET q == [r EXCEPT !.orphan = v] IN
         q \in SessionRows /\ q.cur = r.cur /\ q.state = r.state
  BY DEF SessionRows

LEMMA OrphanLegWritten ==
  ASSUME NEW r \in SessionRows, NEW v \in Attempts \cup {None}
  PROVE  LET q == [r EXCEPT !.orphanLeg = v] IN
         q \in SessionRows /\ q.cur = r.cur /\ q.state = r.state
  BY DEF SessionRows

LEMMA RenewedRow ==
  ASSUME NEW r \in SessionRows
  PROVE  Renewed(r) \in SessionRows /\ Renewed(r).cur = r.cur /\ Renewed(r).state = r.state
  BY LeaseWritten DEF Renewed

LEMMA BlankRows ==
  /\ BlankSession \in SessionRows /\ BlankSession.cur = None
  /\ BlankAttempt \in AttemptRows
  /\ BlankAttempt.by = None /\ BlankAttempt.leg = "none" /\ BlankAttempt.call = "none"
  /\ BlankAttempt.entry = None /\ BlankAttempt.status = "free"
  BY DEF BlankSession, BlankAttempt, SessionRows, AttemptRows, CallStages

LEMMA EndedRow ==
  ASSUME NEW how \in EndedStates
  PROVE  Ended(how) \in SessionRows /\ Ended(how).cur = None /\ Ended(how).state = how
  BY BlankRows, SessionStateWritten DEF Ended

LEMMA ReadiedRow ==
  ASSUME NEW r \in SessionRows
  PROVE  /\ Readied(r) \in SessionRows /\ Readied(r).cur = r.cur
         /\ Readied(r).state = "ready"
<1> DEFINE q == [r EXCEPT !.state = "ready"]
<1>1. q \in SessionRows /\ q.cur = r.cur /\ q.state = "ready"
  BY SessionStateWritten DEF LiveStates
<1>2. Readied(r) = [q EXCEPT !.pause = FALSE]
  BY DEF q, Readied
<1> HIDE DEF q
<1> QED BY <1>1, <1>2, FlagsWritten

LEMMA CarryingRow ==
  ASSUME NEW r \in SessionRows, NEW a \in Attempts
  PROVE  /\ Carrying(r, a) \in SessionRows /\ Carrying(r, a).cur = a
         /\ Carrying(r, a).state = "ready"
<1> DEFINE q == [r EXCEPT !.cur = a]
<1>1. q \in SessionRows /\ q.cur = a
  BY CurWritten
<1>2. Carrying(r, a) = [q EXCEPT !.state = "ready"]
  BY DEF q, Carrying
<1> HIDE DEF q
<1> QED BY <1>1, <1>2, SessionStateWritten DEF LiveStates

LEMMA DetachedRow ==
  ASSUME NEW r \in SessionRows
  PROVE  /\ Detached(r) \in SessionRows /\ Detached(r).cur = None
         /\ Detached(r).state = r.state
<1> DEFINE p == [r EXCEPT !.cur = None]
           q == [p EXCEPT !.pause = FALSE]
<1>1. p \in SessionRows /\ p.cur = None /\ p.state = r.state
  BY CurWritten
<1>2. Detached(r) = [q EXCEPT !.stop = FALSE]
  BY DEF p, q, Detached
<1> HIDE DEF p
<1>3. q \in SessionRows /\ q.cur = None /\ q.state = r.state
  BY <1>1, FlagsWritten
<1> HIDE DEF q
<1> QED BY <1>2, <1>3, FlagsWritten

LEMMA SeenRow ==
  ASSUME NEW r \in SessionRows, NEW v \in LiveStates
  PROVE  Seen(r, v) \in SessionRows /\ Seen(r, v).cur = r.cur /\ Seen(r, v).state = v
<1> DEFINE q == [r EXCEPT !.state = v]
<1>1. q \in SessionRows /\ q.cur = r.cur /\ q.state = v
  BY SessionStateWritten
<1>2. Seen(r, v) = [q EXCEPT !.lease = "expired"]
  BY DEF q, Seen
<1> HIDE DEF q
<1> QED BY <1>1, <1>2, LeaseWritten

LEMMA InGraceRow ==
  ASSUME NEW r \in SessionRows, NEW a \in Attempts
  PROVE  /\ InGrace(r, a) \in SessionRows /\ InGrace(r, a).cur = r.cur
         /\ InGrace(r, a).state = "reconnecting"
<1> DEFINE p == [r EXCEPT !.state = "reconnecting"]
           q == [p EXCEPT !.lease = "live"]
           x == [q EXCEPT !.orphan = "grace"]
           leg == IF r.orphan = "unseen" THEN a ELSE x.orphanLeg
<1>1. p \in SessionRows /\ p.cur = r.cur /\ p.state = "reconnecting"
  BY SessionStateWritten DEF LiveStates
<1>2. InGrace(r, a) = [x EXCEPT !.orphanLeg = leg]
  BY DEF p, q, x, leg, InGrace
<1> HIDE DEF p
<1>3. q \in SessionRows /\ q.cur = r.cur /\ q.state = "reconnecting"
  BY <1>1, LeaseWritten
<1> HIDE DEF q
<1>4. x \in SessionRows /\ x.cur = r.cur /\ x.state = "reconnecting"
  BY <1>3, OrphanWritten
<1> HIDE DEF x
<1>5. leg \in Attempts \cup {None}
  BY <1>4 DEF SessionRows, leg
<1> HIDE DEF leg
<1> QED BY <1>2, <1>4, <1>5, OrphanLegWritten

LEMMA ReconciledRow ==
  ASSUME NEW r \in SessionRows, r.state \in LiveStates,
         NEW A \in [Attempts -> AttemptRows],
         r.cur # None => A[r.cur].leg # "none"
  PROVE  /\ Reconciled(r, A) \in SessionRows
         /\ Reconciled(r, A).cur = r.cur
         /\ Reconciled(r, A).state \in LiveStates
<1>1. CASE r.cur = None
  <2> DEFINE v == IF r.state \in {"paused", "reconnecting"} THEN r.state ELSE "ready"
  <2>1. v \in LiveStates
    BY DEF LiveStates
  <2>2. Reconciled(r, A) = [r EXCEPT !.state = v]
    BY <1>1 DEF Reconciled, v
  <2> HIDE DEF v
  <2> QED BY <2>1, <2>2, SessionStateWritten
<1>2. CASE r.cur # None
  <2> DEFINE v == StateShowing(A[r.cur].leg, r.state)
  <2>1. A[r.cur].leg \in LegStatuses
    BY <1>2 DEF SessionRows, AttemptRows
  <2>2. v \in LiveStates
    BY <2>1, StateShowingIsLive
  <2>3. Reconciled(r, A) = [r EXCEPT !.state = v]
    BY <1>2 DEF Reconciled, v
  <2> HIDE DEF v
  <2> QED BY <2>2, <2>3, SessionStateWritten
<1> QED BY <1>1, <1>2

LEMMA ShowingRow ==
  ASSUME NEW r \in AttemptRows, NEW v \in LegStatuses
  PROVE  LET q == Showing(r, v) IN
         /\ q \in AttemptRows
         /\ q.leg = v /\ q.status = r.status /\ q.entry = r.entry /\ q.by = r.by
         /\ q.call = r.call /\ q.snap = r.snap
<1> DEFINE p == [r EXCEPT !.leg = v]
           talked == p.talked \/ v = "connected"
           q == [p EXCEPT !.talked = talked]
           undo == IF v \in TerminalStatuses THEN "none" ELSE q.undo
<1>1. /\ p \in AttemptRows
      /\ p.leg = v /\ p.status = r.status /\ p.entry = r.entry /\ p.by = r.by
      /\ p.call = r.call /\ p.snap = r.snap
  BY LegWritten
<1>2. Showing(r, v) = [q EXCEPT !.undo = undo]
  BY DEF p, talked, q, undo, Showing
<1> HIDE DEF p
<1>3. talked \in BOOLEAN
  BY DEF talked
<1> HIDE DEF talked
<1>4. /\ q \in AttemptRows
      /\ q.leg = v /\ q.status = r.status /\ q.entry = r.entry /\ q.by = r.by
      /\ q.call = r.call /\ q.snap = r.snap
  BY <1>1, <1>3, TalkedWritten
<1> HIDE DEF q
<1>5. undo \in LegStatuses \cup {"none"}
  BY <1>4 DEF undo, AttemptRows
<1> HIDE DEF undo
<1> QED BY <1>2, <1>4, <1>5, UndoWritten

LEMMA PlacedRow ==
  ASSUME NEW r \in AttemptRows, NEW v \in LegStatuses
  PROVE  LET q == Placed(r, v) IN
         /\ q \in AttemptRows
         /\ q.leg = v /\ q.status = r.status /\ q.entry = r.entry /\ q.by = r.by
         /\ q.call = "placed" /\ q.snap = r.snap
<1> DEFINE p == Showing(r, v)
<1>1. /\ p \in AttemptRows
      /\ p.leg = v /\ p.status = r.status /\ p.entry = r.entry /\ p.by = r.by
      /\ p.snap = r.snap
  BY ShowingRow
<1>2. Placed(r, v) = [p EXCEPT !.call = "placed"]
  BY DEF p, Placed
<1>3. "placed" \in CallStages
  BY DEF CallStages
<1> HIDE DEF p
<1> QED BY <1>1, <1>2, <1>3, CallWritten

LEMMA BeingCancelledRow ==
  ASSUME NEW r \in AttemptRows
  PROVE  LET q == BeingCancelled(r) IN
         /\ q \in AttemptRows
         /\ q.leg = "cancelling" /\ q.status = r.status /\ q.entry = r.entry /\ q.by = r.by
         /\ q.call = r.call /\ q.snap = r.snap
<1> DEFINE p == [r EXCEPT !.leg = "cancelling"]
           undo == IF r.leg = "cancelling" THEN p.undo ELSE r.leg
<1>1. /\ p \in AttemptRows
      /\ p.leg = "cancelling" /\ p.status = r.status /\ p.entry = r.entry /\ p.by = r.by
      /\ p.call = r.call /\ p.snap = r.snap
  BY LegWritten DEF LegStatuses, ActiveStatuses
<1>2. BeingCancelled(r) = [p EXCEPT !.undo = undo]
  BY DEF p, undo, BeingCancelled
<1> HIDE DEF p
<1>3. undo \in LegStatuses \cup {"none"}
  BY <1>1 DEF undo, AttemptRows
<1> HIDE DEF undo
<1> QED BY <1>1, <1>2, <1>3, UndoWritten

LEMMA CancelUndoneRow ==
  ASSUME NEW r \in AttemptRows, r.undo # "none", r.leg # "none"
  PROVE  LET q == CancelUndone(r) IN
         /\ q \in AttemptRows
         /\ q.leg = IF r.leg = "cancelling" THEN r.undo ELSE r.leg
         /\ q.status = r.status /\ q.entry = r.entry /\ q.by = r.by
         /\ q.call = r.call /\ q.snap = r.snap
<1> DEFINE p == [r EXCEPT !.undo = "none"]
           leg == IF p.leg = "cancelling" THEN r.undo ELSE p.leg
<1>1. /\ p \in AttemptRows
      /\ p.leg = r.leg /\ p.status = r.status /\ p.entry = r.entry /\ p.by = r.by
      /\ p.call = r.call /\ p.snap = r.snap
  BY UndoWritten
<1>2. CancelUndone(r) = [p EXCEPT !.leg = leg]
  BY DEF p, leg, CancelUndone
<1> HIDE DEF p
<1>3. leg \in LegStatuses
  BY <1>1 DEF leg, AttemptRows
<1>4. leg = IF r.leg = "cancelling" THEN r.undo ELSE r.leg
  BY <1>1 DEF leg
<1> HIDE DEF leg
<1> QED BY <1>1, <1>2, <1>3, <1>4, LegWritten

LEMMA OriginWritten ==
  ASSUME NEW r \in AttemptRows
  PROVE  /\ \A v \in Entries \cup {None} :
              LET q == [r EXCEPT !.entry = v] IN
              /\ q \in AttemptRows
              /\ q.entry = v /\ q.status = r.status /\ q.by = r.by /\ q.leg = r.leg
              /\ q.call = r.call /\ q.snap = r.snap
         /\ \A v \in Sessions \cup {None} :
              LET q == [r EXCEPT !.by = v] IN
              /\ q \in AttemptRows
              /\ q.by = v /\ q.status = r.status /\ q.entry = r.entry /\ q.leg = r.leg
              /\ q.call = r.call /\ q.snap = r.snap
         /\ \A v \in [status : {"none", "queued", "needs_correction"},
                      due : BOOLEAN, count : Nat] :
              LET q == [r EXCEPT !.snap = v] IN
              /\ q \in AttemptRows
              /\ q.snap = v /\ q.status = r.status /\ q.entry = r.entry /\ q.by = r.by
              /\ q.leg = r.leg /\ q.call = r.call
<1>1. \A v \in Entries \cup {None} :
        LET q == [r EXCEPT !.entry = v] IN
        /\ q \in AttemptRows
        /\ q.entry = v /\ q.status = r.status /\ q.by = r.by /\ q.leg = r.leg
        /\ q.call = r.call /\ q.snap = r.snap
  BY DEF AttemptRows
<1>2. \A v \in Sessions \cup {None} :
        LET q == [r EXCEPT !.by = v] IN
        /\ q \in AttemptRows
        /\ q.by = v /\ q.status = r.status /\ q.entry = r.entry /\ q.leg = r.leg
        /\ q.call = r.call /\ q.snap = r.snap
  BY DEF AttemptRows
<1>3. \A v \in [status : {"none", "queued", "needs_correction"}, due : BOOLEAN, count : Nat] :
        LET q == [r EXCEPT !.snap = v] IN
        /\ q \in AttemptRows
        /\ q.snap = v /\ q.status = r.status /\ q.entry = r.entry /\ q.by = r.by
        /\ q.leg = r.leg /\ q.call = r.call
  BY DEF AttemptRows
<1> QED BY <1>1, <1>2, <1>3

LEMMA OpenedByHandRow ==
  ASSUME NEW e \in Entries
  PROVE  LET q == OpenedByHand(e) IN
         /\ q \in AttemptRows
         /\ q.status = "in_progress" /\ q.entry = e /\ q.by = None
         /\ q.leg = "none" /\ q.call = "none"
<1> DEFINE p == [BlankAttempt EXCEPT !.status = "in_progress"]
<1>1. p \in AttemptRows /\ p.status = "in_progress" /\ p.by = None
      /\ p.leg = "none" /\ p.call = "none"
  BY BlankRows, AttemptStatusWritten
<1>2. OpenedByHand(e) = [p EXCEPT !.entry = e]
  BY DEF p, OpenedByHand
<1> HIDE DEF p
<1> QED BY <1>1, <1>2, OriginWritten

LEMMA ReservedRow ==
  ASSUME NEW s \in Sessions, NEW e \in Entries, NEW row \in EntryRows,
         row.status \in {"queued", "needs_correction"}
  PROVE  LET q == Reserved(s, e, row) IN
         /\ q \in AttemptRows
         /\ q.status = "in_progress" /\ q.entry = e /\ q.by = s /\ q.leg = "queued"
         /\ q.call = "none" /\ q.snap.status # "none"
<1> DEFINE p == OpenedByHand(e)
           q == [p EXCEPT !.by = s]
           x == [q EXCEPT !.leg = "queued"]
<1>1. p \in AttemptRows /\ p.status = "in_progress" /\ p.entry = e /\ p.call = "none"
  BY OpenedByHandRow
<1>2. Reserved(s, e, row) = [x EXCEPT !.snap = Snapshot(row)]
  BY DEF p, q, x, Reserved, OpenedByHand
<1> HIDE DEF p
<1>3. /\ q \in AttemptRows /\ q.status = "in_progress" /\ q.entry = e /\ q.by = s
      /\ q.call = "none"
  BY <1>1, OriginWritten
<1> HIDE DEF q
<1>4. /\ x \in AttemptRows /\ x.status = "in_progress" /\ x.entry = e /\ x.by = s
      /\ x.leg = "queued" /\ x.call = "none"
  BY <1>3, LegWritten DEF LegStatuses, ActiveStatuses
<1> HIDE DEF x
<1>5. /\ Snapshot(row) \in [status : {"none", "queued", "needs_correction"},
                            due : BOOLEAN, count : Nat]
      /\ Snapshot(row).status # "none"
  BY DEF Snapshot, EntryRows
<1> QED BY <1>2, <1>4, <1>5, OriginWritten

-----------------------------------------------------------------------------
(* The inductive invariant. *)

(* A native attempt carries what its release needs: its record, its leg    *)
(* and the snapshot to restore; a manual one has no leg and no call.       *)
Native ==
  \A a \in Attempts :
    /\ attempt[a].by # None =>
         /\ attempt[a].leg # "none"
         /\ attempt[a].snap.status # "none"
         /\ attempt[a].entry \in Entries
    /\ attempt[a].by = None => attempt[a].leg = "none" /\ attempt[a].call = "none"
    /\ attempt[a].status = "in_progress" => attempt[a].entry \in Entries

Ownership == OpenLegHeld /\ CurrentIsUndecided /\ Native

IInv == TypeOK /\ Ownership

(* How one transaction may treat attempts and sessions without losing an   *)
(* open leg: an attempt is carried on, closed, or opened for a session;    *)
(* a session lets go, carries on, or takes up what was opened for it.      *)
Carries(a) ==
  /\ attempt'[a].by = attempt[a].by
  /\ attempt'[a].status = attempt[a].status
  /\ attempt'[a].leg \in ActiveStatuses => attempt[a].leg \in ActiveStatuses

Opens(a, s) ==
  /\ attempt'[a].status = "in_progress" /\ attempt'[a].by = s
  /\ session'[s].cur = a /\ session'[s].state \in LiveStates

LEMMA OwnershipKept ==
  ASSUME TypeOK, OpenLegHeld, CurrentIsUndecided,
         \A a \in Attempts :
           \/ Carries(a)
           \/ attempt'[a].leg \notin ActiveStatuses
           \/ \E s \in Sessions : Opens(a, s),
         \A s \in Sessions :
           \/ session'[s].cur = None
           \/ /\ session'[s].cur = session[s].cur
              /\ session'[s].state \in LiveStates
              /\ Carries(session[s].cur)
           \/ Opens(session'[s].cur, s),
         \A s \in Sessions :
           session[s].cur \in Attempts /\ attempt'[session[s].cur].leg \in ActiveStatuses
             => session'[s].cur = session[s].cur /\ session'[s].state \in LiveStates
  PROVE  OpenLegHeld' /\ CurrentIsUndecided'
<1>1. OpenLegHeld'
  <2> SUFFICES ASSUME NEW a \in Attempts, attempt'[a].leg \in ActiveStatuses
               PROVE  /\ attempt'[a].status = "in_progress"
                      /\ attempt'[a].by \in Sessions
                      /\ session'[attempt'[a].by].state \in LiveStates
                      /\ session'[attempt'[a].by].cur = a
    BY DEF OpenLegHeld, Open, Live
  <2>1. CASE Carries(a)
    BY <2>1 DEF Carries, OpenLegHeld, Open
  <2>2. CASE \E s \in Sessions : Opens(a, s)
    BY <2>2 DEF Opens
  <2> QED BY <2>1, <2>2
<1>2. CurrentIsUndecided'
  <2> SUFFICES ASSUME NEW s \in Sessions, session'[s].cur # None
               PROVE  /\ session'[s].state \in LiveStates
                      /\ attempt'[session'[s].cur].status = "in_progress"
                      /\ attempt'[session'[s].cur].by = s
    BY DEF CurrentIsUndecided, Live
  <2>1. CASE Opens(session'[s].cur, s)
    BY <2>1 DEF Opens
  <2>2. CASE /\ session'[s].cur = session[s].cur
             /\ session'[s].state \in LiveStates
             /\ Carries(session[s].cur)
    BY <2>2 DEF Carries, CurrentIsUndecided
  <2> QED BY <2>1, <2>2
<1> QED BY <1>1, <1>2

(* A transaction that writes one session row and nothing else. *)
LEMMA OnlySessionKeeps ==
  ASSUME IInv, NEW s \in Sessions, NEW r \in SessionRows,
         OnlySession(s, r), UNCHANGED <<switchOn, starting, gone>>,
         \/ /\ r.cur = None
            /\ session[s].cur \in Attempts => attempt[session[s].cur].leg \notin ActiveStatuses
         \/ r.cur = session[s].cur /\ r.state \in LiveStates
  PROVE  IInv'
<1>1. TypeOK'
  BY DEF IInv, TypeOK, OnlySession
<1>2. session' = [session EXCEPT ![s] = r] /\ session \in [Sessions -> SessionRows]
  BY DEF OnlySession, IInv, TypeOK
<1>3. attempt' = attempt
  BY DEF OnlySession
<1>4. \A t \in Sessions : t # s => session'[t] = session[t]
  BY <1>2
<1>5. session'[s] = r
  BY <1>2
<1>6. \A a \in Attempts : Carries(a)
  BY <1>3 DEF Carries
<1>7. \A t \in Sessions : session[t].cur # None =>
         session[t].cur \in Attempts /\ session[t].state \in LiveStates
  BY <1>2 DEF IInv, Ownership, CurrentIsUndecided, Live, SessionRows
<1>8. OpenLegHeld' /\ CurrentIsUndecided'
  <2>1. \A t \in Sessions :
          \/ session'[t].cur = None
          \/ /\ session'[t].cur = session[t].cur
             /\ session'[t].state \in LiveStates
             /\ Carries(session[t].cur)
          \/ Opens(session'[t].cur, t)
    BY <1>4, <1>5, <1>6, <1>7
  <2>2. \A t \in Sessions :
          session[t].cur \in Attempts /\ attempt'[session[t].cur].leg \in ActiveStatuses
            => session'[t].cur = session[t].cur /\ session'[t].state \in LiveStates
    BY <1>3, <1>4, <1>5, <1>7, CoordinatorAssumption DEF CoordinatorAssumption
  <2> QED BY <1>6, <2>1, <2>2, OwnershipKept DEF IInv, Ownership
<1>9. Native'
  BY <1>3 DEF IInv, Ownership, Native
<1> QED BY <1>1, <1>8, <1>9 DEF IInv, Ownership

(* A transaction that gives back the current attempts R of some sessions.  *)
LEMMA ReleaseKeeps ==
  ASSUME IInv, NEW R \in SUBSET Attempts,
         \A a \in R : \E s \in Sessions : session[s].cur = a,
         Release(R), session' \in [Sessions -> SessionRows],
         switchOn' \in BOOLEAN, UNCHANGED <<starting, gone>>,
         \A s \in Sessions :
           \/ /\ session'[s].cur = None
              /\ session[s].cur \in Attempts \ R =>
                   attempt[session[s].cur].leg \notin ActiveStatuses
           \/ /\ session'[s].cur = session[s].cur /\ session[s].cur \notin R
              /\ session[s].cur # None => session'[s].state \in LiveStates
  PROVE  IInv'
<1>1. \A a \in R : attempt[a].by # None /\ a # None
  BY CoordinatorAssumption DEF CoordinatorAssumption, IInv, Ownership, CurrentIsUndecided
<1>2. \A a \in R : /\ attempt'[a] \in AttemptRows
                    /\ attempt'[a].status = "cancelled" /\ attempt'[a].leg = "cancelled"
                    /\ attempt'[a].by = attempt[a].by /\ attempt'[a].entry = attempt[a].entry
                    /\ attempt'[a].call = attempt[a].call /\ attempt'[a].snap = attempt[a].snap
  <2> TAKE a \in R
  <2>1. attempt'[a] = Cancelled(attempt[a])
    BY DEF Release, Released
  <2> QED BY <2>1, CancelledRow DEF IInv, TypeOK
<1>6. \A a \in Attempts \ R : attempt'[a] = attempt[a]
  BY DEF Release, Released
<1>11. attempt' \in [Attempts -> AttemptRows]
  BY <1>2, <1>6 DEF Release, Released, IInv, TypeOK
<1>3. entry' \in [Entries -> EntryRows]
  <2> SUFFICES ASSUME NEW e \in Entries
               PROVE  Restored(R)[e] \in EntryRows
    BY DEF Release, Restored
  <2>1. CASE \E a \in R : attempt[a].entry = e
    <3> DEFINE b == CHOOSE a \in R : attempt[a].entry = e
    <3>1. b \in R
      BY <2>1
    <3> HIDE DEF b
    <3>2. attempt[b].snap \in [status : {"none", "queued", "needs_correction"},
                               due : BOOLEAN, count : Nat]
      BY <3>1 DEF IInv, TypeOK, AttemptRows
    <3>3. attempt[b].snap.status # "none"
      BY <3>1, <1>1 DEF IInv, Ownership, Native
    <3>4. attempt[b].snap \in [status : {"queued", "needs_correction"},
                               due : BOOLEAN, count : Nat]
      BY <3>2, <3>3
    <3>5. Restored(R)[e] = PutBack(entry[e], attempt[b].snap)
      BY <2>1 DEF Restored, b
    <3> QED BY <3>4, <3>5, PutBackRow DEF IInv, TypeOK
  <2>2. CASE ~\E a \in R : attempt[a].entry = e
    BY <2>2 DEF Restored, IInv, TypeOK
  <2> QED BY <2>1, <2>2
<1>4. TypeOK'
  BY <1>11, <1>3 DEF IInv, TypeOK
<1>5. \A a \in R : attempt'[a].leg \notin ActiveStatuses /\ attempt'[a].leg # "none"
  BY <1>2 DEF ActiveStatuses
<1>7. \A a \in Attempts \ R : Carries(a)
  BY <1>6 DEF Carries
<1>8. \A s \in Sessions : session[s].cur \in Attempts \cup {None}
  BY DEF IInv, TypeOK, SessionRows
<1>9. OpenLegHeld' /\ CurrentIsUndecided'
  <2>1. \A a \in Attempts : Carries(a) \/ attempt'[a].leg \notin ActiveStatuses
    BY <1>5, <1>7
  <2>2. \A s \in Sessions :
          \/ session'[s].cur = None
          \/ /\ session'[s].cur = session[s].cur
             /\ session'[s].state \in LiveStates
             /\ Carries(session[s].cur)
    BY <1>7, <1>8
  <2>3. \A s \in Sessions :
          session[s].cur \in Attempts /\ attempt'[session[s].cur].leg \in ActiveStatuses
            => session'[s].cur = session[s].cur /\ session'[s].state \in LiveStates
    BY <1>5, <1>6, CoordinatorAssumption DEF CoordinatorAssumption
  <2> QED BY <2>1, <2>2, <2>3, OwnershipKept DEF IInv, Ownership
<1>10. Native'
  BY <1>1, <1>2, <1>5, <1>6 DEF IInv, Ownership, Native
<1> QED BY <1>4, <1>9, <1>10 DEF IInv, Ownership

(* A transaction that moves the call of attempt a and at most the state of *)
(* sessions with it.                                                       *)
LEMMA CallMoveKeeps ==
  ASSUME IInv, NEW a \in Attempts, NEW q \in AttemptRows, attempt[a].by # None,
         attempt' = [attempt EXCEPT ![a] = q],
         q.status = attempt[a].status, q.by = attempt[a].by,
         q.entry = attempt[a].entry, q.snap = attempt[a].snap, q.leg # "none",
         q.leg \in ActiveStatuses => attempt[a].leg \in ActiveStatuses,
         session' \in [Sessions -> SessionRows],
         \A s \in Sessions :
           /\ session'[s].cur = session[s].cur
           /\ session[s].cur # None => session'[s].state \in LiveStates,
         UNCHANGED <<entry, switchOn, starting, gone>>
  PROVE  IInv'
<1>1. TypeOK'
  BY DEF IInv, TypeOK
<1>2. attempt'[a] = q /\ \A b \in Attempts : b # a => attempt'[b] = attempt[b]
  BY DEF IInv, TypeOK
<1>3. \A b \in Attempts : Carries(b)
  BY <1>2 DEF Carries
<1>4. \A s \in Sessions : session[s].cur \in Attempts \cup {None}
  BY DEF IInv, TypeOK, SessionRows
<1>5. OpenLegHeld' /\ CurrentIsUndecided'
  <2>1. \A s \in Sessions :
          \/ session'[s].cur = None
          \/ /\ session'[s].cur = session[s].cur
             /\ session'[s].state \in LiveStates
             /\ Carries(session[s].cur)
    BY <1>3, <1>4
  <2>2. \A s \in Sessions :
          session[s].cur \in Attempts /\ attempt'[session[s].cur].leg \in ActiveStatuses
            => session'[s].cur = session[s].cur /\ session'[s].state \in LiveStates
    BY CoordinatorAssumption DEF CoordinatorAssumption
  <2> QED BY <1>3, <2>1, <2>2, OwnershipKept DEF IInv, Ownership
<1>6. Native'
  BY <1>2 DEF IInv, Ownership, Native
<1> QED BY <1>1, <1>5, <1>6 DEF IInv, Ownership

(* reconcile_dial_session_from_leg moves the state of one live session.    *)
LEMMA MirrorKeeps ==
  ASSUME IInv, NEW a \in Attempts, NEW A \in [Attempts -> AttemptRows],
         A[a].leg # "none", Mirror(a, A)
  PROVE  /\ session' \in [Sessions -> SessionRows]
         /\ \A s \in Sessions :
              /\ session'[s].cur = session[s].cur
              /\ session[s].cur # None => session'[s].state \in LiveStates
<1>1. session \in [Sessions -> SessionRows]
      /\ \A s \in Sessions : session[s].cur # None => session[s].state \in LiveStates
  BY DEF IInv, TypeOK, Ownership, CurrentIsUndecided, Live
<1>2. CASE A[a].by # None /\ Live(A[a].by) /\ session[A[a].by].cur = a
  <2> DEFINE t == A[a].by
  <2>1. t \in Sessions
    BY <1>2 DEF AttemptRows
  <2>2. session' = [session EXCEPT ![t] = Reconciled(session[t], A)]
    BY <1>2 DEF Mirror
  <2>3. t \in Sessions /\ session[t].state \in LiveStates /\ session[t].cur = a
    BY <1>2, <2>1 DEF Live
  <2> HIDE DEF t
  <2>4. /\ Reconciled(session[t], A) \in SessionRows
        /\ Reconciled(session[t], A).cur = session[t].cur
        /\ Reconciled(session[t], A).state \in LiveStates
    BY <1>1, <2>3, ReconciledRow
  <2> QED BY <1>1, <2>2, <2>3, <2>4
<1>3. CASE session' = session
  BY <1>1, <1>3
<1> QED BY <1>2, <1>3 DEF Mirror

(* The rows A and E a transaction has built before it settles what session *)
(* s does next: the record s worked on, if any, is decided.                *)
Settled(s, A, E) ==
  /\ A \in [Attempts -> AttemptRows] /\ E \in [Entries -> EntryRows]
  /\ \A a \in Attempts :
       /\ A[a].by = attempt[a].by /\ A[a].entry = attempt[a].entry
       /\ A[a].leg = attempt[a].leg /\ A[a].call = attempt[a].call
       /\ A[a].snap = attempt[a].snap
       /\ a # session[s].cur => A[a].status = attempt[a].status
       /\ a = session[s].cur => /\ A[a].leg \notin ActiveStatuses
                                /\ A[a].status \notin {"free", "in_progress"}

LEMMA SettleKeeps ==
  ASSUME IInv, NEW s \in Sessions, NEW A, NEW E, Settled(s, A, E),
         NEW x \in SessionRows, x.cur = None,
         session' = [session EXCEPT ![s] = x], attempt' = A, entry' = E,
         switchOn' = switchOn, starting' \in SUBSET Callers, gone' = gone
  PROVE  IInv'
<1>1. TypeOK'
  BY DEF IInv, TypeOK, Settled
<1>2. session'[s] = x /\ \A t \in Sessions : t # s => session'[t] = session[t]
  BY DEF IInv, TypeOK
<1>3. \A t \in Sessions : session[t].cur \in Attempts \cup {None}
  BY DEF IInv, TypeOK, SessionRows
<1>4. \A a \in Attempts :
        \/ a # session[s].cur /\ Carries(a)
        \/ a = session[s].cur /\ attempt'[a].leg \notin ActiveStatuses
  BY DEF Settled, Carries
<1>5. \A t \in Sessions : t # s /\ session[t].cur # None =>
         /\ session[t].cur # session[s].cur
         /\ session[t].state \in LiveStates
  BY DEF IInv, Ownership, CurrentIsUndecided, Live
<1>6. OpenLegHeld' /\ CurrentIsUndecided'
  <2>1. \A t \in Sessions :
          \/ session'[t].cur = None
          \/ /\ session'[t].cur = session[t].cur
             /\ session'[t].state \in LiveStates
             /\ Carries(session[t].cur)
    BY <1>2, <1>3, <1>4, <1>5
  <2>2. \A t \in Sessions :
          session[t].cur \in Attempts /\ attempt'[session[t].cur].leg \in ActiveStatuses
            => session'[t].cur = session[t].cur /\ session'[t].state \in LiveStates
    BY <1>2, <1>4, <1>5, CoordinatorAssumption DEF CoordinatorAssumption
  <2> QED BY <1>4, <2>1, <2>2, OwnershipKept DEF IInv, Ownership
<1>7. Native'
  BY DEF IInv, Ownership, Native, Settled
<1> QED BY <1>1, <1>6, <1>7 DEF IInv, Ownership

LEMMA ReserveOneKeeps ==
  ASSUME IInv, NEW s \in Sessions, NEW A, NEW E, Settled(s, A, E),
         NEW r \in SessionRows, ReserveOne(s, r, A, E),
         switchOn' = switchOn, starting' \in SUBSET Callers, gone' = gone
  PROVE  IInv'
<1>1. PICK a \in Attempts, e \in Entries :
        /\ A[a].status = "free" /\ E[e].status \in {"queued", "needs_correction"}
        /\ session' = [session EXCEPT ![s] = Carrying(r, a)]
        /\ attempt' = [A EXCEPT ![a] = Reserved(s, e, E[e])]
        /\ entry' = [E EXCEPT ![e].status = "in_progress"]
  BY DEF ReserveOne, Candidates
<1>2. LET q == Reserved(s, e, E[e]) IN
      /\ q \in AttemptRows
      /\ q.status = "in_progress" /\ q.entry = e /\ q.by = s /\ q.leg = "queued"
      /\ q.call = "none" /\ q.snap.status # "none"
  BY <1>1, ReservedRow DEF Settled
<1>3. /\ Carrying(r, a) \in SessionRows /\ Carrying(r, a).cur = a
      /\ Carrying(r, a).state \in LiveStates
  BY CarryingRow DEF LiveStates
<1>4. TypeOK'
  <2>1. session' \in [Sessions -> SessionRows]
    BY <1>1, <1>3 DEF IInv, TypeOK
  <2>2. attempt' \in [Attempts -> AttemptRows]
    BY <1>1, <1>2 DEF Settled
  <2>3. entry' \in [Entries -> EntryRows]
    BY <1>1, EntryWritten DEF Settled
  <2> QED BY <2>1, <2>2, <2>3 DEF IInv, TypeOK
<1>5. /\ session'[s] = Carrying(r, a)
      /\ \A t \in Sessions : t # s => session'[t] = session[t]
  BY <1>1 DEF IInv, TypeOK
<1>6. /\ attempt'[a] = Reserved(s, e, E[e])
      /\ \A b \in Attempts : b # a => attempt'[b] = A[b]
  BY <1>1 DEF Settled
<1>7. a # session[s].cur /\ attempt[a].status = "free"
  BY <1>1 DEF Settled
<1>8. Opens(a, s)
  BY <1>2, <1>3, <1>5, <1>6 DEF Opens
<1>9. \A b \in Attempts :
        \/ b # session[s].cur /\ b # a /\ Carries(b)
        \/ b = session[s].cur /\ attempt'[b].leg \notin ActiveStatuses
        \/ b = a
  BY <1>6, <1>7 DEF Settled, Carries
<1>10. \A t \in Sessions : t # s /\ session[t].cur # None =>
         /\ session[t].cur \in Attempts
         /\ session[t].cur # session[s].cur /\ session[t].cur # a
         /\ session[t].state \in LiveStates
  BY <1>7 DEF IInv, TypeOK, SessionRows, Ownership, CurrentIsUndecided, Live
<1>11. OpenLegHeld' /\ CurrentIsUndecided'
  <2>1. \A b \in Attempts :
          \/ Carries(b)
          \/ attempt'[b].leg \notin ActiveStatuses
          \/ \E t \in Sessions : Opens(b, t)
    BY <1>8, <1>9
  <2>2. \A t \in Sessions :
          \/ session'[t].cur = None
          \/ /\ session'[t].cur = session[t].cur
             /\ session'[t].state \in LiveStates
             /\ Carries(session[t].cur)
          \/ Opens(session'[t].cur, t)
    BY <1>3, <1>5, <1>8, <1>9, <1>10
  <2>3. \A t \in Sessions :
          session[t].cur \in Attempts /\ attempt'[session[t].cur].leg \in ActiveStatuses
            => session'[t].cur = session[t].cur /\ session'[t].state \in LiveStates
    BY <1>5, <1>7, <1>9, <1>10, CoordinatorAssumption DEF CoordinatorAssumption
  <2> QED BY <2>1, <2>2, <2>3, OwnershipKept DEF IInv, Ownership
<1>12. Native'
  <2>1. s # None
    BY CoordinatorAssumption DEF CoordinatorAssumption
  <2> QED BY <2>1, <1>2, <1>6, <1>7 DEF IInv, Ownership, Native, Settled
<1> QED BY <1>4, <1>11, <1>12 DEF IInv, Ownership

LEMMA ReserveNextKeeps ==
  ASSUME IInv, NEW s \in Sessions, NEW A, NEW E, Settled(s, A, E),
         NEW r \in SessionRows, ReserveNext(s, r, A, E),
         switchOn' = switchOn, starting' \in SUBSET Callers, gone' = gone
  PROVE  IInv'
<1>1. CASE ReserveOne(s, r, A, E)
  BY <1>1, ReserveOneKeeps
<1>2. CASE QueueExhausted(s, A, E)
  <2>1. Ended("ended") \in SessionRows /\ Ended("ended").cur = None
    BY EndedRow DEF EndedStates
  <2> QED BY <1>2, <2>1, SettleKeeps DEF QueueExhausted
<1> QED BY <1>1, <1>2 DEF ReserveNext

LEMMA DistinctCurrents ==
  ASSUME CurrentIsUndecided, NEW s \in Sessions, NEW t \in Sessions,
         session[s].cur = session[t].cur, session[s].cur # None
  PROVE  s = t
  BY DEF CurrentIsUndecided

LEMMA HeldAttempts ==
  ASSUME TypeOK, NEW S \in SUBSET Sessions
  PROVE  /\ Held(S) \in SUBSET Attempts
         /\ \A a \in Held(S) : \E s \in S : session[s].cur = a
  BY DEF TypeOK, SessionRows, Held

LEMMA StopOrDrainKeeps ==
  ASSUME IInv, NEW S \in SUBSET Sessions, NEW how \in EndedStates, StopOrDrain(S, how),
         switchOn' \in BOOLEAN, UNCHANGED <<starting, gone>>
  PROVE  IInv'
<1> DEFINE idle == {s \in S : Idle(s)}
           R == Held(idle)
<1>1. /\ Release(R)
      /\ session' = [s \in Sessions |->
           IF s \in idle THEN Ended(how)
           ELSE IF s \in S THEN [session[s] EXCEPT !.stop = TRUE]
           ELSE session[s]]
  BY DEF StopOrDrain
<1>2. R \in SUBSET Attempts /\ \A a \in R : \E s \in idle : session[s].cur = a
  BY HeldAttempts DEF IInv
<1>3. \A s \in idle : /\ session'[s] \in SessionRows /\ session'[s].cur = None
                      /\ session[s].cur \in R \cup {None}
  BY <1>1, EndedRow DEF Held
<1>4. \A s \in Sessions \ idle : /\ session'[s] \in SessionRows
                                 /\ session'[s].cur = session[s].cur
                                 /\ session'[s].state = session[s].state
  BY <1>1, FlagsWritten DEF IInv, TypeOK
<1>5. \A s \in Sessions \ idle : session[s].cur \notin R
  BY <1>2, DistinctCurrents, CoordinatorAssumption
     DEF IInv, Ownership, CoordinatorAssumption
<1>6. session' \in [Sessions -> SessionRows]
  BY <1>1, <1>3, <1>4
<1>7. \A s \in Sessions :
        \/ /\ session'[s].cur = None
           /\ session[s].cur \in Attempts \ R =>
                attempt[session[s].cur].leg \notin ActiveStatuses
        \/ /\ session'[s].cur = session[s].cur /\ session[s].cur \notin R
           /\ session[s].cur # None => session'[s].state \in LiveStates
  <2> TAKE s \in Sessions
  <2>1. CASE s \in idle
    BY <2>1, <1>3, CoordinatorAssumption DEF CoordinatorAssumption
  <2>2. CASE s \notin idle
    BY <2>2, <1>4, <1>5 DEF IInv, Ownership, CurrentIsUndecided, Live
  <2> QED BY <2>1, <2>2
<1> HIDE DEF R, idle
<1> QED BY <1>1, <1>2, <1>6, <1>7, ReleaseKeeps DEF idle

LEMMA WrapUpKeeps ==
  ASSUME IInv, NEW s \in Sessions, NEW A, NEW E, Settled(s, A, E), WrapUp(s, A, E),
         UNCHANGED <<switchOn, starting, gone>>
  PROVE  IInv'
<1> DEFINE r == Renewed(Detached(session[s]))
<1>1. r \in SessionRows /\ r.cur = None
  BY DetachedRow, RenewedRow DEF IInv, TypeOK
<1>2. /\ Ended("stopped") \in SessionRows /\ Ended("stopped").cur = None
      /\ [r EXCEPT !.state = "paused"] \in SessionRows
      /\ [r EXCEPT !.state = "paused"].cur = None
  BY <1>1, EndedRow, SessionStateWritten DEF EndedStates, LiveStates
<1>3. starting' \in SUBSET Callers
  BY DEF IInv, TypeOK
<1>4. CASE /\ session' = [session EXCEPT ![s] = Ended("stopped")]
           /\ attempt' = A /\ entry' = E
  BY <1>2, <1>3, <1>4, SettleKeeps
<1>5. CASE /\ session' = [session EXCEPT ![s] = [r EXCEPT !.state = "paused"]]
           /\ attempt' = A /\ entry' = E
  BY <1>2, <1>3, <1>5, SettleKeeps
<1>6. CASE ReserveNext(s, r, A, E)
  BY <1>1, <1>3, <1>6, ReserveNextKeeps
<1> QED BY <1>4, <1>5, <1>6 DEF WrapUp

LEMMA NothingToSettle ==
  ASSUME TypeOK, NEW s \in Sessions, session[s].cur = None
  PROVE  Settled(s, attempt, entry)
  BY CoordinatorAssumption DEF TypeOK, Settled, CoordinatorAssumption

LEMMA DisposedRow ==
  ASSUME TypeOK, NEW e \in Entries, NEW out, NEW n, NEW fallback
  PROVE  Disposed(e, out, n, fallback) \in EntryRows
<1> DEFINE left ==
      CASE out \in {"no_answer", "left_voicemail"} /\ n < MaxSellerAttempts
                     -> [status |-> "queued", due |-> FALSE]
        [] out = "callback" -> [status |-> "queued", due |-> FALSE]
        [] out = "warm" -> [status |-> "handoff_pending", due |-> TRUE]
        [] out = "wrong_number" /\ fallback -> [status |-> "queued", due |-> TRUE]
        [] OTHER -> [status |-> "completed", due |-> TRUE]
<1>1. left \in [status : {"queued", "handoff_pending", "completed"}, due : BOOLEAN]
  BY DEF left
<1>2. Disposed(e, out, n, fallback) =
        [status |-> left.status, due |-> left.due,
         converted |-> entry[e].converted \/ out = "warm", count |-> entry[e].count + 1]
  BY DEF Disposed, left
<1> HIDE DEF left
<1> QED BY <1>1, <1>2 DEF TypeOK, EntryRows

LEMMA AfterRows ==
  ASSUME TypeOK, NEW a, NEW out, NEW fallback
  PROVE  /\ AfterOutcome(a, out, fallback) \in [Entries -> EntryRows]
         /\ AfterFailure(a) \in [Entries -> EntryRows]
<1>1. AfterOutcome(a, out, fallback) \in [Entries -> EntryRows]
  <2> DEFINE e == attempt[a].entry
             row == Disposed(e, out, SellerAttempts(e, attempt) + 1, fallback)
  <2>1. AfterOutcome(a, out, fallback) = [entry EXCEPT ![e] = row]
    BY DEF AfterOutcome
  <2>2. e \in Entries => row \in EntryRows
    BY DisposedRow
  <2> HIDE DEF e, row
  <2> QED BY <2>1, <2>2 DEF TypeOK
<1>2. AfterFailure(a) \in [Entries -> EntryRows]
  <2> DEFINE e == attempt[a].entry
             p == [entry[e] EXCEPT !.status = "queued"]
             row == [p EXCEPT !.due = FALSE]
  <2>1. AfterFailure(a) = [entry EXCEPT ![e] = row]
    BY DEF AfterFailure
  <2>2. e \in Entries => p \in EntryRows
    BY EntryWritten DEF TypeOK
  <2> HIDE DEF p
  <2>3. e \in Entries => row \in EntryRows
    BY <2>2, EntryWritten
  <2> HIDE DEF e, row
  <2> QED BY <2>1, <2>3 DEF TypeOK
<1> QED BY <1>1, <1>2

LEMMA DecisionSettles ==
  ASSUME TypeOK, NEW s \in Sessions, NEW a \in Attempts, AtWrapUp(s, a),
         NEW how \in {"seller", "technical"}, NEW E \in [Entries -> EntryRows]
  PROVE  Settled(s, Closed(a, how), E)
<1> DEFINE q == [attempt[a] EXCEPT !.status = how]
<1>1. /\ q \in AttemptRows
      /\ q.status = how /\ q.entry = attempt[a].entry /\ q.by = attempt[a].by
      /\ q.leg = attempt[a].leg /\ q.call = attempt[a].call /\ q.snap = attempt[a].snap
  <2>1. /\ attempt[a] \in AttemptRows
        /\ how \in {"free", "in_progress", "seller", "technical", "cancelled"}
    BY DEF TypeOK
  <2> QED BY <2>1, AttemptStatusWritten
<1>2. Closed(a, how) = [attempt EXCEPT ![a] = q]
  BY DEF Closed
<1>3. attempt[a].leg \notin ActiveStatuses /\ session[s].cur = a
  BY DEF AtWrapUp, TerminalStatuses, ActiveStatuses
<1> HIDE DEF q
<1> QED BY <1>1, <1>2, <1>3 DEF Settled, TypeOK

-----------------------------------------------------------------------------
(* Every action keeps the invariant. *)

LEMMA CallerActionsKeep ==
  ASSUME IInv, NEW s \in Sessions,
         \/ StartCommit(s) \/ Heartbeat(s) \/ HeartbeatKill(s) \/ Pause(s) \/ Resume(s)
         \/ End(s) \/ Recover(s) \/ ReserveRequest(s)
  PROVE  IInv'
<1> DEFINE r == session[s]
<1>1. /\ TypeOK /\ r \in SessionRows /\ attempt \in [Attempts -> AttemptRows]
      /\ starting \in SUBSET Callers
  BY DEF IInv, TypeOK
<1>2. r.cur # None => r.cur \in Attempts /\ attempt[r.cur].leg # "none" /\ r.state \in LiveStates
  <2> SUFFICES ASSUME r.cur # None
               PROVE  r.cur \in Attempts /\ attempt[r.cur].leg # "none" /\ r.state \in LiveStates
    OBVIOUS
  <2>1. r.cur \in Attempts
    BY <1>1 DEF SessionRows
  <2>2. attempt[r.cur].by = s /\ r.state \in LiveStates
    BY DEF IInv, Ownership, CurrentIsUndecided, Live
  <2> QED BY <2>1, <2>2, CoordinatorAssumption
           DEF IInv, Ownership, Native, CoordinatorAssumption
<1>3. r.state \in LiveStates => LET q == Reconciled(r, attempt) IN
        q \in SessionRows /\ q.cur = r.cur /\ q.state \in LiveStates
  BY <1>1, <1>2, ReconciledRow
<1>4. CASE StartCommit(s)
  <2>1. r.cur = None
    BY <1>2, <1>4 DEF StartCommit, LiveStates
  <2>2. Renewed(Readied(BlankSession)) \in SessionRows
    BY BlankRows, ReadiedRow, RenewedRow
  <2>3. Settled(s, attempt, entry)
    BY <1>1, <2>1, NothingToSettle
  <2>4. starting' \in SUBSET Callers
    BY <1>1, <1>4 DEF StartCommit
  <2> QED BY <1>4, <2>2, <2>3, <2>4, ReserveNextKeeps DEF StartCommit
<1>5. CASE Heartbeat(s)
  <2>1. r.state \in LiveStates
    BY <1>5 DEF Heartbeat, HoldsLease, Live
  <2> DEFINE q == Renewed(Reconciled(r, attempt))
  <2>2. q \in SessionRows /\ q.cur = r.cur /\ q.state \in LiveStates
    BY <1>3, <2>1, RenewedRow
  <2>3. OnlySession(s, q) /\ UNCHANGED <<switchOn, starting, gone>>
    BY <1>5 DEF Heartbeat
  <2> HIDE DEF q
  <2> QED BY <2>2, <2>3, OnlySessionKeeps
<1>6. CASE HeartbeatKill(s)
  <2>1. CASE Idle(s)
    <3>1. StopOrDrain({s}, "stopped") /\ UNCHANGED <<switchOn, starting, gone>>
      BY <1>6, <2>1 DEF HeartbeatKill
    <3> QED BY <1>1, <3>1, StopOrDrainKeeps DEF EndedStates, TypeOK
  <2>2. CASE ~Idle(s)
    <3> DEFINE p == Reconciled(r, attempt)
               x == [p EXCEPT !.stop = TRUE]
               q == Renewed(x)
    <3>1. p \in SessionRows /\ p.cur = r.cur /\ p.state \in LiveStates
      BY <1>3, <1>6 DEF HeartbeatKill, HoldsLease, Live
    <3>2. OnlySession(s, q) /\ UNCHANGED <<switchOn, starting, gone>>
      BY <1>6, <2>2 DEF HeartbeatKill
    <3> HIDE DEF p
    <3>3. x \in SessionRows /\ x.cur = r.cur /\ x.state \in LiveStates
      BY <3>1, FlagsWritten
    <3> HIDE DEF x
    <3>4. q \in SessionRows /\ q.cur = r.cur /\ q.state \in LiveStates
      BY <3>3, RenewedRow
    <3> HIDE DEF q
    <3> QED BY <3>2, <3>4, OnlySessionKeeps
  <2> QED BY <2>1, <2>2
<1>7. CASE Pause(s)
  <2> DEFINE p == [r EXCEPT !.pause = TRUE]
             x == [r EXCEPT !.state = "paused"]
  <2>1. /\ p \in SessionRows /\ p.cur = r.cur /\ p.state \in LiveStates
        /\ x \in SessionRows /\ x.cur = r.cur /\ x.state \in LiveStates
    BY <1>1, <1>7, FlagsWritten, SessionStateWritten
       DEF Pause, HoldsLease, Live, LiveStates
  <2>2. /\ OnlySession(s, Renewed(p)) \/ OnlySession(s, Renewed(x))
        /\ UNCHANGED <<switchOn, starting, gone>>
    BY <1>7 DEF Pause
  <2> HIDE DEF p, x
  <2> QED BY <2>1, <2>2, RenewedRow, OnlySessionKeeps
<1>8. CASE Resume(s)
  <2> DEFINE q == Renewed(Readied(r))
  <2>1. q \in SessionRows /\ q.cur = r.cur /\ q.state = "ready"
    BY <1>1, ReadiedRow, RenewedRow
  <2>2. /\ q.cur # None => OnlySession(s, Reconciled(q, attempt))
        /\ q.cur = None => ReserveNext(s, q, attempt, entry)
        /\ UNCHANGED <<switchOn, starting, gone>>
    BY <1>8, Zenon DEF Resume
  <2> HIDE DEF q
  <2>3. CASE r.cur # None
    <3> DEFINE x == Reconciled(q, attempt)
    <3>1. x \in SessionRows /\ x.cur = r.cur /\ x.state \in LiveStates
      BY <1>1, <1>2, <2>1, <2>3, ReconciledRow DEF LiveStates
    <3>2. OnlySession(s, x)
      BY <2>1, <2>2, <2>3
    <3> HIDE DEF x
    <3> QED BY <2>2, <3>1, <3>2, OnlySessionKeeps
  <2>4. CASE r.cur = None
    BY <1>1, <2>1, <2>2, <2>4, NothingToSettle, ReserveNextKeeps
  <2> QED BY <2>3, <2>4
<1>9. CASE End(s)
  <2>1. CASE Idle(s)
    <3>1. StopOrDrain({s}, "ended") /\ UNCHANGED <<switchOn, starting, gone>>
      BY <1>9, <2>1 DEF End
    <3> QED BY <1>1, <3>1, StopOrDrainKeeps DEF EndedStates, TypeOK
  <2>2. CASE ~Idle(s)
    <3> DEFINE x == [r EXCEPT !.stop = TRUE]
               q == Renewed(x)
    <3>1. x \in SessionRows /\ x.cur = r.cur /\ x.state \in LiveStates
      BY <1>1, <1>9, FlagsWritten DEF End, HoldsLease, Live
    <3>2. OnlySession(s, q) /\ UNCHANGED <<switchOn, starting, gone>>
      BY <1>9, <2>2 DEF End
    <3> HIDE DEF x
    <3>3. q \in SessionRows /\ q.cur = r.cur /\ q.state \in LiveStates
      BY <3>1, RenewedRow
    <3> HIDE DEF q
    <3> QED BY <3>2, <3>3, OnlySessionKeeps
  <2> QED BY <2>1, <2>2
<1>10. CASE Recover(s)
  <2> DEFINE q == Renewed(Reconciled(r, attempt))
  <2>1. q \in SessionRows /\ q.cur = r.cur /\ q.state \in LiveStates
    BY <1>3, <1>10, RenewedRow DEF Recover, Live
  <2>2. /\ \/ OnlySession(s, q)
           \/ q.cur = None /\ ReserveOne(s, q, attempt, entry)
        /\ UNCHANGED <<switchOn, starting, gone>>
    BY <1>10, Zenon DEF Recover
  <2> HIDE DEF q
  <2>3. CASE OnlySession(s, q)
    BY <2>1, <2>2, <2>3, OnlySessionKeeps
  <2>4. CASE q.cur = None /\ ReserveOne(s, q, attempt, entry)
    BY <1>1, <2>1, <2>2, <2>4, NothingToSettle, ReserveOneKeeps
  <2> QED BY <2>2, <2>3, <2>4
<1>11. CASE ReserveRequest(s)
  <2>1. r.cur = None /\ ReserveNext(s, Renewed(r), attempt, entry)
        /\ UNCHANGED <<switchOn, starting, gone>>
    BY <1>11 DEF ReserveRequest
  <2> QED BY <1>1, <2>1, RenewedRow, NothingToSettle, ReserveNextKeeps
<1> QED BY <1>4, <1>5, <1>6, <1>7, <1>8, <1>9, <1>10, <1>11

LEMMA ManagerActionsKeep ==
  ASSUME IInv, NEW s \in Sessions,
         ManagerStop(s) \/ ManagerRelease(s) \/ ManagerMarkFailed(s)
  PROVE  IInv'
<1>1. switchOn \in BOOLEAN
  BY DEF IInv, TypeOK
<1>2. CASE ManagerStop(s)
  BY <1>1, <1>2, StopOrDrainKeeps DEF ManagerStop, EndedStates
<1>3. CASE ManagerRelease(s)
  BY <1>1, <1>3, StopOrDrainKeeps DEF ManagerRelease, EndedStates
<1>4. CASE ManagerMarkFailed(s)
  <2>1. Ended("failed") \in SessionRows /\ Ended("failed").cur = None
    BY EndedRow DEF EndedStates
  <2>2. session[s].cur \in Attempts => attempt[session[s].cur].leg \notin ActiveStatuses
    BY <1>4, CoordinatorAssumption
       DEF ManagerMarkFailed, CoordinatorAssumption, TerminalStatuses, ActiveStatuses
  <2>3. OnlySession(s, Ended("failed")) /\ UNCHANGED <<switchOn, starting, gone>>
    BY <1>4 DEF ManagerMarkFailed
  <2> QED BY <2>1, <2>2, <2>3, OnlySessionKeeps
<1> QED BY <1>2, <1>3, <1>4

LEMMA WorkerKeeps ==
  ASSUME IInv, NEW s \in Sessions, WorkerPass(s)
  PROVE  IInv'
<1> DEFINE r == session[s]
<1>1. r \in SessionRows /\ switchOn \in BOOLEAN
  BY DEF IInv, TypeOK
<1>2. CASE WorkerExpiresIdle(s)
  <2>1. Ended("expired") \in SessionRows /\ Ended("expired").cur = None
    BY EndedRow DEF EndedStates
  <2>2. r.cur = None /\ OnlySession(s, Ended("expired"))
        /\ UNCHANGED <<switchOn, starting, gone>>
    BY <1>2 DEF WorkerExpiresIdle
  <2> QED BY <2>1, <2>2, OnlySessionKeeps, CoordinatorAssumption DEF CoordinatorAssumption
<1>3. ASSUME NEW a \in Attempts, WorkerKeepsWrapUp(s, a) PROVE IInv'
  <2>1. OnlySession(s, Seen(r, "wrap_up")) /\ UNCHANGED <<switchOn, starting, gone>>
    BY <1>3 DEF WorkerKeepsWrapUp
  <2>2. LET q == Seen(r, "wrap_up") IN
        q \in SessionRows /\ q.cur = r.cur /\ q.state \in LiveStates
    BY <1>1, SeenRow DEF LiveStates
  <2> QED BY <2>1, <2>2, OnlySessionKeeps
<1>4. ASSUME NEW a \in Attempts, WorkerPreserves(s, a) PROVE IInv'
  <2>1. OnlySession(s, Seen(r, "reconnecting")) /\ UNCHANGED <<switchOn, starting, gone>>
    BY <1>4 DEF WorkerPreserves
  <2>2. LET q == Seen(r, "reconnecting") IN
        q \in SessionRows /\ q.cur = r.cur /\ q.state \in LiveStates
    BY <1>1, SeenRow DEF LiveStates
  <2> QED BY <2>1, <2>2, OnlySessionKeeps
<1>5. ASSUME NEW a \in Attempts, WorkerFailsStart(s, a) PROVE IInv'
  <2> DEFINE q == Showing(attempt[a], "failed")
             x == Seen(r, "wrap_up")
  <2>1. /\ attempt' = [attempt EXCEPT ![a] = q]
        /\ session' = [session EXCEPT ![s] = x]
        /\ UNCHANGED <<entry, switchOn, starting, gone>>
        /\ r.cur = a /\ a # None
    BY <1>5 DEF WorkerFailsStart, Moved
  <2>2. /\ q \in AttemptRows
        /\ q.leg = "failed" /\ q.status = attempt[a].status /\ q.entry = attempt[a].entry
        /\ q.by = attempt[a].by /\ q.snap = attempt[a].snap
    BY ShowingRow DEF IInv, TypeOK, LegStatuses, TerminalStatuses
  <2>3. x \in SessionRows /\ x.cur = r.cur /\ x.state \in LiveStates
    BY <1>1, SeenRow DEF LiveStates
  <2>4. attempt[a].by # None
    BY <2>1, CoordinatorAssumption
       DEF IInv, Ownership, CurrentIsUndecided, CoordinatorAssumption
  <2>5. /\ session' \in [Sessions -> SessionRows]
        /\ \A t \in Sessions : /\ session'[t].cur = session[t].cur
                               /\ session[t].cur # None => session'[t].state \in LiveStates
    BY <2>1, <2>3 DEF IInv, TypeOK, Ownership, CurrentIsUndecided, Live
  <2>6. "failed" \notin ActiveStatuses
    BY DEF ActiveStatuses
  <2> HIDE DEF q
  <2> QED BY <2>1, <2>2, <2>4, <2>5, <2>6, CallMoveKeeps
<1>6. ASSUME NEW a \in Attempts, WorkerOpensGrace(s, a) PROVE IInv'
  <2>1. OnlySession(s, InGrace(r, a)) /\ UNCHANGED <<switchOn, starting, gone>>
    BY <1>6 DEF WorkerOpensGrace
  <2>2. LET q == InGrace(r, a) IN
        q \in SessionRows /\ q.cur = r.cur /\ q.state \in LiveStates
    BY <1>1, InGraceRow DEF LiveStates
  <2> QED BY <2>1, <2>2, OnlySessionKeeps
<1>7. ASSUME NEW a \in Attempts, WorkerReleases(s, a) PROVE IInv'
  BY <1>1, <1>7, StopOrDrainKeeps DEF WorkerReleases, EndedStates
<1> QED BY <1>2, <1>3, <1>4, <1>5, <1>6, <1>7 DEF WorkerPass

LEMMA TimeKeeps ==
  ASSUME IInv, NEW s \in Sessions, LeaseExpires(s) \/ HeartbeatAges(s) \/ GraceElapses(s)
  PROVE  IInv'
<1> DEFINE r == session[s]
           p == [r EXCEPT !.lease = "expired"]
           q == [r EXCEPT !.lease = "stale"]
           x == [r EXCEPT !.orphan = "over"]
<1>1. r \in SessionRows
  BY DEF IInv, TypeOK
<1>2. /\ p \in SessionRows /\ p.cur = r.cur /\ p.state = r.state
      /\ q \in SessionRows /\ q.cur = r.cur /\ q.state = r.state
      /\ x \in SessionRows /\ x.cur = r.cur /\ x.state = r.state
  BY <1>1, LeaseWritten, OrphanWritten
<1>3. /\ OnlySession(s, p) \/ OnlySession(s, q) \/ OnlySession(s, x)
      /\ UNCHANGED <<switchOn, starting, gone>>
  BY DEF LeaseExpires, HeartbeatAges, GraceElapses, OnlySession
<1>4. r.cur = None \/ r.state \in LiveStates
  BY DEF IInv, Ownership, CurrentIsUndecided, Live
<1> HIDE DEF p, q, x
<1> QED BY <1>2, <1>3, <1>4, OnlySessionKeeps, CoordinatorAssumption DEF CoordinatorAssumption

LEMMA MirroredMoveKeeps ==
  ASSUME IInv, NEW a \in Attempts, NEW q \in AttemptRows, attempt[a].by # None,
         attempt' = [attempt EXCEPT ![a] = q],
         q.status = attempt[a].status, q.by = attempt[a].by,
         q.entry = attempt[a].entry, q.snap = attempt[a].snap, q.leg # "none",
         q.leg \in ActiveStatuses => attempt[a].leg \in ActiveStatuses,
         session' = session \/ Mirror(a, attempt'),
         UNCHANGED <<entry, switchOn, starting, gone>>
  PROVE  IInv'
<1>1. attempt' \in [Attempts -> AttemptRows] /\ attempt'[a] = q
  BY DEF IInv, TypeOK
<1>2. CASE Mirror(a, attempt')
  BY <1>1, <1>2, MirrorKeeps, CallMoveKeeps
<1>3. CASE session' = session
  BY <1>3, CallMoveKeeps DEF IInv, TypeOK, Ownership, CurrentIsUndecided, Live
<1> QED BY <1>2, <1>3

(* Who works on a record or has a call is native. *)
LEMMA NativeAttempts ==
  ASSUME IInv, NEW a \in Attempts,
         \/ \E s \in Sessions : session[s].cur = a
         \/ attempt[a].leg # "none"
         \/ attempt[a].call # "none"
  PROVE  attempt[a].by # None /\ attempt[a].leg # "none"
  BY CoordinatorAssumption
     DEF CoordinatorAssumption, IInv, Ownership, CurrentIsUndecided, Native

LEMMA CallActionsKeep ==
  ASSUME IInv, NEW s \in Sessions, NEW a \in Attempts, CallStep(s, a)
  PROVE  IInv'
<1> DEFINE r == attempt[a]
<1>1. r \in AttemptRows /\ session \in [Sessions -> SessionRows]
  BY DEF IInv, TypeOK
<1>2. session[s].cur = a => r.by # None /\ r.leg # "none"
  BY NativeAttempts
<1>3. ASSUME NEW mode \in Modes, PrepareCall(s, a, mode) PROVE IInv'
  <2> DEFINE q == [r EXCEPT !.call = mode]
  <2>1. mode \in CallStages
    BY CoordinatorAssumption DEF CoordinatorAssumption, CallStages
  <2>2. /\ q \in AttemptRows /\ q.status = r.status /\ q.by = r.by /\ q.entry = r.entry
        /\ q.snap = r.snap /\ q.leg = r.leg
    BY <1>1, <2>1, CallWritten
  <2>3. /\ attempt' = [attempt EXCEPT ![a] = q] /\ session' = session
        /\ UNCHANGED <<entry, switchOn, starting, gone>> /\ session[s].cur = a
    BY <1>3 DEF PrepareCall, MayCall
  <2> HIDE DEF q
  <2> QED BY <1>2, <2>2, <2>3, MirroredMoveKeeps
<1>4. CASE Dispatch(s, a)
  <2> DEFINE q == [r EXCEPT !.call = "dispatching"]
  <2>1. /\ q \in AttemptRows /\ q.status = r.status /\ q.by = r.by /\ q.entry = r.entry
        /\ q.snap = r.snap /\ q.leg = r.leg
    BY <1>1, CallWritten DEF CallStages
  <2>2. /\ attempt' = [attempt EXCEPT ![a] = q] /\ session' = session
        /\ UNCHANGED <<entry, switchOn, starting, gone>> /\ session[s].cur = a
    BY <1>4 DEF Dispatch, MayCall
  <2> HIDE DEF q
  <2> QED BY <1>2, <2>1, <2>2, MirroredMoveKeeps
<1>5. CASE Place(s, a)
  <2> DEFINE q == Placed(r, "dialing")
  <2>1. /\ q \in AttemptRows /\ q.status = r.status /\ q.by = r.by /\ q.entry = r.entry
        /\ q.snap = r.snap /\ q.leg = "dialing"
    BY <1>1, PlacedRow DEF LegStatuses, ActiveStatuses
  <2>2. /\ attempt' = [attempt EXCEPT ![a] = q] /\ Mirror(a, attempt')
        /\ UNCHANGED <<entry, switchOn, starting, gone>>
        /\ session[s].cur = a /\ r.leg \in ActiveStatuses
    BY <1>5 DEF Place, MayCall, ActiveStatuses
  <2> HIDE DEF q
  <2> QED BY <1>2, <2>1, <2>2, MirroredMoveKeeps
<1>6. CASE Abandon(s, a)
  <2> DEFINE p == [session[s] EXCEPT !.cur = None]
             q == Reconciled(p, attempt)
  <2>1. p \in SessionRows /\ p.cur = None /\ p.state \in LiveStates
    BY <1>1, <1>6, CurWritten DEF Abandon, IInv, Ownership, CurrentIsUndecided, Live
  <2>2. /\ Release({a}) /\ session' = [session EXCEPT ![s] = q]
        /\ UNCHANGED <<switchOn, starting, gone>> /\ session[s].cur = a
    BY <1>6 DEF Abandon
  <2> HIDE DEF p
  <2>3. q \in SessionRows /\ q.cur = None
    BY <2>1, ReconciledRow DEF IInv, TypeOK
  <2> HIDE DEF q
  <2>4. session' \in [Sessions -> SessionRows] /\ session'[s].cur = None
        /\ \A t \in Sessions : t # s => session'[t] = session[t]
    BY <1>1, <2>2, <2>3
  <2>5. \A t \in Sessions :
          \/ /\ session'[t].cur = None
             /\ session[t].cur \in Attempts \ {a} =>
                  attempt[session[t].cur].leg \notin ActiveStatuses
          \/ /\ session'[t].cur = session[t].cur /\ session[t].cur \notin {a}
             /\ session[t].cur # None => session'[t].state \in LiveStates
    BY <2>2, <2>4 DEF IInv, Ownership, CurrentIsUndecided, Live, Abandon
  <2>6. switchOn \in BOOLEAN
    BY DEF IInv, TypeOK
  <2> QED BY <2>2, <2>4, <2>5, <2>6, ReleaseKeeps
<1>7. CASE Cancel(s, a) \/ ManagerCancel(s, a)
  <2> DEFINE q == BeingCancelled(r)
  <2>1. /\ q \in AttemptRows /\ q.status = r.status /\ q.by = r.by /\ q.entry = r.entry
        /\ q.snap = r.snap /\ q.leg = "cancelling"
    BY <1>1, BeingCancelledRow
  <2>2. /\ attempt' = [attempt EXCEPT ![a] = q]
        /\ UNCHANGED <<entry, switchOn, starting, gone>>
        /\ session[s].cur = a /\ r.leg \in ActiveStatuses
    BY <1>7 DEF Cancel, ManagerCancel, Cancelling, ActiveStatuses
  <2> HIDE DEF q
  <2>3. CASE Cancel(s, a)
    BY <1>2, <2>1, <2>2, <2>3, MirroredMoveKeeps DEF Cancel
  <2>4. CASE ManagerCancel(s, a)
    <3> DEFINE x == [session[s] EXCEPT !.stop = TRUE]
    <3>1. x \in SessionRows /\ x.cur = session[s].cur /\ x.state = session[s].state
      BY <1>1, FlagsWritten
    <3>2. session' = [session EXCEPT ![s] = x]
      BY <2>4 DEF ManagerCancel
    <3> HIDE DEF x
    <3>3. /\ session' \in [Sessions -> SessionRows]
          /\ \A t \in Sessions :
               /\ session'[t].cur = session[t].cur
               /\ session[t].cur # None => session'[t].state \in LiveStates
      BY <1>1, <3>1, <3>2 DEF IInv, Ownership, CurrentIsUndecided, Live
    <3> QED BY <1>2, <2>1, <2>2, <3>3, CallMoveKeeps
  <2> QED BY <1>7, <2>3, <2>4
<1>8. ASSUME NEW out \in Said, NEW fallback \in BOOLEAN, CompleteSeller(s, a, out, fallback)
      PROVE  IInv'
  <2>1. Settled(s, Closed(a, "seller"), AfterOutcome(a, out, fallback))
    BY <1>8, AfterRows, DecisionSettles DEF CompleteSeller, IInv
  <2> QED BY <1>8, <2>1, WrapUpKeeps DEF CompleteSeller
<1>9. CASE CompleteTechnical(s, a)
  <2>1. Settled(s, Closed(a, "technical"), AfterFailure(a))
    BY <1>9, AfterRows, DecisionSettles DEF CompleteTechnical, IInv
  <2> QED BY <1>9, <2>1, WrapUpKeeps DEF CompleteTechnical
<1> QED BY <1>3, <1>4, <1>5, <1>6, <1>7, <1>8, <1>9 DEF CallStep

(* A transaction that writes an attempt no session works on, by hand.      *)
LEMMA ManualMoveKeeps ==
  ASSUME IInv, NEW a \in Attempts, NEW q \in AttemptRows,
         \A s \in Sessions : session[s].cur # a,
         q.by = None, q.leg = "none", q.call = "none",
         q.status = "in_progress" => q.entry \in Entries,
         attempt' = [attempt EXCEPT ![a] = q], entry' \in [Entries -> EntryRows],
         UNCHANGED <<session, switchOn, starting, gone>>
  PROVE  IInv'
<1>1. TypeOK'
  BY DEF IInv, TypeOK
<1>2. attempt'[a] = q /\ \A b \in Attempts : b # a => attempt'[b] = attempt[b]
  BY DEF IInv, TypeOK
<1>3. \A b \in Attempts : Carries(b) \/ attempt'[b].leg \notin ActiveStatuses
  BY <1>2 DEF Carries, ActiveStatuses
<1>4. \A s \in Sessions : session[s].cur # None =>
        Carries(session[s].cur) /\ session'[s].state \in LiveStates
  BY <1>2 DEF Carries, IInv, TypeOK, SessionRows, Ownership, CurrentIsUndecided, Live
<1>5. OpenLegHeld' /\ CurrentIsUndecided'
  BY <1>3, <1>4, OwnershipKept, CoordinatorAssumption
     DEF IInv, Ownership, CoordinatorAssumption
<1>6. Native'
  BY <1>2 DEF IInv, Ownership, Native
<1> QED BY <1>1, <1>5, <1>6 DEF IInv, Ownership

LEMMA AttemptActionsKeep ==
  ASSUME IInv, NEW a \in Attempts, AttemptStep(a)
  PROVE  IInv'
<1> DEFINE r == attempt[a]
<1>1. r \in AttemptRows
  BY DEF IInv, TypeOK
<1>2. r.leg # "none" \/ r.call # "none" => r.by # None /\ r.leg # "none"
  BY NativeAttempts
<1>3. CASE StartFails(a)
  <2> DEFINE q == Showing(r, "failed")
  <2>1. /\ q \in AttemptRows /\ q.status = r.status /\ q.by = r.by /\ q.entry = r.entry
        /\ q.snap = r.snap /\ q.leg = "failed"
    BY <1>1, ShowingRow DEF LegStatuses, TerminalStatuses
  <2>2. /\ attempt' = [attempt EXCEPT ![a] = q] /\ Mirror(a, attempt')
        /\ UNCHANGED <<entry, switchOn, starting, gone>>
        /\ r.leg # "none" /\ "failed" \notin ActiveStatuses
    BY <1>3 DEF StartFails, Moved, ActiveStatuses
  <2> HIDE DEF q
  <2> QED BY <1>2, <2>1, <2>2, MirroredMoveKeeps
<1>4. CASE CancelForgotten(a)
  <2> DEFINE q == [r EXCEPT !.undo = "none"]
  <2>1. /\ q \in AttemptRows /\ q.status = r.status /\ q.by = r.by /\ q.entry = r.entry
        /\ q.snap = r.snap /\ q.leg = r.leg /\ q.call = r.call
    BY <1>1, UndoWritten
  <2>2. /\ attempt' = [attempt EXCEPT ![a] = q]
        /\ UNCHANGED <<session, entry, switchOn, starting, gone>>
    BY <1>4 DEF CancelForgotten
  <2> HIDE DEF q
  <2>3. CASE r.by # None
    <3>1. r.leg # "none"
      BY <2>3 DEF IInv, Ownership, Native
    <3> QED BY <2>1, <2>2, <2>3, <3>1, MirroredMoveKeeps
  <2>4. CASE r.by = None
    <3>1. /\ \A s \in Sessions : session[s].cur # a
          /\ r.leg = "none" /\ r.call = "none"
          /\ r.status = "in_progress" => r.entry \in Entries
      BY <2>4, NativeAttempts DEF IInv, Ownership, Native
    <3>2. entry' \in [Entries -> EntryRows]
      BY <2>2 DEF IInv, TypeOK
    <3> QED BY <2>1, <2>2, <2>4, <3>1, <3>2, ManualMoveKeeps
  <2> QED BY <2>3, <2>4
<1>5. ASSUME NEW mirror \in BOOLEAN, CancelRefused(a, mirror) PROVE IInv'
  <2> DEFINE q == CancelUndone(r)
  <2>1. /\ attempt' = [attempt EXCEPT ![a] = q]
        /\ session' = session \/ Mirror(a, attempt')
        /\ UNCHANGED <<entry, switchOn, starting, gone>> /\ r.undo # "none"
    BY <1>5 DEF CancelRefused
  <2>2. CASE r.by # None
    <3>1. r.leg # "none"
      BY <2>2 DEF IInv, Ownership, Native
    <3>2. /\ q \in AttemptRows /\ q.status = r.status /\ q.by = r.by /\ q.entry = r.entry
          /\ q.snap = r.snap /\ q.leg = IF r.leg = "cancelling" THEN r.undo ELSE r.leg
      BY <1>1, <2>1, <3>1, CancelUndoneRow
    <3>3. q.leg # "none" /\ (q.leg \in ActiveStatuses => r.leg \in ActiveStatuses)
      BY <2>1, <3>1, <3>2 DEF ActiveStatuses
    <3> HIDE DEF q
    <3> QED BY <2>1, <2>2, <3>2, <3>3, MirroredMoveKeeps
  <2>3. CASE r.by = None
    <3> DEFINE p == [r EXCEPT !.undo = "none"]
    <3>1. /\ \A s \in Sessions : session[s].cur # a
          /\ r.leg = "none" /\ r.call = "none"
          /\ r.status = "in_progress" => r.entry \in Entries
      BY <2>3, NativeAttempts DEF IInv, Ownership, Native
    <3>2. /\ p \in AttemptRows /\ p.status = r.status /\ p.by = None /\ p.entry = r.entry
          /\ p.leg = "none" /\ p.call = "none"
      BY <1>1, <2>3, <3>1, UndoWritten
    <3>3. q = [p EXCEPT !.leg = IF p.leg = "cancelling" THEN r.undo ELSE p.leg]
      BY DEF p, CancelUndone
    <3> HIDE DEF p
    <3>4. q = p
      BY <3>2, <3>3 DEF AttemptRows
    <3>5. session' = session
      BY <1>5, <3>1 DEF CancelRefused
    <3>6. entry' \in [Entries -> EntryRows]
      BY <2>1 DEF IInv, TypeOK
    <3> HIDE DEF q
    <3> QED BY <2>1, <3>1, <3>2, <3>4, <3>5, <3>6, ManualMoveKeeps
  <2> QED BY <2>2, <2>3
<1>6. ASSUME NEW reported \in {"initiated", "ringing"}, LateRootCallback(a, reported)
      PROVE  IInv'
  <2> DEFINE target == CallbackTarget("queued", reported, FALSE)
             v == IF target = "none" THEN "queued" ELSE target
             q == Placed(r, v)
  <2>1. v \in LegStatuses
    BY TwilioTargets DEF v, LegStatuses, ActiveStatuses
  <2>2. /\ attempt' = [attempt EXCEPT ![a] = q]
        /\ session' = session \/ Mirror(a, attempt')
        /\ UNCHANGED <<entry, switchOn, starting, gone>>
        /\ r.leg = "queued"
    BY <1>6 DEF LateRootCallback
  <2> HIDE DEF v
  <2>3. /\ q \in AttemptRows /\ q.status = r.status /\ q.by = r.by /\ q.entry = r.entry
        /\ q.snap = r.snap /\ q.leg = v
    BY <1>1, <2>1, PlacedRow
  <2>4. v # "none" /\ r.leg \in ActiveStatuses
    BY <2>1, <2>2 DEF LegStatuses, ActiveStatuses, TerminalStatuses
  <2> HIDE DEF q
  <2> QED BY <1>2, <2>2, <2>3, <2>4, MirroredMoveKeeps
<1>7. ASSUME NEW x \in TwilioStatuses, ProviderEvent(a, FromTwilio[x]) PROVE IInv'
  <2> DEFINE v == FromTwilio[x]
             q == Showing(r, v)
  <2>1. v \in LegStatuses
    BY TwilioTargets
  <2>2. /\ attempt' = [attempt EXCEPT ![a] = q] /\ Mirror(a, attempt')
        /\ UNCHANGED <<entry, switchOn, starting, gone>>
        /\ r.call = "placed" /\ r.leg \notin TerminalStatuses
    BY <1>7 DEF ProviderEvent, Moved, Accepts
  <2> HIDE DEF v
  <2>3. /\ q \in AttemptRows /\ q.status = r.status /\ q.by = r.by /\ q.entry = r.entry
        /\ q.snap = r.snap /\ q.leg = v
    BY <1>1, <2>1, ShowingRow
  <2>4. r.by # None /\ r.leg \in ActiveStatuses /\ v # "none"
    BY <1>1, <1>2, <2>1, <2>2 DEF AttemptRows, LegStatuses, ActiveStatuses, TerminalStatuses
  <2> HIDE DEF q
  <2> QED BY <2>2, <2>3, <2>4, MirroredMoveKeeps
<1>8. ASSUME NEW out \in Said, NEW fallback \in BOOLEAN, CompleteManual(a, out, fallback)
      PROVE  IInv'
  <2> DEFINE q == [r EXCEPT !.status = "seller"]
  <2>1. /\ attempt' = [attempt EXCEPT ![a] = q]
        /\ UNCHANGED <<session, switchOn, starting, gone>> /\ r.by = None
    BY <1>8 DEF CompleteManual, Closed
  <2>2. /\ q \in AttemptRows /\ q.status = "seller" /\ q.by = r.by
        /\ q.leg = r.leg /\ q.call = r.call
    BY <1>1, AttemptStatusWritten
  <2>3. /\ \A s \in Sessions : session[s].cur # a
        /\ r.leg = "none" /\ r.call = "none"
    BY <2>1, NativeAttempts DEF IInv, Ownership, Native
  <2>4. entry' \in [Entries -> EntryRows]
    BY <1>8, AfterRows DEF CompleteManual, IInv
  <2> HIDE DEF q
  <2> QED BY <2>1, <2>2, <2>3, <2>4, ManualMoveKeeps
<1> QED BY <1>3, <1>4, <1>5, <1>6, <1>7, <1>8 DEF AttemptStep

(* A transaction that touches neither a session nor an attempt. *)
LEMMA ElsewhereKeeps ==
  ASSUME IInv, entry' \in [Entries -> EntryRows], switchOn' \in BOOLEAN,
         starting' \in SUBSET Callers, gone' \in SUBSET Leavers,
         UNCHANGED <<session, attempt>>
  PROVE  IInv'
<1>1. TypeOK'
  BY DEF IInv, TypeOK
<1>2. OpenLegHeld' /\ CurrentIsUndecided' /\ Native'
  BY DEF IInv, Ownership, OpenLegHeld, Open, Live, CurrentIsUndecided, Native
<1> QED BY <1>1, <1>2 DEF IInv, Ownership

LEMMA EntryActionsKeep ==
  ASSUME IInv, NEW e \in Entries, EntryStep(e)
  PROVE  IInv'
<1>1. ASSUME NEW a \in Attempts, StartManual(e, a) PROVE IInv'
  <2> DEFINE q == OpenedByHand(e)
  <2>1. /\ q \in AttemptRows /\ q.entry = e /\ q.by = None /\ q.leg = "none"
        /\ q.call = "none"
    BY OpenedByHandRow
  <2>2. /\ attempt' = [attempt EXCEPT ![a] = q]
        /\ UNCHANGED <<session, switchOn, starting, gone>>
        /\ attempt[a].status = "free"
    BY <1>1 DEF StartManual
  <2>3. entry' \in [Entries -> EntryRows]
    BY <1>1, EntryWritten DEF StartManual, IInv, TypeOK
  <2>4. \A s \in Sessions : session[s].cur # a
    BY <2>2, CoordinatorAssumption
       DEF IInv, Ownership, CurrentIsUndecided, CoordinatorAssumption
  <2> HIDE DEF q
  <2> QED BY <2>1, <2>2, <2>3, <2>4, ManualMoveKeeps
<1>2. ASSUME NEW d \in {"completed", "needs_correction"}, DecideHandoff(e, d) PROVE IInv'
  <2>1. entry' \in [Entries -> EntryRows]
    BY <1>2, EntryWritten DEF DecideHandoff, IInv, TypeOK
  <2> QED BY <1>2, <2>1, ElsewhereKeeps DEF DecideHandoff, IInv, TypeOK
<1>3. CASE EntryFallsDue(e)
  <2>1. entry' \in [Entries -> EntryRows]
    BY <1>3, EntryWritten DEF EntryFallsDue, IInv, TypeOK
  <2> QED BY <1>3, <2>1, ElsewhereKeeps DEF EntryFallsDue, IInv, TypeOK
<1> QED BY <1>1, <1>2, <1>3 DEF EntryStep

LEMMA RollbackKeeps ==
  ASSUME IInv, NEW c \in Callers, NEW drain \in BOOLEAN, PilotRollback(c, drain)
  PROVE  IInv'
<1> DEFINE scope == {s \in Sessions : CallerOf[s] = c /\ Live(s)}
           open == {s \in scope : session[s].cur \in Open(attempt)}
           unsafe == {s \in open : ~ /\ attempt[session[s].cur].leg = "queued"
                                     /\ attempt[session[s].cur].call
                                          \in {"none", "browserPrepared"}}
           R == Held(open \ unsafe)
<1>1. /\ Release(R) /\ switchOn' = FALSE /\ UNCHANGED <<starting, gone>>
      /\ session' = [s \in Sessions |->
           IF s \in unsafe THEN [session[s] EXCEPT !.stop = TRUE]
           ELSE IF s \in scope THEN Ended("stopped")
           ELSE session[s]]
  BY DEF PilotRollback
<1>2. R \in SUBSET Attempts /\ \A a \in R : \E s \in open \ unsafe : session[s].cur = a
  BY HeldAttempts DEF IInv
<1>3. \A s \in scope \ unsafe :
        /\ session'[s] \in SessionRows /\ session'[s].cur = None
        /\ session[s].cur \in Attempts \ R =>
             attempt[session[s].cur].leg \notin ActiveStatuses
  <2> TAKE s \in scope \ unsafe
  <2>1. session'[s] = Ended("stopped")
    BY <1>1
  <2>2. session[s].cur \in Attempts \ R => s \notin open
    BY CoordinatorAssumption DEF Held, CoordinatorAssumption
  <2> QED BY <2>1, <2>2, EndedRow DEF Open, EndedStates
<1>4. \A s \in (Sessions \ scope) \cup unsafe :
        /\ session'[s] \in SessionRows
        /\ session'[s].cur = session[s].cur /\ session'[s].state = session[s].state
  BY <1>1, FlagsWritten DEF IInv, TypeOK
<1>5. \A s \in (Sessions \ scope) \cup unsafe : session[s].cur \notin R
  BY <1>2, DistinctCurrents, CoordinatorAssumption
     DEF IInv, Ownership, CoordinatorAssumption
<1>6. session' \in [Sessions -> SessionRows]
  BY <1>1, <1>3, <1>4
<1>7. \A s \in Sessions :
        \/ /\ session'[s].cur = None
           /\ session[s].cur \in Attempts \ R =>
                attempt[session[s].cur].leg \notin ActiveStatuses
        \/ /\ session'[s].cur = session[s].cur /\ session[s].cur \notin R
           /\ session[s].cur # None => session'[s].state \in LiveStates
  BY <1>3, <1>4, <1>5 DEF IInv, Ownership, CurrentIsUndecided, Live
<1> HIDE DEF R, unsafe, open, scope
<1> QED BY <1>1, <1>2, <1>6, <1>7, ReleaseKeeps DEF unsafe, open, scope

LEMMA InvariantStep == IInv /\ [Next]_vars => IInv'
<1> SUFFICES ASSUME IInv, [Next]_vars PROVE IInv'
  OBVIOUS
<1>1. CASE UNCHANGED vars
  BY <1>1, ElsewhereKeeps DEF vars, IInv, TypeOK
<1>2. ASSUME NEW s \in Sessions, SessionStep(s) PROVE IInv'
  BY <1>2, CallerActionsKeep, ManagerActionsKeep, WorkerKeeps, TimeKeeps DEF SessionStep
<1>3. ASSUME NEW c \in Callers, CallerStep(c) PROVE IInv'
  <2>1. CASE StartRead(c) \/ StartRefused(c) \/ CallerLeaves(c)
    BY <2>1, ElsewhereKeeps DEF StartRead, StartRefused, CallerLeaves, IInv, TypeOK
  <2>2. ASSUME NEW drain \in BOOLEAN, PilotRollback(c, drain) PROVE IInv'
    BY <2>2, RollbackKeeps
  <2> QED BY <1>3, <2>1, <2>2 DEF CallerStep
<1>4. CASE SwitchOn
  BY <1>4, ElsewhereKeeps DEF SwitchOn, IInv, TypeOK
<1>5. CASE SwitchOff
  <2> DEFINE S == {s \in Sessions : Live(s)}
  <2>1. StopOrDrain(S, "stopped") /\ switchOn' \in BOOLEAN /\ UNCHANGED <<starting, gone>>
    BY <1>5 DEF SwitchOff
  <2>2. S \in SUBSET Sessions
    OBVIOUS
  <2> HIDE DEF S
  <2> QED BY <2>1, <2>2, StopOrDrainKeeps DEF EndedStates
<1> QED BY <1>1, <1>2, <1>3, <1>4, <1>5, CallActionsKeep, AttemptActionsKeep, EntryActionsKeep
    DEF Next

LEMMA InvariantInit == Init => IInv
<1> SUFFICES ASSUME Init PROVE IInv
  OBVIOUS
<1>1. TypeOK
  <2>1. session \in [Sessions -> SessionRows] /\ attempt \in [Attempts -> AttemptRows]
    BY BlankRows DEF Init
  <2>2. entry \in [Entries -> EntryRows]
    BY DEF Init, EntryRows
  <2> QED BY <2>1, <2>2 DEF Init, TypeOK
<1>2. OpenLegHeld /\ CurrentIsUndecided /\ Native
  BY BlankRows DEF Init, OpenLegHeld, Open, CurrentIsUndecided, Native, ActiveStatuses
<1> QED BY <1>1, <1>2 DEF IInv, Ownership

(* The inductive invariant holds in every reachable state. *)
THEOREM Invariance == Spec => []IInv
  BY InvariantInit, InvariantStep, PTL DEF Spec

(* Every row of the dialer's tables keeps its type. *)
THEOREM TypeCorrect == Spec => []TypeOK
<1>1. IInv => TypeOK
  BY DEF IInv
<1> QED BY <1>1, Invariance, PTL

(* Every open call leg is held by the live session that reserved it: no    *)
(* sequence of kills, recoveries, stops and callbacks orphans a call.      *)
THEOREM NoOrphanLeg == Spec => []OpenLegHeld
<1>1. IInv => OpenLegHeld
  BY DEF IInv, Ownership
<1> QED BY <1>1, Invariance, PTL

(* The record a session works on is its own and undecided. *)
THEOREM NoDoubleDisposition == Spec => []CurrentIsUndecided
<1>1. IInv => CurrentIsUndecided
  BY DEF IInv, Ownership
<1> QED BY <1>1, Invariance, PTL

-----------------------------------------------------------------------------
(* How a step treats one attempt, and the line. *)

ReleasedUndialed(a) ==
  attempt[a].status = "in_progress" /\ attempt'[a].status = "cancelled"
    => attempt[a].call \notin {"dispatching", "placed"}

KeepsToLine ==
  Open(attempt') \subseteq Open(attempt) \/ Cardinality(Open(attempt')) <= LineLimit

Careful == KeepsToLine /\ \A a \in Attempts : ReleasedUndialed(a)

LEMMA UntouchedCalls ==
  ASSUME UNCHANGED attempt
  PROVE  Careful
  BY DEF Careful, KeepsToLine, ReleasedUndialed

(* A transaction that writes one attempt and does not cancel it. *)
LEMMA RowStep ==
  ASSUME TypeOK, NEW a \in Attempts, NEW q,
         attempt' = [attempt EXCEPT ![a] = q],
         q.status = attempt[a].status \/ q.status # "cancelled",
         q.leg \in ActiveStatuses => attempt[a].leg \in ActiveStatuses
  PROVE  Careful
<1>1. attempt'[a] = q /\ \A b \in Attempts : b # a => attempt'[b] = attempt[b]
  BY DEF TypeOK
<1>2. KeepsToLine
  BY <1>1 DEF KeepsToLine, Open
<1>3. \A b \in Attempts : ReleasedUndialed(b)
  BY <1>1 DEF ReleasedUndialed
<1> QED BY <1>2, <1>3 DEF Careful

(* A transaction that gives back reservations the provider never saw. *)
LEMMA ReleaseStep ==
  ASSUME TypeOK, NEW R \in SUBSET Attempts, Release(R),
         \A a \in R : attempt[a].call \notin {"dispatching", "placed"}
  PROVE  Careful
<1>1. \A a \in R : attempt'[a] = Cancelled(attempt[a])
  BY DEF Release, Released
<1>2. \A a \in R : attempt'[a].leg \notin ActiveStatuses
  BY <1>1, CancelledRow DEF TypeOK, ActiveStatuses
<1>3. \A a \in Attempts \ R : attempt'[a] = attempt[a]
  BY DEF Release, Released
<1>4. KeepsToLine
  BY <1>2, <1>3 DEF KeepsToLine, Open
<1>5. \A a \in Attempts : ReleasedUndialed(a)
  BY <1>3 DEF ReleasedUndialed
<1> QED BY <1>4, <1>5 DEF Careful

LEMMA StopOrDrainStep ==
  ASSUME TypeOK, NEW S \in SUBSET Sessions, NEW how, StopOrDrain(S, how)
  PROVE  Careful
<1> DEFINE idle == {s \in S : Idle(s)}
           R == Held(idle)
<1>1. Release(R)
  BY DEF StopOrDrain
<1>2. R \in SUBSET Attempts /\ \A a \in R : a # None /\ \E s \in idle : session[s].cur = a
  BY HeldAttempts DEF Held
<1>3. \A a \in R : attempt[a].call = "none"
  BY <1>2 DEF Idle, Untouched
<1> HIDE DEF R, idle
<1> QED BY <1>1, <1>2, <1>3, ReleaseStep

(* A transaction that has decided the record session s worked on, if any,  *)
(* and reserves the next one: the line had room for it.                    *)
LEMMA ReserveOneStep ==
  ASSUME IInv, NEW s \in Sessions, NEW A, NEW E, Settled(s, A, E), NEW r,
         ReserveOne(s, r, A, E),
         \A a \in Attempts : A[a].status # attempt[a].status => A[a].status # "cancelled"
  PROVE  Careful
<1>1. PICK a \in Attempts, e \in Entries :
        /\ A[a].status = "free" /\ E[e].status \in {"queued", "needs_correction"}
        /\ attempt' = [A EXCEPT ![a] = Reserved(s, e, E[e])]
  BY DEF ReserveOne, Candidates
<1>2. Reserved(s, e, E[e]).status = "in_progress"
  BY <1>1, ReservedRow DEF Settled
<1>3. /\ attempt'[a] = Reserved(s, e, E[e])
      /\ \A b \in Attempts : b # a => attempt'[b] = A[b]
  BY <1>1 DEF Settled
<1>4. \A b \in Attempts : ReleasedUndialed(b)
  BY <1>2, <1>3 DEF ReleasedUndialed
<1>5. Cardinality(Open(attempt')) <= LineLimit
  <2>1. IsFiniteSet(Open(A)) /\ Cardinality(Open(A)) \in Nat
    BY FS_Subset, FS_CardinalityType, CoordinatorAssumption
       DEF Open, CoordinatorAssumption
  <2>2. Cardinality(Open(A)) < LineLimit /\ LineLimit \in Nat
    BY CoordinatorAssumption DEF ReserveOne, LineFree, CoordinatorAssumption
  <2> DEFINE S == Open(A) \cup {a}
  <2>3. Open(attempt') \in SUBSET S
    BY <1>3 DEF Open
  <2>4. /\ IsFiniteSet(S)
        /\ Cardinality(S) = IF a \in Open(A) THEN Cardinality(Open(A))
                                             ELSE Cardinality(Open(A)) + 1
    BY <2>1, FS_AddElement, Zenon
  <2> HIDE DEF S
  <2>5. /\ Cardinality(Open(attempt')) <= Cardinality(S)
        /\ Cardinality(Open(attempt')) \in Nat
    BY <2>3, <2>4, FS_Subset, FS_CardinalityType
  <2> QED BY <2>1, <2>2, <2>4, <2>5
<1> QED BY <1>4, <1>5 DEF Careful, KeepsToLine

(* A transaction that only decides it. *)
LEMMA SettleStep ==
  ASSUME NEW s \in Sessions, NEW A, NEW E, Settled(s, A, E), attempt' = A,
         \A a \in Attempts : A[a].status # attempt[a].status => A[a].status # "cancelled"
  PROVE  Careful
  BY DEF Careful, KeepsToLine, ReleasedUndialed, Open, Settled

LEMMA ReserveNextStep ==
  ASSUME IInv, NEW s \in Sessions, NEW A, NEW E, Settled(s, A, E), NEW r,
         ReserveNext(s, r, A, E),
         \A a \in Attempts : A[a].status # attempt[a].status => A[a].status # "cancelled"
  PROVE  Careful
<1>1. CASE ReserveOne(s, r, A, E)
  BY <1>1, ReserveOneStep
<1>2. CASE QueueExhausted(s, A, E)
  BY <1>2, SettleStep DEF QueueExhausted
<1> QED BY <1>1, <1>2 DEF ReserveNext

LEMMA WrapUpStep ==
  ASSUME IInv, NEW s \in Sessions, NEW A, NEW E, Settled(s, A, E), WrapUp(s, A, E),
         \A a \in Attempts : A[a].status # attempt[a].status => A[a].status # "cancelled"
  PROVE  Careful
<1> DEFINE r == Renewed(Detached(session[s]))
<1>1. attempt' = A \/ ReserveNext(s, r, A, E)
  BY DEF WrapUp
<1> HIDE DEF r
<1> QED BY <1>1, SettleStep, ReserveNextStep
-----------------------------------------------------------------------------
(* Every action is careful. *)

LEMMA SessionSteps ==
  ASSUME IInv, NEW s \in Sessions, SessionStep(s)
  PROVE  Careful
<1> USE DEF IInv
<1>1. {s} \in SUBSET Sessions
  OBVIOUS
<1>2. (\E r : OnlySession(s, r)) \/ UNCHANGED attempt => Careful
  BY UntouchedCalls DEF OnlySession
<1>3. ASSUME session[s].cur = None, NEW r, ReserveNext(s, r, attempt, entry)
      PROVE  Careful
  BY <1>3, NothingToSettle, ReserveNextStep
<1>4. CASE StartCommit(s)
  <2>1. session[s].cur = None
    BY <1>4 DEF StartCommit, Ownership, CurrentIsUndecided, Live, LiveStates
  <2> QED BY <1>3, <1>4, <2>1 DEF StartCommit
<1>5. CASE Heartbeat(s) \/ Pause(s)
  BY <1>2, <1>5 DEF Heartbeat, Pause
<1>6. CASE HeartbeatKill(s) \/ End(s)
  BY <1>1, <1>2, <1>6, StopOrDrainStep DEF HeartbeatKill, End
<1>7. CASE Resume(s)
  <2>1. Readied(session[s]).cur = session[s].cur
    BY ReadiedRow DEF TypeOK
  <2>2. Renewed(Readied(session[s])).cur = session[s].cur
    BY <2>1, ReadiedRow, RenewedRow DEF TypeOK
  <2> DEFINE r == Renewed(Readied(session[s]))
  <2>3. r.cur = session[s].cur
    BY <2>2
  <2>4. \/ OnlySession(s, Reconciled(r, attempt))
        \/ r.cur = None /\ ReserveNext(s, r, attempt, entry)
    BY <1>7, Zenon DEF Resume
  <2> HIDE DEF r
  <2> QED BY <1>2, <1>3, <2>3, <2>4
<1>8. CASE Recover(s)
  <2> DEFINE p == Reconciled(session[s], attempt)
             r == Renewed(p)
  <2>1. OnlySession(s, r) \/ (r.cur = None /\ ReserveOne(s, r, attempt, entry))
    BY <1>8, Zenon DEF Recover
  <2>2. CASE OnlySession(s, r)
    BY <1>2, <2>2
  <2>3. CASE r.cur = None /\ ReserveOne(s, r, attempt, entry)
    <3>1. session[s].cur = None
      <4>1. session[s].cur # None => attempt[session[s].cur].leg # "none"
        BY NativeAttempts DEF TypeOK, SessionRows
      <4>2. p \in SessionRows /\ p.cur = session[s].cur
        BY <1>8, <4>1, ReconciledRow DEF Recover, Live, TypeOK
      <4> HIDE DEF p
      <4> QED BY <2>3, <4>2, RenewedRow
    <3> HIDE DEF r
    <3> QED BY <1>3, <2>3, <3>1 DEF ReserveNext
  <2> QED BY <2>1, <2>2, <2>3
<1>9. CASE ReserveRequest(s)
  BY <1>3, <1>9 DEF ReserveRequest
<1>10. CASE ManagerStop(s) \/ ManagerRelease(s)
  BY <1>1, <1>10, StopOrDrainStep DEF ManagerStop, ManagerRelease
<1>11. CASE ManagerMarkFailed(s)
  BY <1>2, <1>11 DEF ManagerMarkFailed
<1>12. CASE WorkerPass(s)
  <2>1. CASE WorkerExpiresIdle(s)
    BY <1>2, <2>1 DEF WorkerExpiresIdle
  <2>2. ASSUME NEW a \in Attempts,
               WorkerKeepsWrapUp(s, a) \/ WorkerPreserves(s, a) \/ WorkerOpensGrace(s, a)
        PROVE  Careful
    BY <1>2, <2>2 DEF WorkerKeepsWrapUp, WorkerPreserves, WorkerOpensGrace
  <2>3. ASSUME NEW a \in Attempts, WorkerFailsStart(s, a) PROVE Careful
    <3> DEFINE q == Showing(attempt[a], "failed")
    <3>1. attempt' = [attempt EXCEPT ![a] = q]
      BY <2>3 DEF WorkerFailsStart, Moved
    <3>2. q.leg = "failed" /\ q.status = attempt[a].status
      BY ShowingRow DEF TypeOK, LegStatuses, TerminalStatuses
    <3> HIDE DEF q
    <3> QED BY <3>1, <3>2, RowStep DEF ActiveStatuses
  <2>4. ASSUME NEW a \in Attempts, WorkerReleases(s, a) PROVE Careful
    BY <1>1, <2>4, StopOrDrainStep DEF WorkerReleases
  <2> QED BY <1>12, <2>1, <2>2, <2>3, <2>4 DEF WorkerPass
<1>13. CASE LeaseExpires(s) \/ HeartbeatAges(s) \/ GraceElapses(s)
  BY <1>2, <1>13 DEF LeaseExpires, HeartbeatAges, GraceElapses
<1> QED BY <1>4, <1>5, <1>6, <1>7, <1>8, <1>9, <1>10, <1>11, <1>12, <1>13
    DEF SessionStep

LEMMA CallSteps ==
  ASSUME IInv, NEW s \in Sessions, NEW a \in Attempts, CallStep(s, a)
  PROVE  Careful
<1> USE DEF IInv
<1> DEFINE r == attempt[a]
<1>1. r \in AttemptRows
  BY DEF TypeOK
<1>2. ASSUME NEW mode \in Modes, PrepareCall(s, a, mode) PROVE Careful
  <2>1. mode \in CallStages
    BY CoordinatorAssumption DEF CoordinatorAssumption, CallStages
  <2> QED BY <1>1, <1>2, <2>1, CallWritten, RowStep DEF PrepareCall
<1>3. CASE Dispatch(s, a)
  BY <1>1, <1>3, CallWritten, RowStep DEF Dispatch, CallStages
<1>4. CASE Place(s, a)
  <2> DEFINE q == Placed(r, "dialing")
  <2>1. attempt' = [attempt EXCEPT ![a] = q] /\ r.leg \in ActiveStatuses
    BY <1>4 DEF Place, MayCall, ActiveStatuses
  <2>2. q.status = r.status
    BY <1>1, PlacedRow DEF LegStatuses, ActiveStatuses
  <2> HIDE DEF q
  <2> QED BY <2>1, <2>2, RowStep
<1>5. CASE Abandon(s, a)
  <2>1. Release({a}) /\ r.call = "browserPrepared"
    BY <1>5 DEF Abandon
  <2> QED BY <2>1, ReleaseStep
<1>6. CASE Cancel(s, a) \/ ManagerCancel(s, a)
  <2> DEFINE q == BeingCancelled(r)
  <2>1. attempt' = [attempt EXCEPT ![a] = q] /\ r.leg \in ActiveStatuses
    BY <1>6 DEF Cancel, ManagerCancel, Cancelling, ActiveStatuses
  <2>2. q.status = r.status
    BY <1>1, BeingCancelledRow
  <2> HIDE DEF q
  <2> QED BY <2>1, <2>2, RowStep
<1>7. ASSUME NEW how \in {"seller", "technical"}
      PROVE  \A b \in Attempts :
               Closed(a, how)[b].status # attempt[b].status => Closed(a, how)[b].status # "cancelled"
  <2> DEFINE q == [r EXCEPT !.status = how]
  <2>1. Closed(a, how) = [attempt EXCEPT ![a] = q]
    BY DEF Closed
  <2>2. q.status = how
    BY <1>1 DEF AttemptRows
  <2> HIDE DEF q
  <2> QED BY <2>1, <2>2 DEF TypeOK
<1>8. ASSUME NEW out \in Said, NEW fallback \in BOOLEAN, CompleteSeller(s, a, out, fallback)
      PROVE  Careful
  <2>1. Settled(s, Closed(a, "seller"), AfterOutcome(a, out, fallback))
    BY <1>8, AfterRows, DecisionSettles DEF CompleteSeller
  <2>2. WrapUp(s, Closed(a, "seller"), AfterOutcome(a, out, fallback))
    BY <1>8 DEF CompleteSeller
  <2> QED BY <1>7, <2>1, <2>2, WrapUpStep
<1>9. CASE CompleteTechnical(s, a)
  <2>1. Settled(s, Closed(a, "technical"), AfterFailure(a))
    BY <1>9, AfterRows, DecisionSettles DEF CompleteTechnical
  <2>2. WrapUp(s, Closed(a, "technical"), AfterFailure(a))
    BY <1>9 DEF CompleteTechnical
  <2> QED BY <1>7, <2>1, <2>2, WrapUpStep
<1> QED BY <1>2, <1>3, <1>4, <1>5, <1>6, <1>8, <1>9 DEF CallStep

LEMMA AttemptSteps ==
  ASSUME IInv, NEW a \in Attempts, AttemptStep(a)
  PROVE  Careful
<1> USE DEF IInv
<1> DEFINE r == attempt[a]
<1>1. r \in AttemptRows
  BY DEF TypeOK
<1>2. r.leg # "none" \/ r.call # "none" => r.leg # "none"
  BY NativeAttempts
<1>3. CASE StartFails(a)
  <2> DEFINE q == Showing(r, "failed")
  <2>1. attempt' = [attempt EXCEPT ![a] = q]
    BY <1>3 DEF StartFails, Moved
  <2>2. q.leg = "failed" /\ q.status = r.status
    BY <1>1, ShowingRow DEF LegStatuses, TerminalStatuses
  <2> HIDE DEF q
  <2> QED BY <2>1, <2>2, RowStep DEF ActiveStatuses
<1>4. CASE CancelForgotten(a)
  BY <1>1, <1>4, UndoWritten, RowStep DEF CancelForgotten
<1>5. ASSUME NEW mirror \in BOOLEAN, CancelRefused(a, mirror) PROVE Careful
  <2> DEFINE p == [r EXCEPT !.undo = "none"]
             leg == IF p.leg = "cancelling" THEN r.undo ELSE p.leg
             q == [p EXCEPT !.leg = leg]
  <2>1. attempt' = [attempt EXCEPT ![a] = q]
    BY <1>5 DEF CancelRefused, CancelUndone
  <2>2. p \in AttemptRows /\ p.leg = r.leg /\ p.status = r.status
    BY <1>1, UndoWritten
  <2> HIDE DEF p
  <2>3. leg \in ActiveStatuses => r.leg \in ActiveStatuses
    BY <2>2 DEF leg, ActiveStatuses
  <2> HIDE DEF leg
  <2>4. q.leg = leg /\ q.status = r.status
    BY <2>2 DEF AttemptRows
  <2> HIDE DEF q
  <2> QED BY <2>1, <2>3, <2>4, RowStep
<1>6. ASSUME NEW reported \in {"initiated", "ringing"}, LateRootCallback(a, reported)
      PROVE  Careful
  <2> DEFINE target == CallbackTarget("queued", reported, FALSE)
             v == IF target = "none" THEN "queued" ELSE target
             q == Placed(r, v)
  <2>1. v \in LegStatuses
    BY TwilioTargets DEF v, LegStatuses, ActiveStatuses
  <2>2. attempt' = [attempt EXCEPT ![a] = q] /\ r.leg \in ActiveStatuses
    BY <1>6 DEF LateRootCallback, ActiveStatuses
  <2> HIDE DEF v
  <2>3. q.status = r.status
    BY <1>1, <2>1, PlacedRow
  <2> HIDE DEF q
  <2> QED BY <2>2, <2>3, RowStep
<1>7. ASSUME NEW x \in TwilioStatuses, ProviderEvent(a, FromTwilio[x]) PROVE Careful
  <2> DEFINE v == FromTwilio[x]
             q == Showing(r, v)
  <2>1. v \in LegStatuses
    BY TwilioTargets
  <2>2. /\ attempt' = [attempt EXCEPT ![a] = q]
        /\ r.call = "placed" /\ r.leg \notin TerminalStatuses
    BY <1>7 DEF ProviderEvent, Moved, Accepts
  <2> HIDE DEF v
  <2>3. q.status = r.status
    BY <1>1, <2>1, ShowingRow
  <2>4. r.leg \in ActiveStatuses
    BY <1>1, <1>2, <2>2 DEF AttemptRows, LegStatuses
  <2> HIDE DEF q
  <2> QED BY <2>2, <2>3, <2>4, RowStep
<1>8. ASSUME NEW out \in Said, NEW fallback \in BOOLEAN, CompleteManual(a, out, fallback)
      PROVE  Careful
  <2> DEFINE q == [r EXCEPT !.status = "seller"]
  <2>1. attempt' = [attempt EXCEPT ![a] = q]
    BY <1>8 DEF CompleteManual, Closed
  <2>2. q.status = "seller" /\ q.leg = r.leg
    BY <1>1, AttemptStatusWritten
  <2> HIDE DEF q
  <2> QED BY <2>1, <2>2, RowStep
<1> QED BY <1>3, <1>4, <1>5, <1>6, <1>7, <1>8 DEF AttemptStep

LEMMA EntrySteps ==
  ASSUME IInv, NEW e \in Entries, EntryStep(e)
  PROVE  Careful
<1>1. ASSUME NEW a \in Attempts, StartManual(e, a) PROVE Careful
  <2> DEFINE q == OpenedByHand(e)
  <2>1. q.status = "in_progress" /\ q.leg = "none"
    BY OpenedByHandRow
  <2>2. attempt' = [attempt EXCEPT ![a] = q]
    BY <1>1 DEF StartManual
  <2> HIDE DEF q
  <2> QED BY <2>1, <2>2, RowStep DEF IInv, ActiveStatuses
<1> QED BY <1>1, UntouchedCalls DEF EntryStep, DecideHandoff, EntryFallsDue

LEMMA RollbackStep ==
  ASSUME IInv, NEW c \in Callers, NEW drain \in BOOLEAN, PilotRollback(c, drain)
  PROVE  Careful
<1> DEFINE scope == {s \in Sessions : CallerOf[s] = c /\ Live(s)}
           open == {s \in scope : session[s].cur \in Open(attempt)}
           unsafe == {s \in open : ~ /\ attempt[session[s].cur].leg = "queued"
                                     /\ attempt[session[s].cur].call
                                          \in {"none", "browserPrepared"}}
           R == Held(open \ unsafe)
<1>1. Release(R)
  BY DEF PilotRollback
<1>2. R \in SUBSET Attempts /\ \A a \in R : \E s \in open \ unsafe : session[s].cur = a
  BY HeldAttempts DEF IInv
<1>3. \A a \in R : attempt[a].call \in {"none", "browserPrepared"}
  BY <1>2
<1> HIDE DEF R, unsafe, open, scope
<1> QED BY <1>1, <1>2, <1>3, ReleaseStep DEF IInv

LEMMA EveryStep == IInv /\ [Next]_vars => Careful
<1> SUFFICES ASSUME IInv, [Next]_vars PROVE Careful
  OBVIOUS
<1>1. CASE UNCHANGED vars
  BY <1>1, UntouchedCalls DEF vars
<1>2. ASSUME NEW c \in Callers, CallerStep(c) PROVE Careful
  <2>1. CASE StartRead(c) \/ StartRefused(c) \/ CallerLeaves(c)
    BY <2>1, UntouchedCalls DEF StartRead, StartRefused, CallerLeaves
  <2> QED BY <1>2, <2>1, RollbackStep DEF CallerStep
<1>3. CASE SwitchOn
  BY <1>3, UntouchedCalls DEF SwitchOn
<1>4. CASE SwitchOff
  BY <1>4, StopOrDrainStep DEF SwitchOff, IInv
<1> QED BY <1>1, <1>2, <1>3, <1>4, SessionSteps, CallSteps, AttemptSteps, EntrySteps
    DEF Next

-----------------------------------------------------------------------------
(* A reservation whose call is being dispatched or was placed is never     *)
(* cancelled and handed back to the queue: release_unstarted_reservation   *)
(* is reached only through checks that exclude it, on every path - kills,  *)
(* stops, rollback, recovery, abandonment.                                 *)
THEOREM NoReleaseAfterDispatch == Spec => NeverReleasedAfterDispatch
<1>1. Careful => \A a \in Attempts :
        attempt[a].status = "in_progress" /\ attempt'[a].status = "cancelled"
          => attempt[a].call \notin {"dispatching", "placed"}
  BY DEF Careful, ReleasedUndialed
<1> QED BY <1>1, Invariance, EveryStep, PTL DEF Spec, NeverReleasedAfterDispatch

(* The company never has more open legs than lines: a leg is opened only   *)
(* by reserve_next_locked, behind serialize_reservation_capacity, and no   *)
(* refused cancel or late callback reopens a closed one.                   *)
THEOREM LineCapacity == Spec => []CapacityRespected
<1>1. Init => CapacityRespected
  <2>1. ASSUME Init PROVE Open(attempt) = {}
    BY <2>1, BlankRows DEF Init, Open, ActiveStatuses
  <2> QED BY <2>1, FS_EmptySet, CoordinatorAssumption
          DEF CapacityRespected, CoordinatorAssumption
<1>2. CapacityRespected /\ Careful => CapacityRespected'
  <2> SUFFICES ASSUME CapacityRespected, Open(attempt') \subseteq Open(attempt)
               PROVE  Cardinality(Open(attempt')) <= LineLimit
    BY DEF CapacityRespected, Careful, KeepsToLine, Open
  <2>1. IsFiniteSet(Open(attempt))
    BY FS_Subset, CoordinatorAssumption DEF Open, CoordinatorAssumption
  <2>2. /\ Cardinality(Open(attempt')) <= Cardinality(Open(attempt))
        /\ Cardinality(Open(attempt')) \in Nat /\ Cardinality(Open(attempt)) \in Nat
    BY <2>1, FS_Subset, FS_CardinalityType
  <2> QED BY <2>2, CoordinatorAssumption DEF CapacityRespected, CoordinatorAssumption
<1> QED BY <1>1, <1>2, Invariance, EveryStep, PTL DEF Spec

-----------------------------------------------------------------------------
(* The inductive invariant: a session fits the attempts, a reconnecting    *)
(* one has no browser call prepared that could be abandoned under it, and  *)
(* a refused cancel restores an open leg only.                             *)

Fits(r, A) ==
  r.state \in LiveStates =>
    /\ r.state = "wrap_up" <=> r.cur # None /\ A[r.cur].leg \in TerminalStatuses
    /\ r.state = "paused" /\ r.cur # None => A[r.cur].leg = "queued"
    /\ r.cur = None => r.state \in {"ready", "paused"}
    /\ r.state = "reconnecting" => A[r.cur].call # "browserPrepared"

AllFit == \A s \in Sessions : Fits(session[s], attempt)

UndoOpen == \A a \in Attempts : attempt[a].undo \notin TerminalStatuses

Shown == AllFit /\ UndoOpen

(* How a step may leave a session alone.                                   *)
Kept(s) ==
  /\ session'[s].state = session[s].state /\ session'[s].cur = session[s].cur
  /\ session[s].cur # None =>
       /\ attempt'[session[s].cur].leg = attempt[session[s].cur].leg
       /\ attempt'[session[s].cur].call \in {attempt[session[s].cur].call, "placed"}

LEMMA KeptFits ==
  ASSUME AllFit, NEW s \in Sessions, Kept(s)
  PROVE  Fits(session'[s], attempt')
<1> USE DEF Kept
<1>1. CASE session[s].cur = None  BY <1>1 DEF AllFit, Fits
<1>2. CASE session[s].cur # None  BY <1>2 DEF AllFit, Fits
<1> QED BY <1>1, <1>2

LEMMA ShownKept ==
  ASSUME AllFit, \A s \in Sessions : Kept(s) \/ Fits(session'[s], attempt'),
         \A a \in Attempts : attempt'[a].undo \notin TerminalStatuses
  PROVE  Shown'
  BY KeptFits DEF Shown, AllFit, UndoOpen, Fits

-----------------------------------------------------------------------------
(* Rows. *)

LEMMA UndoRows ==
  ASSUME NEW r \in AttemptRows
  PROVE  /\ Cancelled(r).undo = r.undo
         /\ \A v \in CallStages : [r EXCEPT !.call = v].undo = r.undo
         /\ \A v : [r EXCEPT !.status = v].undo = r.undo
         /\ \A v : Showing(r, v).undo \in {"none", r.undo}
         /\ \A v : Placed(r, v).undo \in {"none", r.undo}
         /\ BeingCancelled(r).undo = IF r.leg = "cancelling" THEN r.undo ELSE r.leg
         /\ CancelUndone(r).undo = "none"
  BY DEF Cancelled, Showing, Placed, BeingCancelled, CancelUndone, AttemptRows

LEMMA NewRows ==
  ASSUME NEW s, NEW e, NEW row
  PROVE  Reserved(s, e, row).undo = "none" /\ OpenedByHand(e).undo = "none"
  BY DEF Reserved, OpenedByHand, BlankAttempt

LEMMA EndedFits ==
  ASSUME NEW how \in EndedStates, NEW A
  PROVE  Fits(Ended(how), A)
  BY EndedRow DEF Fits, LiveStates, EndedStates

LEMMA StateShown ==
  ASSUME NEW status \in LegStatuses, NEW old \in LiveStates
  PROVE  /\ StateShowing(status, old) # "reconnecting"
         /\ StateShowing(status, old) = "wrap_up" <=> status \in TerminalStatuses
         /\ StateShowing(status, old) = "paused" => status = "queued"
  BY DEF StateShowing, LegStatuses, ActiveStatuses, TerminalStatuses, LiveStates

LEMMA ReconciledFits ==
  ASSUME NEW r \in SessionRows, r.state \in LiveStates,
         NEW A \in [Attempts -> AttemptRows],
         r.cur # None => A[r.cur].leg # "none",
         r.cur = None => r.state # "reconnecting"
  PROVE  Fits(Reconciled(r, A), A)
<1>1. /\ Reconciled(r, A) \in SessionRows
      /\ Reconciled(r, A).cur = r.cur
      /\ Reconciled(r, A).state \in LiveStates
  BY ReconciledRow
<1>2. CASE r.cur = None
  <2>1. Reconciled(r, A).state \in {"ready", "paused"}
    BY <1>2 DEF Reconciled, SessionRows
  <2> QED BY <1>1, <1>2, <2>1 DEF Fits
<1>3. CASE r.cur # None
  <2>1. A[r.cur].leg \in LegStatuses
    BY <1>3 DEF SessionRows, AttemptRows
  <2>2. Reconciled(r, A).state = StateShowing(A[r.cur].leg, r.state)
    BY <1>3 DEF Reconciled, SessionRows
  <2> QED BY <1>1, <1>3, <2>1, <2>2, StateShown DEF Fits
<1> QED BY <1>2, <1>3

(* Fits asks for the state and the record only.                            *)
LEMMA SameFits ==
  ASSUME NEW r, NEW q, NEW A, Fits(r, A), q.state = r.state, q.cur = r.cur
  PROVE  Fits(q, A)
  BY DEF Fits

-----------------------------------------------------------------------------
(* Transactions. *)

LEMMA OnlySessionShows ==
  ASSUME IInv, Shown, NEW s \in Sessions, NEW x, OnlySession(s, x), Fits(x, attempt)
  PROVE  Shown'
<1>1. session'[s] = x /\ \A t \in Sessions : t # s => session'[t] = session[t]
  BY DEF OnlySession, IInv, TypeOK
<1>2. attempt' = attempt
  BY DEF OnlySession
<1>3. Fits(session'[s], attempt')
  BY <1>1, <1>2
<1>4. \A t \in Sessions : t # s => Kept(t)
  BY <1>1, <1>2 DEF Kept
<1> QED BY <1>2, <1>3, <1>4, ShownKept DEF Shown, UndoOpen

LEMMA UnchangedShows ==
  ASSUME Shown, UNCHANGED <<session, attempt>>
  PROVE  Shown'
  BY DEF Shown, AllFit, UndoOpen, Fits

(* Sessions that keep their state and record, when the attempts stay.      *)
LEMMA FlagShows ==
  ASSUME IInv, Shown, NEW s \in Sessions, NEW x, OnlySession(s, x),
         x.state = session[s].state, x.cur = session[s].cur
  PROVE  Shown'
<1>1. Fits(x, attempt)
  BY SameFits DEF Shown, AllFit
<1> QED BY <1>1, OnlySessionShows

(* Sessions give the attempts R back and end, the others keep theirs.      *)
LEMMA ReleaseShows ==
  ASSUME IInv, Shown, NEW R \in SUBSET Attempts, Release(R),
         \A s \in Sessions :
           \/ Fits(session'[s], attempt')
           \/ /\ session'[s].state = session[s].state /\ session'[s].cur = session[s].cur
              /\ session[s].cur \notin R
  PROVE  Shown'
<1>1. \A a \in Attempts : attempt'[a] = IF a \in R THEN Cancelled(attempt[a]) ELSE attempt[a]
  BY DEF Release, Released
<1>2. \A a \in Attempts : attempt'[a].undo \notin TerminalStatuses
  BY <1>1, UndoRows DEF Shown, UndoOpen, IInv, TypeOK
<1>3. \A s \in Sessions : session[s].cur \in Attempts \cup {None}
  BY DEF IInv, TypeOK, SessionRows
<1>4. \A s \in Sessions : Kept(s) \/ Fits(session'[s], attempt')
  BY <1>1, <1>3 DEF Kept
<1> QED BY <1>2, <1>4, ShownKept DEF Shown

LEMMA StopOrDrainShows ==
  ASSUME IInv, Shown, NEW S \in SUBSET Sessions, NEW how \in EndedStates, StopOrDrain(S, how)
  PROVE  Shown'
<1> DEFINE idle == {s \in S : Idle(s)}
           R == Held(idle)
<1>1. /\ Release(R)
      /\ session' = [s \in Sessions |->
           IF s \in idle THEN Ended(how)
           ELSE IF s \in S THEN [session[s] EXCEPT !.stop = TRUE]
           ELSE session[s]]
  BY DEF StopOrDrain
<1>2. R \in SUBSET Attempts /\ \A a \in R : a # None /\ \E s \in idle : session[s].cur = a
  BY HeldAttempts DEF IInv, Held
<1>3. \A s \in idle : Fits(session'[s], attempt')
  BY <1>1, EndedFits
<1>4. \A s \in Sessions \ idle :
        session'[s].cur = session[s].cur /\ session'[s].state = session[s].state
  BY <1>1, FlagsWritten DEF IInv, TypeOK
<1>5. \A s \in Sessions \ idle : session[s].cur \notin R
  BY <1>2, DistinctCurrents DEF IInv, Ownership
<1> HIDE DEF R
<1>6. \A s \in Sessions :
        \/ Fits(session'[s], attempt')
        \/ /\ session'[s].state = session[s].state /\ session'[s].cur = session[s].cur
           /\ session[s].cur \notin R
  BY <1>3, <1>4, <1>5
<1> QED BY <1>1, <1>2, <1>6, ReleaseShows

(* The rows A, E are built, and the session lets go or takes up the next.  *)
LEMMA SettleShows ==
  ASSUME IInv, Shown, NEW s \in Sessions, NEW A, NEW E, Settled(s, A, E),
         \A a \in Attempts : A[a].undo = attempt[a].undo,
         NEW x, x.cur = None, Fits(x, A),
         session' = [session EXCEPT ![s] = x], attempt' = A
  PROVE  Shown'
<1>1. session'[s] = x /\ \A t \in Sessions : t # s => session'[t] = session[t]
  BY DEF IInv, TypeOK
<1>2. \A t \in Sessions : session[t].cur \in Attempts \cup {None}
  BY DEF IInv, TypeOK, SessionRows
<1>3. \A t \in Sessions : t # s => Kept(t)
  BY <1>1, <1>2 DEF Kept, Settled
<1>4. Fits(session'[s], attempt')
  BY <1>1
<1> QED BY <1>3, <1>4, ShownKept DEF Shown, UndoOpen

LEMMA ReserveNextShows ==
  ASSUME IInv, Shown, NEW s \in Sessions, NEW A, NEW E, Settled(s, A, E),
         \A a \in Attempts : A[a].undo = attempt[a].undo,
         NEW r \in SessionRows, ReserveNext(s, r, A, E)
  PROVE  Shown'
<1>1. CASE QueueExhausted(s, A, E)
  <2>1. Ended("ended").cur = None /\ Fits(Ended("ended"), A)
    BY EndedRow, EndedFits DEF EndedStates
  <2> QED BY <1>1, <2>1, SettleShows DEF QueueExhausted
<1>2. CASE ReserveOne(s, r, A, E)
  <2>1. PICK a \in Attempts, e \in Entries :
          /\ A[a].status = "free" /\ E[e].status \in {"queued", "needs_correction"}
          /\ session' = [session EXCEPT ![s] = Carrying(r, a)]
          /\ attempt' = [A EXCEPT ![a] = Reserved(s, e, E[e])]
    BY <1>2 DEF ReserveOne, Candidates
  <2>2. Reserved(s, e, E[e]).leg = "queued" /\ Reserved(s, e, E[e]).undo = "none"
    BY <2>1, ReservedRow, NewRows DEF Settled
  <2>3. /\ attempt'[a] = Reserved(s, e, E[e])
        /\ \A b \in Attempts : b # a => attempt'[b] = A[b]
    BY <2>1 DEF Settled
  <2>4. session'[s] = Carrying(r, a) /\ \A t \in Sessions : t # s => session'[t] = session[t]
    BY <2>1 DEF IInv, TypeOK
  <2>5. Fits(session'[s], attempt')
    BY <2>2, <2>3, <2>4, CarryingRow DEF Fits, TerminalStatuses, LiveStates
  <2>6. \A t \in Sessions : t # s /\ session[t].cur # None =>
          /\ session[t].cur \in Attempts /\ session[t].cur # session[s].cur
          /\ attempt[session[t].cur].status = "in_progress"
    BY DistinctCurrents DEF IInv, TypeOK, SessionRows, Ownership, CurrentIsUndecided
  <2>7. \A t \in Sessions : t # s /\ session[t].cur # None =>
          session[t].cur # a /\ A[session[t].cur].leg = attempt[session[t].cur].leg
          /\ A[session[t].cur].call = attempt[session[t].cur].call
    BY <2>1, <2>6 DEF Settled
  <2>8. \A t \in Sessions : t # s => Kept(t)
    BY <2>3, <2>4, <2>6, <2>7 DEF Kept
  <2>9. \A b \in Attempts : attempt'[b].undo \notin TerminalStatuses
    BY <2>2, <2>3 DEF Shown, UndoOpen, TerminalStatuses
  <2> QED BY <2>5, <2>8, <2>9, ShownKept DEF Shown
<1> QED BY <1>1, <1>2 DEF ReserveNext

LEMMA WrapUpShows ==
  ASSUME IInv, Shown, NEW s \in Sessions, NEW A, NEW E, Settled(s, A, E),
         \A a \in Attempts : A[a].undo = attempt[a].undo, WrapUp(s, A, E)
  PROVE  Shown'
<1> DEFINE r == Renewed(Detached(session[s]))
           p == [r EXCEPT !.state = "paused"]
<1>1. r \in SessionRows /\ r.cur = None
  BY DetachedRow, RenewedRow DEF IInv, TypeOK
<1>2. p.cur = None /\ p.state = "paused"
  BY <1>1, SessionStateWritten DEF LiveStates
<1>3. \/ session' = [session EXCEPT ![s] = Ended("stopped")] /\ attempt' = A
      \/ session' = [session EXCEPT ![s] = p] /\ attempt' = A
      \/ ReserveNext(s, r, A, E)
  BY DEF WrapUp
<1> HIDE DEF r, p
<1>4. Ended("stopped").cur = None /\ Fits(Ended("stopped"), A) /\ Fits(p, A)
  BY <1>2, EndedRow, EndedFits DEF EndedStates, Fits
<1> QED BY <1>1, <1>2, <1>3, <1>4, SettleShows, ReserveNextShows

(* One attempt moves, and the session that works on it follows.            *)
LEMMA MoveShows ==
  ASSUME IInv, Shown, NEW a \in Attempts, NEW q,
         attempt' = [attempt EXCEPT ![a] = q], q.undo \notin TerminalStatuses,
         \A s \in Sessions :
           \/ Fits(session'[s], attempt')
           \/ session'[s] = session[s] /\ session[s].cur # a
  PROVE  Shown'
<1>1. attempt'[a] = q /\ \A b \in Attempts : b # a => attempt'[b] = attempt[b]
  BY DEF IInv, TypeOK
<1>2. \A s \in Sessions : session[s].cur \in Attempts \cup {None}
  BY DEF IInv, TypeOK, SessionRows
<1>3. \A s \in Sessions : Kept(s) \/ Fits(session'[s], attempt')
  BY <1>1, <1>2 DEF Kept
<1>4. \A b \in Attempts : attempt'[b].undo \notin TerminalStatuses
  BY <1>1 DEF Shown, UndoOpen
<1> QED BY <1>3, <1>4, ShownKept DEF Shown

LEMMA MirrorShows ==
  ASSUME IInv, Shown, NEW a \in Attempts, NEW q \in AttemptRows,
         attempt' = [attempt EXCEPT ![a] = q], q.undo \notin TerminalStatuses,
         q.by = attempt[a].by, q.leg # "none", Mirror(a, attempt')
  PROVE  Shown'
<1> DEFINE s == attempt'[a].by
<1>1. attempt'[a] = q /\ attempt' \in [Attempts -> AttemptRows]
  BY DEF IInv, TypeOK
<1>2. \A t \in Sessions : session[t].cur = a => Live(t) /\ attempt[a].by = t
  BY CoordinatorAssumption DEF IInv, Ownership, CurrentIsUndecided, CoordinatorAssumption
<1>3. CASE s # None /\ Live(s) /\ session[s].cur = a
  <2>1. s \in Sessions /\ session[s] \in SessionRows
    BY <1>1, <1>3 DEF AttemptRows, IInv, TypeOK
  <2>2. session' = [session EXCEPT ![s] = Reconciled(session[s], attempt')]
    BY <1>3 DEF Mirror
  <2>3. a # None
    BY CoordinatorAssumption DEF CoordinatorAssumption
  <2>4. Fits(Reconciled(session[s], attempt'), attempt')
    BY <1>1, <1>3, <2>1, <2>3, ReconciledFits DEF Live
  <2>5. session'[s] = Reconciled(session[s], attempt')
        /\ \A t \in Sessions : t # s => session'[t] = session[t]
    BY <2>1, <2>2 DEF IInv, TypeOK
  <2>6. \A t \in Sessions : t # s => session[t].cur # a
    BY <1>1, <1>2
  <2> HIDE DEF s
  <2> QED BY <2>4, <2>5, <2>6, MoveShows
<1>4. CASE ~(s # None /\ Live(s) /\ session[s].cur = a)
  <2>1. session' = session
    BY <1>4 DEF Mirror
  <2>2. \A t \in Sessions : session[t].cur # a
    BY <1>1, <1>2, <1>4, CoordinatorAssumption DEF CoordinatorAssumption
  <2> QED BY <2>1, <2>2, MoveShows
<1> QED BY <1>3, <1>4

-----------------------------------------------------------------------------
(* Every action. *)

LEMMA LiveSession ==
  ASSUME IInv, Shown, NEW s \in Sessions, Live(s)
  PROVE  /\ session[s] \in SessionRows /\ session[s].state \in LiveStates
         /\ attempt \in [Attempts -> AttemptRows]
         /\ session[s].cur # None => session[s].cur \in Attempts
                                     /\ attempt[session[s].cur].leg # "none"
         /\ session[s].cur = None => session[s].state \in {"ready", "paused"}
         /\ Fits(session[s], attempt)
<1>1. session[s] \in SessionRows /\ attempt \in [Attempts -> AttemptRows]
      /\ (session[s].cur # None => session[s].cur \in Attempts)
  BY DEF IInv, TypeOK, SessionRows
<1>2. session[s].cur # None => attempt[session[s].cur].leg # "none"
  BY <1>1, NativeAttempts
<1> QED BY <1>1, <1>2 DEF Shown, AllFit, Fits, Live

LEMMA ReconciledSession ==
  ASSUME IInv, Shown, NEW s \in Sessions, Live(s)
  PROVE  LET q == Reconciled(session[s], attempt) IN
         /\ q \in SessionRows /\ q.cur = session[s].cur /\ Fits(q, attempt)
<1>1. session[s].cur = None => session[s].state # "reconnecting"
  BY LiveSession
<1> QED BY <1>1, LiveSession, ReconciledRow, ReconciledFits

LEMMA CallerStepsShow ==
  ASSUME IInv, Shown, NEW s \in Sessions,
         \/ StartCommit(s) \/ Heartbeat(s) \/ HeartbeatKill(s) \/ Pause(s) \/ Resume(s)
         \/ End(s) \/ Recover(s) \/ ReserveRequest(s)
  PROVE  Shown'
<1> DEFINE r == session[s]
<1>1. {s} \in SUBSET Sessions /\ TypeOK
  BY DEF IInv
<1>2. ASSUME r.cur = None, NEW q \in SessionRows, ReserveNext(s, q, attempt, entry)
      PROVE  Shown'
  BY <1>1, <1>2, NothingToSettle, ReserveNextShows
<1>3. CASE StartCommit(s)
  <2>1. r.cur = None
    BY <1>3 DEF StartCommit, IInv, Ownership, CurrentIsUndecided, Live, LiveStates
  <2>2. Renewed(Readied(BlankSession)) \in SessionRows
    BY BlankRows, ReadiedRow, RenewedRow
  <2> QED BY <1>2, <1>3, <2>1, <2>2 DEF StartCommit
<1>4. CASE Heartbeat(s)
  <2> DEFINE q == Reconciled(r, attempt)
  <2>1. q \in SessionRows /\ Fits(q, attempt)
    BY <1>4, ReconciledSession DEF Heartbeat, HoldsLease
  <2>2. OnlySession(s, Renewed(q))
    BY <1>4 DEF Heartbeat
  <2> HIDE DEF q
  <2>3. Fits(Renewed(q), attempt)
    BY <2>1, RenewedRow, SameFits
  <2> QED BY <2>2, <2>3, OnlySessionShows
<1>5. CASE HeartbeatKill(s)
  <2> DEFINE q == Reconciled(r, attempt)
             x == [q EXCEPT !.stop = TRUE]
  <2>1. q \in SessionRows /\ Fits(q, attempt)
    BY <1>5, ReconciledSession DEF HeartbeatKill, HoldsLease
  <2>2. StopOrDrain({s}, "stopped") \/ OnlySession(s, Renewed(x))
    BY <1>5 DEF HeartbeatKill
  <2> HIDE DEF q
  <2>3. x \in SessionRows /\ x.cur = q.cur /\ x.state = q.state
    BY <2>1, FlagsWritten
  <2> HIDE DEF x
  <2>4. Fits(Renewed(x), attempt)
    BY <2>1, <2>3, RenewedRow, SameFits
  <2> QED BY <1>1, <2>2, <2>4, OnlySessionShows, StopOrDrainShows DEF EndedStates
<1>6. CASE Pause(s)
  <2>1. Live(s)
    BY <1>6 DEF Pause, HoldsLease
  <2> DEFINE p == [r EXCEPT !.pause = TRUE]
             q == [r EXCEPT !.state = "paused"]
  <2>2. \/ OnlySession(s, Renewed(p))
        \/ /\ r.state # "wrap_up"
           /\ r.cur # None => attempt[r.cur].leg \in {"queued"} \cup TerminalStatuses
           /\ OnlySession(s, Renewed(q))
    BY <1>6 DEF Pause
  <2>3. p \in SessionRows /\ p.cur = r.cur /\ p.state = r.state
    BY <2>1, LiveSession, FlagsWritten
  <2>4. q \in SessionRows /\ q.cur = r.cur /\ q.state = "paused"
    BY <2>1, LiveSession, SessionStateWritten DEF LiveStates
  <2> HIDE DEF p, q
  <2>5. CASE OnlySession(s, Renewed(p))
    BY <2>3, <2>5, RenewedRow, FlagShows
  <2>6. ASSUME r.state # "wrap_up",
               r.cur # None => attempt[r.cur].leg \in {"queued"} \cup TerminalStatuses,
               OnlySession(s, Renewed(q))
        PROVE  Shown'
    <3>1. r.cur # None => attempt[r.cur].leg = "queued"
      BY <2>1, <2>6, LiveSession DEF Fits
    <3>2. Renewed(q).state = "paused" /\ Renewed(q).cur = r.cur
      BY <2>4, RenewedRow
    <3>3. Fits(Renewed(q), attempt)
      BY <3>1, <3>2 DEF Fits, TerminalStatuses
    <3> QED BY <2>6, <3>3, OnlySessionShows
  <2> QED BY <2>2, <2>5, <2>6
<1>7. CASE Resume(s)
  <2>1. Live(s)
    BY <1>7 DEF Resume, HoldsLease
  <2> DEFINE q == Renewed(Readied(r))
  <2>2. q \in SessionRows /\ q.cur = r.cur /\ q.state = "ready"
    BY <2>1, LiveSession, ReadiedRow, RenewedRow
  <2>3. \/ q.cur # None /\ OnlySession(s, Reconciled(q, attempt))
        \/ q.cur = None /\ ReserveNext(s, q, attempt, entry)
    BY <1>7 DEF Resume
  <2> HIDE DEF q
  <2>4. Fits(Reconciled(q, attempt), attempt)
    BY <2>1, <2>2, LiveSession, ReconciledFits DEF LiveStates
  <2> QED BY <1>2, <2>2, <2>3, <2>4, OnlySessionShows
<1>8. CASE End(s)
  <2>1. Live(s)
    BY <1>8 DEF End, HoldsLease
  <2> DEFINE p == [r EXCEPT !.stop = TRUE]
  <2>2. p \in SessionRows /\ p.cur = r.cur /\ p.state = r.state
    BY <2>1, LiveSession, FlagsWritten
  <2>3. StopOrDrain({s}, "ended") \/ OnlySession(s, Renewed(p))
    BY <1>8 DEF End
  <2> HIDE DEF p
  <2> QED BY <1>1, <2>2, <2>3, RenewedRow, FlagShows, StopOrDrainShows DEF EndedStates
<1>9. CASE Recover(s)
  <2>1. Live(s)
    BY <1>9 DEF Recover
  <2> DEFINE p == Reconciled(r, attempt)
             q == Renewed(p)
  <2>2. p \in SessionRows /\ p.cur = r.cur /\ Fits(p, attempt)
    BY <2>1, ReconciledSession
  <2>3. \/ OnlySession(s, q)
        \/ q.cur = None /\ ReserveOne(s, q, attempt, entry)
    BY <1>9, Zenon DEF Recover
  <2> HIDE DEF p
  <2>4. q \in SessionRows /\ q.cur = r.cur /\ Fits(q, attempt)
    BY <2>2, RenewedRow, SameFits
  <2> HIDE DEF q
  <2> QED BY <1>2, <2>3, <2>4, OnlySessionShows DEF ReserveNext
<1>10. CASE ReserveRequest(s)
  <2>1. Renewed(r) \in SessionRows
    BY <1>10, LiveSession, RenewedRow DEF ReserveRequest, HoldsLease
  <2> QED BY <1>2, <1>10, <2>1 DEF ReserveRequest
<1> QED BY <1>3, <1>4, <1>5, <1>6, <1>7, <1>8, <1>9, <1>10

(* A session whose attempt moves and that is written in the same step.     *)
LEMMA OwnMoveShows ==
  ASSUME IInv, Shown, NEW s \in Sessions, NEW a \in Attempts, session[s].cur = a, a # None,
         NEW q, attempt' = [attempt EXCEPT ![a] = q], q.undo \notin TerminalStatuses,
         NEW x, session' = [session EXCEPT ![s] = x], Fits(x, attempt')
  PROVE  Shown'
<1>1. session'[s] = x /\ \A t \in Sessions : t # s => session'[t] = session[t]
  BY DEF IInv, TypeOK
<1>2. \A t \in Sessions : t # s => session[t].cur # a
  BY DistinctCurrents DEF IInv, Ownership
<1>3. \A t \in Sessions :
        Fits(session'[t], attempt') \/ (session'[t] = session[t] /\ session[t].cur # a)
  BY <1>1, <1>2
<1> QED BY <1>3, MoveShows

LEMMA WorkerStepsShow ==
  ASSUME IInv, Shown, NEW s \in Sessions, WorkerPass(s)
  PROVE  Shown'
<1> DEFINE r == session[s]
<1>1. CASE WorkerExpiresIdle(s)
  BY <1>1, EndedFits, OnlySessionShows DEF WorkerExpiresIdle, EndedStates
<1>2. ASSUME NEW a \in Attempts, WorkerKeepsWrapUp(s, a) PROVE Shown'
  <2>1. Live(s)
    BY <1>2 DEF WorkerKeepsWrapUp, Stale
  <2>2. Seen(r, "wrap_up").cur = a /\ Seen(r, "wrap_up").state = "wrap_up"
    BY <1>2, <2>1, LiveSession, SeenRow DEF WorkerKeepsWrapUp, LiveStates
  <2>3. Fits(Seen(r, "wrap_up"), attempt)
    BY <1>2, <2>2 DEF WorkerKeepsWrapUp, Fits
  <2> QED BY <1>2, <2>3, OnlySessionShows DEF WorkerKeepsWrapUp
<1>3. ASSUME NEW a \in Attempts, WorkerPreserves(s, a) PROVE Shown'
  <2>1. Live(s)
    BY <1>3 DEF WorkerPreserves, Stale
  <2>2. Seen(r, "reconnecting").cur = a /\ Seen(r, "reconnecting").state = "reconnecting"
    BY <1>3, <2>1, LiveSession, SeenRow DEF WorkerPreserves, LiveStates
  <2>3. Fits(Seen(r, "reconnecting"), attempt)
    BY <1>3, <2>2 DEF WorkerPreserves, Fits, ActiveStatuses, TerminalStatuses
  <2> QED BY <1>3, <2>3, OnlySessionShows DEF WorkerPreserves
<1>4. ASSUME NEW a \in Attempts, WorkerFailsStart(s, a) PROVE Shown'
  <2> DEFINE q == Showing(attempt[a], "failed")
             x == Seen(r, "wrap_up")
  <2>1. Live(s) /\ r.cur = a /\ a # None
    BY <1>4 DEF WorkerFailsStart, Stale
  <2>2. attempt' = [attempt EXCEPT ![a] = q] /\ session' = [session EXCEPT ![s] = x]
    BY <1>4 DEF WorkerFailsStart, Moved
  <2>3. q.leg = "failed" /\ q.undo \notin TerminalStatuses
    BY ShowingRow, UndoRows DEF IInv, TypeOK, Shown, UndoOpen, LegStatuses, TerminalStatuses
  <2>4. x.cur = a /\ x.state = "wrap_up"
    BY <2>1, LiveSession, SeenRow DEF LiveStates
  <2> HIDE DEF q, x
  <2>5. attempt'[a].leg = "failed"
    BY <2>2, <2>3 DEF IInv, TypeOK
  <2>6. Fits(x, attempt')
    BY <2>1, <2>4, <2>5 DEF Fits, TerminalStatuses
  <2> QED BY <2>1, <2>2, <2>3, <2>6, OwnMoveShows
<1>5. ASSUME NEW a \in Attempts, WorkerOpensGrace(s, a) PROVE Shown'
  <2>1. Live(s)
    BY <1>5 DEF WorkerOpensGrace, Stale
  <2>2. InGrace(r, a).cur = a /\ InGrace(r, a).state = "reconnecting"
    BY <1>5, <2>1, LiveSession, InGraceRow DEF WorkerOpensGrace
  <2>3. Fits(InGrace(r, a), attempt)
    BY <1>5, <2>2 DEF WorkerOpensGrace, Untouched, Fits, TerminalStatuses
  <2> QED BY <1>5, <2>3, OnlySessionShows DEF WorkerOpensGrace
<1>6. ASSUME NEW a \in Attempts, WorkerReleases(s, a) PROVE Shown'
  <2>1. {s} \in SUBSET Sessions
    OBVIOUS
  <2> QED BY <1>6, <2>1, StopOrDrainShows DEF WorkerReleases, EndedStates
<1> QED BY <1>1, <1>2, <1>3, <1>4, <1>5, <1>6 DEF WorkerPass

LEMMA SessionStepsShow ==
  ASSUME IInv, Shown, NEW s \in Sessions, SessionStep(s)
  PROVE  Shown'
<1>1. {s} \in SUBSET Sessions
  OBVIOUS
<1>2. CASE ManagerStop(s) \/ ManagerRelease(s)
  BY <1>1, <1>2, StopOrDrainShows DEF ManagerStop, ManagerRelease, EndedStates
<1>3. CASE ManagerMarkFailed(s)
  BY <1>3, EndedFits, OnlySessionShows DEF ManagerMarkFailed, EndedStates
<1>4. CASE LeaseExpires(s) \/ HeartbeatAges(s) \/ GraceElapses(s)
  <2> DEFINE p == [session[s] EXCEPT !.lease = "expired"]
             q == [session[s] EXCEPT !.lease = "stale"]
             x == [session[s] EXCEPT !.orphan = "over"]
  <2>1. OnlySession(s, p) \/ OnlySession(s, q) \/ OnlySession(s, x)
    BY <1>4 DEF LeaseExpires, HeartbeatAges, GraceElapses, OnlySession
  <2>2. /\ p.state = session[s].state /\ p.cur = session[s].cur
        /\ q.state = session[s].state /\ q.cur = session[s].cur
        /\ x.state = session[s].state /\ x.cur = session[s].cur
    BY LeaseWritten, OrphanWritten DEF IInv, TypeOK
  <2> HIDE DEF p, q, x
  <2> QED BY <2>1, <2>2, FlagShows
<1> QED BY <1>2, <1>3, <1>4, CallerStepsShow, WorkerStepsShow DEF SessionStep

LEMMA CallStepsShow ==
  ASSUME IInv, Shown, NEW s \in Sessions, NEW a \in Attempts, CallStep(s, a)
  PROVE  Shown'
<1> DEFINE r == attempt[a]
<1>1. r \in AttemptRows /\ r.undo \notin TerminalStatuses /\ a # None
  BY CoordinatorAssumption DEF IInv, TypeOK, Shown, UndoOpen, CoordinatorAssumption
<1>2. session[s].cur = a =>
        /\ r.leg # "none" /\ session[s].state \in LiveStates /\ session[s] \in SessionRows
        /\ Fits(session[s], attempt)
  BY <1>1, LiveSession DEF IInv, Ownership, CurrentIsUndecided, Live
<1>3. ASSUME NEW mode \in CallStages, HoldsLease(s), MayCall(s, a),
             attempt' = [attempt EXCEPT ![a].call = mode], UNCHANGED session
      PROVE  Shown'
  <2> DEFINE q == [r EXCEPT !.call = mode]
  <2>1. attempt' = [attempt EXCEPT ![a] = q] /\ session' = [session EXCEPT ![s] = session[s]]
    BY <1>3 DEF IInv, TypeOK
  <2>2. q.leg = "queued" /\ q.undo \notin TerminalStatuses
    BY <1>1, <1>3, CallWritten DEF MayCall
  <2> HIDE DEF q
  <2>3. attempt'[a].leg = "queued"
    BY <2>1, <2>2 DEF IInv, TypeOK
  <2>4. session[s].cur = a /\ session[s].state = "ready"
    BY <1>3 DEF MayCall
  <2>5. Fits(session[s], attempt')
    BY <1>1, <2>3, <2>4 DEF Fits, TerminalStatuses
  <2> QED BY <1>1, <2>1, <2>2, <2>4, <2>5, OwnMoveShows
<1>4. ASSUME NEW mode \in Modes, PrepareCall(s, a, mode) PROVE Shown'
  <2>1. mode \in CallStages
    BY CoordinatorAssumption DEF CoordinatorAssumption, CallStages
  <2> QED BY <1>3, <1>4, <2>1 DEF PrepareCall
<1>5. CASE Dispatch(s, a)
  BY <1>3, <1>5 DEF Dispatch, CallStages
<1>6. CASE Place(s, a)
  <2> DEFINE q == Placed(r, "dialing")
  <2>1. attempt' = [attempt EXCEPT ![a] = q] /\ Mirror(a, attempt')
    BY <1>6 DEF Place
  <2>2. q \in AttemptRows /\ q.by = r.by /\ q.leg = "dialing"
    BY <1>1, PlacedRow DEF LegStatuses, ActiveStatuses
  <2>3. q.undo \notin TerminalStatuses
    BY <1>1, UndoRows DEF TerminalStatuses
  <2> HIDE DEF q
  <2> QED BY <2>1, <2>2, <2>3, MirrorShows
<1>7. CASE Abandon(s, a)
  <2> DEFINE p == [session[s] EXCEPT !.cur = None]
             x == Reconciled(p, attempt)
  <2>1. session[s].cur = a /\ r.call = "browserPrepared" /\ Release({a})
    BY <1>7 DEF Abandon
  <2>2. session' = [session EXCEPT ![s] = x]
    BY <1>7 DEF Abandon
  <2>3. session[s].state # "reconnecting"
    BY <1>2, <2>1 DEF Fits
  <2>4. p \in SessionRows /\ p.cur = None /\ p.state = session[s].state
    BY <1>2, <2>1, CurWritten
  <2> HIDE DEF p
  <2>5. x.cur = None /\ x.state \in {"ready", "paused"}
    BY <1>2, <2>1, <2>3, <2>4 DEF Reconciled, SessionRows
  <2> HIDE DEF x
  <2>6. Fits(x, attempt')
    BY <2>5 DEF Fits
  <2>7. session'[s] = x /\ \A t \in Sessions : t # s => session'[t] = session[t]
    BY <2>2 DEF IInv, TypeOK
  <2>8. \A t \in Sessions : t # s => session[t].cur \notin {a}
    BY <1>1, <2>1, DistinctCurrents DEF IInv, Ownership
  <2>9. \A t \in Sessions :
          \/ Fits(session'[t], attempt')
          \/ /\ session'[t].state = session[t].state /\ session'[t].cur = session[t].cur
             /\ session[t].cur \notin {a}
    BY <2>6, <2>7, <2>8
  <2> QED BY <2>1, <2>9, ReleaseShows
<1>8. BeingCancelled(r) \in AttemptRows /\ BeingCancelled(r).leg = "cancelling"
        /\ BeingCancelled(r).by = r.by
  BY <1>1, BeingCancelledRow
<1>9. r.leg \in ActiveStatuses => BeingCancelled(r).undo \notin TerminalStatuses
  BY <1>1, UndoRows DEF ActiveStatuses, TerminalStatuses
<1>10. CASE Cancel(s, a)
  <2> DEFINE q == BeingCancelled(r)
  <2>1. attempt' = [attempt EXCEPT ![a] = q] /\ Mirror(a, attempt') /\ r.leg \in ActiveStatuses
    BY <1>10 DEF Cancel, Cancelling
  <2> HIDE DEF q
  <2> QED BY <1>8, <1>9, <2>1, MirrorShows DEF q
<1>11. CASE ManagerCancel(s, a)
  <2> DEFINE q == BeingCancelled(r)
             x == [session[s] EXCEPT !.stop = TRUE]
  <2>1. attempt' = [attempt EXCEPT ![a] = q] /\ session' = [session EXCEPT ![s] = x]
          /\ session[s].cur = a /\ r.leg \in {"dialing", "ringing", "cancelling"}
    BY <1>11 DEF ManagerCancel, Cancelling
  <2>2. x.cur = a /\ x.state = session[s].state
    BY <1>2, <2>1, FlagsWritten
  <2>3. q.leg = "cancelling" /\ q.call = r.call /\ q.undo \notin TerminalStatuses
    BY <1>1, <1>8, <1>9, <2>1, BeingCancelledRow DEF ActiveStatuses
  <2> HIDE DEF q, x
  <2>4. attempt'[a] = q
    BY <2>1 DEF IInv, TypeOK
  <2>5. Fits(x, attempt')
    BY <1>1, <1>2, <2>1, <2>2, <2>3, <2>4 DEF Fits, TerminalStatuses
  <2> QED BY <1>1, <2>1, <2>3, <2>5, OwnMoveShows
<1>12. ASSUME NEW how \in {"seller", "technical"}
       PROVE  \A b \in Attempts : Closed(a, how)[b].undo = attempt[b].undo
  <2> DEFINE q == [r EXCEPT !.status = how]
  <2>1. Closed(a, how) = [attempt EXCEPT ![a] = q]
    BY DEF Closed
  <2>2. q.undo = r.undo
    BY <1>1, UndoRows
  <2> HIDE DEF q
  <2> QED BY <2>1, <2>2 DEF IInv, TypeOK
<1>13. ASSUME NEW out \in Said, NEW fallback \in BOOLEAN, CompleteSeller(s, a, out, fallback)
       PROVE  Shown'
  <2>1. Settled(s, Closed(a, "seller"), AfterOutcome(a, out, fallback))
    BY <1>13, AfterRows, DecisionSettles DEF CompleteSeller, IInv
  <2>2. WrapUp(s, Closed(a, "seller"), AfterOutcome(a, out, fallback))
    BY <1>13 DEF CompleteSeller
  <2> QED BY <1>12, <2>1, <2>2, WrapUpShows
<1>14. CASE CompleteTechnical(s, a)
  <2>1. Settled(s, Closed(a, "technical"), AfterFailure(a))
    BY <1>14, AfterRows, DecisionSettles DEF CompleteTechnical, IInv
  <2>2. WrapUp(s, Closed(a, "technical"), AfterFailure(a))
    BY <1>14 DEF CompleteTechnical
  <2> QED BY <1>12, <2>1, <2>2, WrapUpShows
<1> QED BY <1>4, <1>5, <1>6, <1>7, <1>10, <1>11, <1>13, <1>14 DEF CallStep

LEMMA AttemptStepsShow ==
  ASSUME IInv, Shown, NEW a \in Attempts, AttemptStep(a)
  PROVE  Shown'
<1> DEFINE r == attempt[a]
<1>1. r \in AttemptRows /\ r.undo \notin TerminalStatuses /\ a # None
  BY CoordinatorAssumption DEF IInv, TypeOK, Shown, UndoOpen, CoordinatorAssumption
<1>2. r.leg # "none" \/ r.call # "none" => r.leg # "none"
  BY NativeAttempts
<1>3. ASSUME NEW v \in LegStatuses, attempt' = Moved(a, v), Mirror(a, attempt')
      PROVE  Shown'
  <2> DEFINE q == Showing(r, v)
  <2>1. attempt' = [attempt EXCEPT ![a] = q]
    BY <1>3 DEF Moved
  <2>2. q \in AttemptRows /\ q.by = r.by /\ q.leg # "none"
    BY <1>1, ShowingRow DEF LegStatuses, ActiveStatuses, TerminalStatuses
  <2>3. q.undo \notin TerminalStatuses
    BY <1>1, UndoRows DEF TerminalStatuses
  <2> HIDE DEF q
  <2> QED BY <1>3, <2>1, <2>2, <2>3, MirrorShows
(* A row whose leg stays and whose call, if it changes, is placed.         *)
<1>4. ASSUME NEW q, attempt' = [attempt EXCEPT ![a] = q], UNCHANGED session,
             q.leg = r.leg, q.call \in {r.call, "placed"}, q.undo \notin TerminalStatuses
      PROVE  Shown'
  <2>1. attempt'[a] = q /\ \A b \in Attempts : b # a => attempt'[b] = attempt[b]
    BY <1>4 DEF IInv, TypeOK
  <2>2. \A s \in Sessions : session[s].cur \in Attempts \cup {None}
    BY DEF IInv, TypeOK, SessionRows
  <2>3. \A s \in Sessions : Kept(s)
    BY <1>4, <2>1, <2>2 DEF Kept
  <2>4. \A b \in Attempts : attempt'[b].undo \notin TerminalStatuses
    BY <1>4, <2>1 DEF Shown, UndoOpen
  <2> QED BY <2>3, <2>4, ShownKept DEF Shown
<1>5. CASE StartFails(a)
  BY <1>3, <1>5 DEF StartFails, LegStatuses, TerminalStatuses
<1>6. CASE CancelForgotten(a)
  <2> DEFINE q == [r EXCEPT !.undo = "none"]
  <2>1. attempt' = [attempt EXCEPT ![a] = q] /\ UNCHANGED session
    BY <1>6 DEF CancelForgotten
  <2>2. q.leg = r.leg /\ q.call = r.call /\ q.undo \notin TerminalStatuses
    BY <1>1, UndoWritten DEF TerminalStatuses
  <2> HIDE DEF q
  <2> QED BY <1>4, <2>1, <2>2
<1>7. ASSUME NEW mirror \in BOOLEAN, CancelRefused(a, mirror) PROVE Shown'
  <2> DEFINE q == CancelUndone(r)
  <2>1. attempt' = [attempt EXCEPT ![a] = q] /\ r.undo # "none"
    BY <1>7 DEF CancelRefused
  <2>2. q.undo \notin TerminalStatuses /\ q.call = r.call
          /\ q.leg = IF r.leg = "cancelling" THEN r.undo ELSE r.leg
    BY <1>1 DEF CancelUndone, AttemptRows, TerminalStatuses
  <2> HIDE DEF q
  <2>3. CASE r.leg # "cancelling"
    BY <1>4, <1>7, <2>1, <2>2, <2>3 DEF CancelRefused
  <2>4. CASE r.leg = "cancelling" /\ Mirror(a, attempt')
    <3>1. q \in AttemptRows /\ q.by = r.by /\ q.leg # "none"
      BY <1>1, <2>1, <2>2, <2>4, CancelUndoneRow DEF q
    <3> QED BY <2>1, <2>2, <2>4, <3>1, MirrorShows
  <2>5. CASE r.leg = "cancelling" /\ UNCHANGED session
    <3>1. attempt'[a] = q
      BY <2>1 DEF IInv, TypeOK
    <3>2. \A s \in Sessions : session[s].cur = a => Fits(session'[s], attempt')
      BY <1>1, <2>1, <2>2, <2>5, <3>1 DEF Shown, AllFit, Fits, TerminalStatuses
    <3>3. \A s \in Sessions :
            Fits(session'[s], attempt') \/ (session'[s] = session[s] /\ session[s].cur # a)
      BY <2>5, <3>2
    <3> QED BY <2>1, <2>2, <3>3, MoveShows
  <2> QED BY <1>7, <2>3, <2>4, <2>5 DEF CancelRefused
<1>8. ASSUME NEW reported \in {"initiated", "ringing"}, LateRootCallback(a, reported)
      PROVE  Shown'
  <2> DEFINE target == CallbackTarget("queued", reported, FALSE)
             v == IF target = "none" THEN "queued" ELSE target
             q == Placed(r, v)
  <2>1. v \in LegStatuses
    BY TwilioTargets DEF v, LegStatuses, ActiveStatuses
  <2>2. attempt' = [attempt EXCEPT ![a] = q] /\ r.leg = "queued"
    BY <1>8 DEF LateRootCallback
  <2> HIDE DEF v
  <2>3. q \in AttemptRows /\ q.leg = v /\ q.by = r.by /\ q.call = "placed" /\ q.leg # "none"
    BY <1>1, <2>1, PlacedRow DEF LegStatuses, ActiveStatuses, TerminalStatuses
  <2>4. q.undo \notin TerminalStatuses
    BY <1>1, UndoRows DEF TerminalStatuses
  <2> HIDE DEF q
  <2>5. attempt'[a] = q
    BY <2>2 DEF IInv, TypeOK
  <2>6. CASE q.leg = "queued" /\ UNCHANGED session
    BY <1>4, <2>2, <2>3, <2>4, <2>6
  <2>7. CASE Mirror(a, attempt')
    BY <2>2, <2>3, <2>4, <2>7, MirrorShows
  <2> QED BY <1>8, <2>5, <2>6, <2>7 DEF LateRootCallback
<1>9. ASSUME NEW x \in TwilioStatuses, ProviderEvent(a, FromTwilio[x]) PROVE Shown'
  BY <1>3, <1>9, TwilioTargets DEF ProviderEvent
<1>10. ASSUME NEW out \in Said, NEW fallback \in BOOLEAN, CompleteManual(a, out, fallback)
       PROVE  Shown'
  <2> DEFINE q == [r EXCEPT !.status = "seller"]
  <2>1. attempt' = [attempt EXCEPT ![a] = q] /\ UNCHANGED session
    BY <1>10 DEF CompleteManual, Closed
  <2>2. q.leg = r.leg /\ q.call = r.call /\ q.undo = r.undo
    BY <1>1, AttemptStatusWritten
  <2> HIDE DEF q
  <2> QED BY <1>1, <1>4, <2>1, <2>2
<1> QED BY <1>5, <1>6, <1>7, <1>8, <1>9, <1>10 DEF AttemptStep

LEMMA EntryStepsShow ==
  ASSUME IInv, Shown, NEW e \in Entries, EntryStep(e)
  PROVE  Shown'
<1>1. ASSUME NEW a \in Attempts, StartManual(e, a) PROVE Shown'
  <2> DEFINE q == OpenedByHand(e)
  <2>1. attempt' = [attempt EXCEPT ![a] = q] /\ UNCHANGED session /\ attempt[a].status = "free"
    BY <1>1 DEF StartManual
  <2>2. q.undo \notin TerminalStatuses
    BY NewRows DEF TerminalStatuses
  <2>3. \A s \in Sessions : session[s].cur # a
    BY <2>1, CoordinatorAssumption
       DEF IInv, Ownership, CurrentIsUndecided, CoordinatorAssumption
  <2> HIDE DEF q
  <2>4. \A s \in Sessions :
          Fits(session'[s], attempt') \/ (session'[s] = session[s] /\ session[s].cur # a)
    BY <2>1, <2>3
  <2> QED BY <2>1, <2>2, <2>4, MoveShows
<1> QED BY <1>1, UnchangedShows DEF EntryStep, DecideHandoff, EntryFallsDue

LEMMA RollbackShows ==
  ASSUME IInv, Shown, NEW c \in Callers, NEW drain \in BOOLEAN, PilotRollback(c, drain)
  PROVE  Shown'
<1> DEFINE scope == {s \in Sessions : CallerOf[s] = c /\ Live(s)}
           open == {s \in scope : session[s].cur \in Open(attempt)}
           unsafe == {s \in open : ~ /\ attempt[session[s].cur].leg = "queued"
                                     /\ attempt[session[s].cur].call
                                          \in {"none", "browserPrepared"}}
           R == Held(open \ unsafe)
<1>1. /\ Release(R)
      /\ session' = [s \in Sessions |->
           IF s \in unsafe THEN [session[s] EXCEPT !.stop = TRUE]
           ELSE IF s \in scope THEN Ended("stopped")
           ELSE session[s]]
  BY DEF PilotRollback
<1>2. R \in SUBSET Attempts /\ \A a \in R : a # None /\ \E s \in open \ unsafe : session[s].cur = a
  BY HeldAttempts DEF IInv, Held
<1>3. unsafe \in SUBSET open /\ open \in SUBSET scope /\ scope \in SUBSET Sessions
  OBVIOUS
<1> HIDE DEF R, unsafe, open, scope
<1>4. \A s \in scope \ unsafe : Fits(session'[s], attempt')
  BY <1>1, <1>3, EndedFits DEF EndedStates
<1>5. \A s \in Sessions : s \in unsafe \/ s \notin scope =>
        session'[s].cur = session[s].cur /\ session'[s].state = session[s].state
  BY <1>1, FlagsWritten DEF IInv, TypeOK
<1>6. \A s \in Sessions : s \in unsafe \/ s \notin scope => session[s].cur \notin R
  BY <1>2, <1>3, DistinctCurrents DEF IInv, Ownership
<1>7. \A s \in Sessions :
        \/ Fits(session'[s], attempt')
        \/ /\ session'[s].state = session[s].state /\ session'[s].cur = session[s].cur
           /\ session[s].cur \notin R
  BY <1>4, <1>5, <1>6
<1> QED BY <1>1, <1>2, <1>7, ReleaseShows

LEMMA ShownStep == IInv /\ Shown /\ [Next]_vars => Shown'
<1> SUFFICES ASSUME IInv, Shown, [Next]_vars PROVE Shown'
  OBVIOUS
<1>1. CASE UNCHANGED vars
  BY <1>1, UnchangedShows DEF vars
<1>2. ASSUME NEW c \in Callers, CallerStep(c) PROVE Shown'
  <2>1. CASE StartRead(c) \/ StartRefused(c) \/ CallerLeaves(c)
    BY <2>1, UnchangedShows DEF StartRead, StartRefused, CallerLeaves
  <2> QED BY <1>2, <2>1, RollbackShows DEF CallerStep
<1>3. CASE SwitchOn
  BY <1>3, UnchangedShows DEF SwitchOn
<1>4. CASE SwitchOff
  BY <1>4, StopOrDrainShows DEF SwitchOff, EndedStates
<1> QED BY <1>1, <1>2, <1>3, <1>4, SessionStepsShow, CallStepsShow, AttemptStepsShow,
           EntryStepsShow DEF Next

LEMMA ShownFromInit == Init => Shown
<1> SUFFICES ASSUME Init PROVE Shown
  OBVIOUS
<1>1. \A s \in Sessions : session[s].state = "unborn"
  BY DEF Init, BlankSession
<1>2. \A a \in Attempts : attempt[a].undo = "none"
  BY DEF Init, BlankAttempt
<1> QED BY <1>1, <1>2 DEF Shown, AllFit, Fits, UndoOpen, LiveStates, TerminalStatuses

(* A live session is in wrap-up exactly while its call has ended, is       *)
(* paused with at most an undialed record, and reconnects with a record    *)
(* only: reconcile_session_current_leg, its callers, and the places that   *)
(* move a leg without it.                                                  *)
THEOREM StatesMatchLegs == Spec => []StateMatchesLeg
<1>1. Shown => StateMatchesLeg
  BY DEF Shown, AllFit, Fits, StateMatchesLeg, Live
<1> QED BY <1>1, ShownFromInit, Invariance, ShownStep, PTL DEF Spec

-----------------------------------------------------------------------------
(* A pause asked for during a call.  It is only noted while the session's  *)
(* record has a call the caller did not hold back, and such a record never *)
(* goes back to waiting: the pause cannot outlive its call, nor be lost    *)
(* with it.                                                                *)

Begun(r) == r.leg # "queued" \/ r.call = "placed"

UndoPlaced(r) == r.undo # "none" => r.call = "placed"

Noted ==
  /\ \A s \in Sessions : session[s].pause =>
       session[s].cur # None /\ Begun(attempt[session[s].cur])
  /\ \A a \in Attempts : UndoPlaced(attempt[a])

(* How a step may treat an attempt, and the pause of a session.            *)
Onward(r, q) == UndoPlaced(r) => UndoPlaced(q) /\ (Begun(r) => Begun(q))

Taken(r, q) == r.status = "free" /\ UndoPlaced(q)

Forward == \A a \in Attempts :
  Onward(attempt[a], attempt'[a]) \/ Taken(attempt[a], attempt'[a])

Heeds(r, x) ==
  /\ x.pause => /\ x.cur = r.cur
                /\ r.pause \/ (r.cur # None /\ Begun(attempt[r.cur]))
  /\ r.pause /\ x.cur # r.cur => x.cur = None /\ x.state \in {"paused"} \cup EndedStates

Heeding == Forward /\ \A s \in Sessions : Heeds(session[s], session'[s])

LEMMA SameHeeds ==
  ASSUME NEW r, NEW x, x.pause = r.pause, x.cur = r.cur
  PROVE  Heeds(r, x)
  BY DEF Heeds

LEMMA LetGoHeeds ==
  ASSUME NEW r, NEW x, x.pause = FALSE, x.cur = None,
         x.state \in {"paused"} \cup EndedStates
  PROVE  Heeds(r, x)
  BY DEF Heeds

LEMMA UnaskedHeeds ==
  ASSUME NEW r, NEW x, r.pause = FALSE, x.pause = FALSE
  PROVE  Heeds(r, x)
  BY DEF Heeds

LEMMA NotedStep ==
  ASSUME IInv, Noted, Heeding
  PROVE  Noted'
<1>1. \A s \in Sessions : session[s].cur # None =>
        session[s].cur \in Attempts /\ attempt[session[s].cur].status = "in_progress"
  BY DEF IInv, TypeOK, SessionRows, Ownership, CurrentIsUndecided
<1>2. ASSUME NEW s \in Sessions, session'[s].pause
      PROVE  session'[s].cur # None /\ Begun(attempt'[session'[s].cur])
  <2>1. /\ session'[s].cur = session[s].cur /\ session[s].cur # None
        /\ Begun(attempt[session[s].cur])
    BY <1>2 DEF Heeding, Heeds, Noted
  <2>2. Onward(attempt[session[s].cur], attempt'[session[s].cur])
    BY <1>1, <2>1 DEF Heeding, Forward, Taken
  <2> QED BY <1>1, <2>1, <2>2 DEF Onward, Noted
<1>3. \A a \in Attempts : UndoPlaced(attempt'[a])
  BY DEF Heeding, Forward, Taken, Onward, Noted
<1> QED BY <1>2, <1>3 DEF Noted

-----------------------------------------------------------------------------
(* Rows. *)

LEMMA CallRows ==
  ASSUME NEW r \in AttemptRows
  PROVE  /\ \A v \in CallStages : [r EXCEPT !.call = v].undo = r.undo
         /\ CancelUndone(r).call = r.call
         /\ [r EXCEPT !.undo = "none"].undo = "none"
         /\ [r EXCEPT !.undo = "none"].call = r.call
         /\ [r EXCEPT !.undo = "none"].leg = r.leg
  BY DEF CancelUndone, AttemptRows

LEMMA OnwardCancelled ==
  ASSUME NEW r \in AttemptRows
  PROVE  Onward(r, Cancelled(r))
  BY CancelledRow, UndoRows DEF Onward, Begun, UndoPlaced

LEMMA OnwardShowing ==
  ASSUME NEW r \in AttemptRows, NEW v \in LegStatuses, v # "queued" \/ r.call = "placed"
  PROVE  Onward(r, Showing(r, v))
<1>1. /\ Showing(r, v).leg = v /\ Showing(r, v).call = r.call
      /\ Showing(r, v).undo \in {"none", r.undo}
  BY ShowingRow, UndoRows
<1> QED BY <1>1 DEF Onward, Begun, UndoPlaced

LEMMA OnwardPlaced ==
  ASSUME NEW r \in AttemptRows, NEW v \in LegStatuses
  PROVE  Onward(r, Placed(r, v))
<1>1. Placed(r, v).call = "placed"
  BY PlacedRow
<1> QED BY <1>1 DEF Onward, Begun, UndoPlaced

LEMMA OnwardCancelling ==
  ASSUME NEW r \in AttemptRows, r.call = "placed"
  PROVE  Onward(r, BeingCancelled(r))
<1>1. BeingCancelled(r).call = "placed"
  BY BeingCancelledRow
<1> QED BY <1>1 DEF Onward, Begun, UndoPlaced

LEMMA OnwardUndone ==
  ASSUME NEW r \in AttemptRows, r.undo # "none"
  PROVE  Onward(r, CancelUndone(r))
<1>1. CancelUndone(r).call = r.call
  BY CallRows
<1> QED BY <1>1 DEF Onward, Begun, UndoPlaced

LEMMA OnwardCalled ==
  ASSUME NEW r \in AttemptRows, NEW v \in CallStages, r.leg = "queued", r.call # "placed"
  PROVE  Onward(r, [r EXCEPT !.call = v])
<1>1. [r EXCEPT !.call = v].undo = r.undo
  BY CallRows
<1> QED BY <1>1 DEF Onward, Begun, UndoPlaced

LEMMA OnwardStatus ==
  ASSUME NEW r \in AttemptRows, NEW how \in {"seller", "technical"}
  PROVE  Onward(r, [r EXCEPT !.status = how])
<1>1. LET q == [r EXCEPT !.status = how] IN
      q.undo = r.undo /\ q.call = r.call /\ q.leg = r.leg
  BY AttemptStatusWritten
<1> QED BY <1>1 DEF Onward, Begun, UndoPlaced

LEMMA PauseWritten ==
  ASSUME NEW r \in SessionRows
  PROVE  /\ \A v : [r EXCEPT !.state = v].pause = r.pause
         /\ \A v : [r EXCEPT !.cur = v].pause = r.pause
         /\ \A v : [r EXCEPT !.lease = v].pause = r.pause
         /\ \A v : [r EXCEPT !.stop = v].pause = r.pause
         /\ \A v : [r EXCEPT !.orphan = v].pause = r.pause
         /\ \A v : [r EXCEPT !.pause = v].pause = v
         /\ Renewed(r).pause = r.pause
         /\ Readied(r).pause = FALSE
         /\ Detached(r).pause = FALSE
         /\ \A a : Carrying(r, a).pause = r.pause
         /\ \A v : Seen(r, v).pause = r.pause
         /\ \A a : InGrace(r, a).pause = r.pause
  BY DEF SessionRows, Renewed, Readied, Detached, Carrying, Seen, InGrace

LEMMA SeenHeeds ==
  ASSUME NEW r \in SessionRows, NEW v \in LiveStates
  PROVE  Seen(r, v).pause = r.pause /\ Seen(r, v).cur = r.cur
<1>1. Seen(r, v).pause = r.pause
  BY PauseWritten
<1> QED BY <1>1, SeenRow

LEMMA EndedPause == \A how : Ended(how).pause = FALSE
  BY DEF Ended, BlankSession

LEMMA ReconciledPause ==
  ASSUME NEW r \in SessionRows, NEW A
  PROVE  Reconciled(r, A).pause = r.pause
<1>1. CASE r.cur = None
  BY <1>1, PauseWritten DEF Reconciled
<1>2. CASE r.cur # None
  BY <1>2, PauseWritten DEF Reconciled
<1> QED BY <1>1, <1>2

LEMMA EndedHeeds ==
  ASSUME NEW r, NEW how \in EndedStates
  PROVE  Heeds(r, Ended(how))
  BY EndedPause, EndedRow, LetGoHeeds

-----------------------------------------------------------------------------
(* Transactions. *)

LEMMA AttemptsStayForward ==
  ASSUME UNCHANGED attempt
  PROVE  Forward
  BY DEF Forward, Onward

LEMMA NothingHeeds ==
  ASSUME UNCHANGED <<session, attempt>>
  PROVE  Heeding
  BY AttemptsStayForward, SameHeeds DEF Heeding

LEMMA OneHeeds ==
  ASSUME IInv, Forward, NEW s \in Sessions, NEW x, Heeds(session[s], x),
         session' = [session EXCEPT ![s] = x]
  PROVE  Heeding
<1>1. session'[s] = x /\ \A t \in Sessions : t # s => session'[t] = session[t]
  BY DEF IInv, TypeOK
<1> QED BY <1>1, SameHeeds DEF Heeding

LEMMA OnlySessionHeeds ==
  ASSUME IInv, NEW s \in Sessions, NEW x, OnlySession(s, x), Heeds(session[s], x)
  PROVE  Heeding
  BY AttemptsStayForward, OneHeeds DEF OnlySession

LEMMA OneForward ==
  ASSUME IInv, NEW a \in Attempts, NEW q, attempt' = [attempt EXCEPT ![a] = q],
         Onward(attempt[a], q) \/ Taken(attempt[a], q)
  PROVE  Forward
<1>1. attempt'[a] = q /\ \A b \in Attempts : b # a => attempt'[b] = attempt[b]
  BY DEF IInv, TypeOK
<1> QED BY <1>1 DEF Forward, Onward

LEMMA ReleaseForward ==
  ASSUME IInv, NEW R \in SUBSET Attempts, Release(R)
  PROVE  Forward
<1>1. \A a \in Attempts : attempt'[a] = IF a \in R THEN Cancelled(attempt[a]) ELSE attempt[a]
  BY DEF Release, Released
<1> QED BY <1>1, OnwardCancelled DEF Forward, Onward, IInv, TypeOK

LEMMA StopOrDrainHeeds ==
  ASSUME IInv, NEW S \in SUBSET Sessions, NEW how \in EndedStates, StopOrDrain(S, how)
  PROVE  Heeding
<1> DEFINE idle == {s \in S : Idle(s)}
           R == Held(idle)
<1>1. /\ Release(R)
      /\ session' = [s \in Sessions |->
           IF s \in idle THEN Ended(how)
           ELSE IF s \in S THEN [session[s] EXCEPT !.stop = TRUE]
           ELSE session[s]]
  BY DEF StopOrDrain
<1>2. R \in SUBSET Attempts
  BY HeldAttempts DEF IInv
<1> HIDE DEF R, idle
<1>3. Forward
  BY <1>1, <1>2, ReleaseForward
<1>4. ASSUME NEW s \in Sessions PROVE Heeds(session[s], session'[s])
  <2> DEFINE x == [session[s] EXCEPT !.stop = TRUE]
  <2>1. x.pause = session[s].pause /\ x.cur = session[s].cur
    BY PauseWritten, FlagsWritten DEF IInv, TypeOK
  <2>2. session'[s] \in {Ended(how), x, session[s]}
    BY <1>1
  <2> HIDE DEF x
  <2> QED BY <2>1, <2>2, SameHeeds, EndedHeeds
<1> QED BY <1>3, <1>4 DEF Heeding

(* The mirror of a leg changes neither a session's record nor its pause.   *)
LEMMA MirrorHeeds ==
  ASSUME IInv, Forward, attempt' \in [Attempts -> AttemptRows],
         NEW a \in Attempts, attempt'[a].leg # "none", Mirror(a, attempt')
  PROVE  Heeding
<1> DEFINE s == attempt'[a].by
<1>1. CASE s # None /\ Live(s) /\ session[s].cur = a
  <2> DEFINE x == Reconciled(session[s], attempt')
  <2>1. s \in Sessions /\ session[s] \in SessionRows /\ a # None
    BY <1>1, CoordinatorAssumption DEF AttemptRows, IInv, TypeOK, CoordinatorAssumption
  <2>2. session' = [session EXCEPT ![s] = x]
    BY <1>1 DEF Mirror
  <2>3. x.pause = session[s].pause /\ x.cur = session[s].cur
    BY <1>1, <2>1, ReconciledPause, ReconciledRow DEF Live
  <2> HIDE DEF s, x
  <2> QED BY <2>1, <2>2, <2>3, OneHeeds, SameHeeds
<1>2. CASE ~(s # None /\ Live(s) /\ session[s].cur = a)
  <2>1. session' = session
    BY <1>2 DEF Mirror
  <2> QED BY <2>1, SameHeeds DEF Heeding
<1> QED BY <1>1, <1>2

(* One attempt moves, and the mirror or nothing follows.                   *)
LEMMA MoveHeeds ==
  ASSUME IInv, NEW a \in Attempts, NEW q \in AttemptRows,
         attempt' = [attempt EXCEPT ![a] = q], Onward(attempt[a], q),
         UNCHANGED session \/ (q.leg # "none" /\ Mirror(a, attempt'))
  PROVE  Heeding
<1>1. attempt'[a] = q /\ attempt' \in [Attempts -> AttemptRows]
  BY DEF IInv, TypeOK
<1>2. Forward
  BY OneForward
<1> QED BY <1>1, <1>2, MirrorHeeds, SameHeeds DEF Heeding

(* The rows A keep their legs, calls and undos, and session s writes x.    *)
LEMMA SettleForward ==
  ASSUME IInv, NEW s \in Sessions, NEW A, NEW E, Settled(s, A, E),
         \A a \in Attempts : A[a].undo = attempt[a].undo
  PROVE  \A a \in Attempts : Onward(attempt[a], A[a])
  BY DEF Settled, Onward, Begun, UndoPlaced

LEMMA SettleHeeds ==
  ASSUME IInv, NEW s \in Sessions, NEW A, NEW E, Settled(s, A, E),
         \A a \in Attempts : A[a].undo = attempt[a].undo,
         NEW x, Heeds(session[s], x),
         session' = [session EXCEPT ![s] = x], attempt' = A
  PROVE  Heeding
<1>1. Forward
  BY SettleForward DEF Forward
<1> QED BY <1>1, OneHeeds

LEMMA ReserveOneHeeds ==
  ASSUME IInv, NEW s \in Sessions, NEW A, NEW E, Settled(s, A, E),
         \A a \in Attempts : A[a].undo = attempt[a].undo,
         NEW r \in SessionRows, ReserveOne(s, r, A, E),
         session[s].pause = FALSE, r.pause = FALSE
  PROVE  Heeding
<1>1. PICK a \in Attempts, e \in Entries :
        /\ A[a].status = "free" /\ E[e].status \in {"queued", "needs_correction"}
        /\ session' = [session EXCEPT ![s] = Carrying(r, a)]
        /\ attempt' = [A EXCEPT ![a] = Reserved(s, e, E[e])]
  BY DEF ReserveOne, Candidates
<1>2. /\ attempt'[a] = Reserved(s, e, E[e])
      /\ \A b \in Attempts : b # a => attempt'[b] = A[b]
  BY <1>1 DEF Settled
<1>3. attempt[a].status = "free"
  BY <1>1 DEF Settled
<1>4. Forward
  BY <1>2, <1>3, SettleForward, NewRows DEF Forward, Taken, UndoPlaced
<1>5. Carrying(r, a).pause = FALSE
  BY PauseWritten
<1>6. Heeds(session[s], Carrying(r, a))
  BY <1>5, UnaskedHeeds
<1> QED BY <1>1, <1>4, <1>6, OneHeeds

LEMMA ReserveNextHeeds ==
  ASSUME IInv, NEW s \in Sessions, NEW A, NEW E, Settled(s, A, E),
         \A a \in Attempts : A[a].undo = attempt[a].undo,
         NEW r \in SessionRows, ReserveNext(s, r, A, E),
         session[s].pause = FALSE, r.pause = FALSE
  PROVE  Heeding
<1>1. CASE QueueExhausted(s, A, E)
  BY <1>1, EndedHeeds, SettleHeeds DEF QueueExhausted, EndedStates
<1> QED BY <1>1, ReserveOneHeeds DEF ReserveNext

(* The wrap-up reserves no further record under a pause. *)
LEMMA WrapUpHeeds ==
  ASSUME IInv, NEW s \in Sessions, NEW A, NEW E, Settled(s, A, E),
         \A a \in Attempts : A[a].undo = attempt[a].undo, WrapUp(s, A, E)
  PROVE  Heeding
<1> DEFINE d == Detached(session[s])
           r == Renewed(d)
           p == [r EXCEPT !.state = "paused"]
<1>1. d \in SessionRows /\ d.cur = None /\ d.pause = FALSE
  BY DetachedRow, PauseWritten DEF IInv, TypeOK
<1>2. \/ session' = [session EXCEPT ![s] = Ended("stopped")] /\ attempt' = A
      \/ session' = [session EXCEPT ![s] = p] /\ attempt' = A
      \/ ~session[s].pause /\ ReserveNext(s, r, A, E)
  BY DEF WrapUp
<1> HIDE DEF d
<1>3. r \in SessionRows /\ r.cur = None /\ r.pause = FALSE
  BY <1>1, RenewedRow, PauseWritten
<1> HIDE DEF r
<1>4. p.cur = None /\ p.state = "paused" /\ p.pause = FALSE
  BY <1>3, SessionStateWritten, PauseWritten DEF LiveStates
<1> HIDE DEF p
<1>5. Heeds(session[s], p)
  BY <1>4, LetGoHeeds
<1>6. session[s].pause \in BOOLEAN
  BY DEF IInv, TypeOK, SessionRows
<1> QED BY <1>2, <1>3, <1>5, <1>6, EndedHeeds, SettleHeeds, ReserveNextHeeds DEF EndedStates

-----------------------------------------------------------------------------
(* Every action. *)

(* Only a session that works on a record has a pause noted. *)
LEMMA NoRecordNoPause ==
  ASSUME IInv, Noted, NEW s \in Sessions
  PROVE  /\ session[s] \in SessionRows /\ session[s].pause \in BOOLEAN
         /\ session[s].cur = None => session[s].pause = FALSE
  BY DEF Noted, IInv, TypeOK, SessionRows

LEMMA CallerStepsHeed ==
  ASSUME IInv, Shown, Noted, NEW s \in Sessions,
         \/ StartCommit(s) \/ Heartbeat(s) \/ HeartbeatKill(s) \/ Pause(s) \/ Resume(s)
         \/ End(s) \/ Recover(s) \/ ReserveRequest(s)
  PROVE  Heeding
<1> DEFINE r == session[s]
<1>1. /\ {s} \in SUBSET Sessions /\ TypeOK
      /\ r \in SessionRows /\ r.pause \in BOOLEAN /\ (r.cur = None => r.pause = FALSE)
  BY NoRecordNoPause DEF IInv
<1>2. ASSUME r.cur = None, NEW q \in SessionRows, q.pause = FALSE,
             ReserveNext(s, q, attempt, entry)
      PROVE  Heeding
  BY <1>1, <1>2, NothingToSettle, ReserveNextHeeds
<1>3. ASSUME NEW x, OnlySession(s, x), x.pause = r.pause, x.cur = r.cur
      PROVE  Heeding
  BY <1>3, SameHeeds, OnlySessionHeeds
(* The session as its leg shows it. *)
<1>4. ASSUME Live(s)
      PROVE  LET q == Reconciled(r, attempt) IN
             q \in SessionRows /\ q.cur = r.cur /\ q.pause = r.pause
  BY <1>1, <1>4, ReconciledSession, ReconciledPause
<1>5. CASE StartCommit(s)
  <2> DEFINE b == Readied(BlankSession)
  <2>1. r.cur = None
    BY <1>5 DEF StartCommit, IInv, Ownership, CurrentIsUndecided, Live, LiveStates
  <2>2. b \in SessionRows /\ b.pause = FALSE
    BY BlankRows, ReadiedRow, PauseWritten
  <2>3. ReserveNext(s, Renewed(b), attempt, entry)
    BY <1>5 DEF StartCommit
  <2> HIDE DEF b
  <2>4. Renewed(b) \in SessionRows /\ Renewed(b).pause = FALSE
    BY <2>2, RenewedRow, PauseWritten
  <2> QED BY <1>2, <2>1, <2>3, <2>4
<1>6. CASE Heartbeat(s)
  <2> DEFINE q == Reconciled(r, attempt)
  <2>1. q \in SessionRows /\ q.cur = r.cur /\ q.pause = r.pause
    BY <1>4, <1>6 DEF Heartbeat, HoldsLease
  <2>2. OnlySession(s, Renewed(q))
    BY <1>6 DEF Heartbeat
  <2> HIDE DEF q
  <2>3. Renewed(q).cur = r.cur /\ Renewed(q).pause = r.pause
    BY <2>1, RenewedRow, PauseWritten
  <2> QED BY <1>3, <2>2, <2>3
<1>7. CASE HeartbeatKill(s)
  <2> DEFINE q == Reconciled(r, attempt)
             x == [q EXCEPT !.stop = TRUE]
  <2>1. q \in SessionRows /\ q.cur = r.cur /\ q.pause = r.pause
    BY <1>4, <1>7 DEF HeartbeatKill, HoldsLease
  <2>2. StopOrDrain({s}, "stopped") \/ OnlySession(s, Renewed(x))
    BY <1>7 DEF HeartbeatKill
  <2> HIDE DEF q
  <2>3. x \in SessionRows /\ x.cur = r.cur /\ x.pause = r.pause
    BY <2>1, FlagsWritten, PauseWritten
  <2> HIDE DEF x
  <2>4. Renewed(x).cur = r.cur /\ Renewed(x).pause = r.pause
    BY <2>3, RenewedRow, PauseWritten
  <2> QED BY <1>1, <1>3, <2>2, <2>4, StopOrDrainHeeds DEF EndedStates
<1>8. CASE Pause(s)
  <2> DEFINE p == [r EXCEPT !.pause = TRUE]
             q == [r EXCEPT !.state = "paused"]
  <2>1. /\ Live(s)
        /\ \/ /\ \/ r.state = "wrap_up"
                 \/ r.cur # None /\ attempt[r.cur].leg \notin {"queued"} \cup TerminalStatuses
              /\ OnlySession(s, Renewed(p))
           \/ OnlySession(s, Renewed(q))
    BY <1>8 DEF Pause, HoldsLease
  <2>2. /\ p \in SessionRows /\ p.cur = r.cur
        /\ q \in SessionRows /\ q.cur = r.cur /\ q.pause = r.pause
    BY <1>1, FlagsWritten, SessionStateWritten, PauseWritten DEF LiveStates
  <2> HIDE DEF p, q
  <2>3. /\ Renewed(p).cur = r.cur
        /\ Renewed(q).cur = r.cur /\ Renewed(q).pause = r.pause
    BY <2>2, RenewedRow, PauseWritten
  <2>4. \/ r.state = "wrap_up"
        \/ r.cur # None /\ attempt[r.cur].leg \notin {"queued"} \cup TerminalStatuses
        => r.cur # None /\ Begun(attempt[r.cur])
    BY <2>1 DEF Shown, AllFit, Fits, Live, Begun, TerminalStatuses
  <2>5. r.cur # None /\ Begun(attempt[r.cur]) => Heeds(r, Renewed(p))
    BY <2>3 DEF Heeds
  <2> QED BY <1>3, <2>1, <2>3, <2>4, <2>5, OnlySessionHeeds
<1>9. CASE Resume(s)
  <2> DEFINE b == Readied(r)
             q == Renewed(b)
  <2>1. b \in SessionRows /\ b.cur = r.cur /\ b.pause = FALSE /\ b.state = "ready"
    BY <1>1, ReadiedRow, PauseWritten
  <2>2. \/ q.cur # None /\ OnlySession(s, Reconciled(q, attempt))
        \/ q.cur = None /\ ReserveNext(s, q, attempt, entry)
    BY <1>9 DEF Resume
  <2>3. Live(s)
    BY <1>9 DEF Resume, HoldsLease
  <2> HIDE DEF b
  <2>4. q \in SessionRows /\ q.cur = r.cur /\ q.pause = FALSE /\ q.state = "ready"
    BY <2>1, RenewedRow, PauseWritten
  <2> HIDE DEF q
  <2> DEFINE x == Reconciled(q, attempt)
  <2>5. x.pause = FALSE /\ x.cur = r.cur
    BY <2>3, <2>4, LiveSession, ReconciledRow, ReconciledPause DEF LiveStates
  <2>6. Heeds(r, x)
    BY <2>5 DEF Heeds
  <2> HIDE DEF x
  <2> QED BY <1>2, <2>2, <2>4, <2>6, OnlySessionHeeds DEF x
<1>10. CASE End(s)
  <2> DEFINE p == [r EXCEPT !.stop = TRUE]
  <2>1. p \in SessionRows /\ p.cur = r.cur /\ p.pause = r.pause
    BY <1>1, FlagsWritten, PauseWritten
  <2>2. StopOrDrain({s}, "ended") \/ OnlySession(s, Renewed(p))
    BY <1>10 DEF End
  <2> HIDE DEF p
  <2>3. Renewed(p).cur = r.cur /\ Renewed(p).pause = r.pause
    BY <2>1, RenewedRow, PauseWritten
  <2> QED BY <1>1, <1>3, <2>2, <2>3, StopOrDrainHeeds DEF EndedStates
<1>11. CASE Recover(s)
  <2> DEFINE p == Reconciled(r, attempt)
             q == Renewed(p)
  <2>1. p \in SessionRows /\ p.cur = r.cur /\ p.pause = r.pause
    BY <1>4, <1>11 DEF Recover
  <2>2. OnlySession(s, q) \/ (q.cur = None /\ ReserveOne(s, q, attempt, entry))
    BY <1>11, Zenon DEF Recover
  <2> HIDE DEF p
  <2>3. q \in SessionRows /\ q.cur = r.cur /\ q.pause = r.pause
    BY <2>1, RenewedRow, PauseWritten
  <2> HIDE DEF q
  <2> QED BY <1>1, <1>2, <1>3, <2>2, <2>3 DEF ReserveNext
<1>12. CASE ReserveRequest(s)
  <2>1. Renewed(r) \in SessionRows /\ Renewed(r).pause = r.pause
    BY <1>1, RenewedRow, PauseWritten
  <2> QED BY <1>1, <1>2, <1>12, <2>1 DEF ReserveRequest
<1> QED BY <1>5, <1>6, <1>7, <1>8, <1>9, <1>10, <1>11, <1>12

LEMMA SessionStepsHeed ==
  ASSUME IInv, Shown, Noted, NEW s \in Sessions, SessionStep(s)
  PROVE  Heeding
<1> DEFINE r == session[s]
<1>1. {s} \in SUBSET Sessions /\ r \in SessionRows
  BY NoRecordNoPause
<1>2. ASSUME NEW x, OnlySession(s, x), x.pause = r.pause, x.cur = r.cur
      PROVE  Heeding
  BY <1>2, SameHeeds, OnlySessionHeeds
<1>3. CASE ManagerStop(s) \/ ManagerRelease(s)
  BY <1>1, <1>3, StopOrDrainHeeds DEF ManagerStop, ManagerRelease, EndedStates
<1>4. CASE ManagerMarkFailed(s)
  BY <1>4, EndedHeeds, OnlySessionHeeds DEF ManagerMarkFailed, EndedStates
<1>5. CASE LeaseExpires(s) \/ HeartbeatAges(s) \/ GraceElapses(s)
  <2> DEFINE p == [r EXCEPT !.lease = "expired"]
             q == [r EXCEPT !.lease = "stale"]
             x == [r EXCEPT !.orphan = "over"]
  <2>1. OnlySession(s, p) \/ OnlySession(s, q) \/ OnlySession(s, x)
    BY <1>5 DEF LeaseExpires, HeartbeatAges, GraceElapses, OnlySession
  <2>2. /\ p.pause = r.pause /\ p.cur = r.cur
        /\ q.pause = r.pause /\ q.cur = r.cur
        /\ x.pause = r.pause /\ x.cur = r.cur
    BY <1>1, LeaseWritten, OrphanWritten, PauseWritten
  <2> HIDE DEF p, q, x
  <2> QED BY <1>2, <2>1, <2>2
<1>6. CASE WorkerExpiresIdle(s)
  BY <1>6, EndedHeeds, OnlySessionHeeds DEF WorkerExpiresIdle, EndedStates
<1>7. ASSUME NEW a \in Attempts, WorkerKeepsWrapUp(s, a) \/ WorkerPreserves(s, a)
      PROVE  Heeding
  <2> DEFINE x == Seen(r, "wrap_up")
             y == Seen(r, "reconnecting")
  <2>1. OnlySession(s, x) \/ OnlySession(s, y)
    BY <1>7 DEF WorkerKeepsWrapUp, WorkerPreserves
  <2>2. x.pause = r.pause /\ x.cur = r.cur /\ y.pause = r.pause /\ y.cur = r.cur
    BY <1>1, SeenHeeds DEF LiveStates
  <2> HIDE DEF x, y
  <2> QED BY <1>2, <2>1, <2>2
<1>8. ASSUME NEW a \in Attempts, WorkerFailsStart(s, a) PROVE Heeding
  <2> DEFINE q == Showing(attempt[a], "failed")
             x == Seen(r, "wrap_up")
  <2>1. attempt' = [attempt EXCEPT ![a] = q] /\ session' = [session EXCEPT ![s] = x]
    BY <1>8 DEF WorkerFailsStart, Moved
  <2>2. Onward(attempt[a], q)
    BY OnwardShowing DEF IInv, TypeOK, LegStatuses, TerminalStatuses
  <2>3. x.pause = r.pause /\ x.cur = r.cur
    BY <1>1, SeenHeeds DEF LiveStates
  <2> HIDE DEF q, x
  <2> QED BY <2>1, <2>2, <2>3, OneForward, OneHeeds, SameHeeds
<1>9. ASSUME NEW a \in Attempts, WorkerOpensGrace(s, a) PROVE Heeding
  <2>1. InGrace(r, a).pause = r.pause /\ InGrace(r, a).cur = r.cur
    BY <1>1, InGraceRow, PauseWritten
  <2> QED BY <1>2, <1>9, <2>1 DEF WorkerOpensGrace
<1>10. ASSUME NEW a \in Attempts, WorkerReleases(s, a) PROVE Heeding
  BY <1>1, <1>10, StopOrDrainHeeds DEF WorkerReleases, EndedStates
<1> QED BY <1>3, <1>4, <1>5, <1>6, <1>7, <1>8, <1>9, <1>10, CallerStepsHeed
    DEF SessionStep, WorkerPass

LEMMA CallStepsHeed ==
  ASSUME IInv, Shown, Noted, NEW s \in Sessions, NEW a \in Attempts, CallStep(s, a)
  PROVE  Heeding
<1> DEFINE r == attempt[a]
<1>1. r \in AttemptRows
  BY DEF IInv, TypeOK
<1>2. ASSUME NEW v \in CallStages, attempt' = [attempt EXCEPT ![a].call = v],
             r.leg = "queued", r.call # "placed", UNCHANGED session
      PROVE  Heeding
  <2> DEFINE q == [r EXCEPT !.call = v]
  <2>1. attempt' = [attempt EXCEPT ![a] = q]
    BY <1>2
  <2>2. Onward(r, q)
    BY <1>1, <1>2, OnwardCalled
  <2>3. q \in AttemptRows
    BY <1>1, CallWritten
  <2> HIDE DEF q
  <2> QED BY <1>2, <2>1, <2>2, <2>3, MoveHeeds
<1>3. ASSUME NEW mode \in Modes, PrepareCall(s, a, mode) PROVE Heeding
  <2>1. mode \in CallStages
    BY CoordinatorAssumption DEF CoordinatorAssumption, CallStages
  <2> QED BY <1>2, <1>3, <2>1 DEF PrepareCall, MayCall
<1>4. CASE Dispatch(s, a)
  BY <1>2, <1>4 DEF Dispatch, MayCall, CallStages
<1>5. CASE Place(s, a)
  <2> DEFINE q == Placed(r, "dialing")
  <2>1. attempt' = [attempt EXCEPT ![a] = q] /\ Mirror(a, attempt')
    BY <1>5 DEF Place
  <2>2. "dialing" \in LegStatuses
    BY DEF LegStatuses, ActiveStatuses
  <2>3. q \in AttemptRows /\ q.leg # "none" /\ Onward(r, q)
    BY <1>1, <2>2, PlacedRow, OnwardPlaced
  <2> HIDE DEF q
  <2> QED BY <2>1, <2>3, MoveHeeds
(* A call the browser can still abandon is not one a pause was noted for.  *)
<1>6. CASE Abandon(s, a)
  <2> DEFINE p == [session[s] EXCEPT !.cur = None]
             x == Reconciled(p, attempt)
  <2>1. /\ session[s].cur = a /\ a # None /\ r.call = "browserPrepared" /\ r.leg = "queued"
        /\ Release({a}) /\ session' = [session EXCEPT ![s] = x]
    BY <1>6 DEF Abandon
  <2>2. session[s] \in SessionRows /\ session[s].pause = FALSE
    BY <2>1, NoRecordNoPause DEF Noted, Begun
  <2>3. p \in SessionRows /\ p.pause = FALSE
    BY <2>2, CurWritten, PauseWritten
  <2> HIDE DEF p
  <2>4. x.pause = FALSE
    BY <2>3, ReconciledPause
  <2> HIDE DEF x
  <2>5. Forward
    BY <2>1, ReleaseForward
  <2> QED BY <2>1, <2>2, <2>4, <2>5, OneHeeds, UnaskedHeeds
<1>7. r.call = "placed" =>
        /\ BeingCancelled(r) \in AttemptRows /\ BeingCancelled(r).leg # "none"
        /\ Onward(r, BeingCancelled(r))
  BY <1>1, BeingCancelledRow, OnwardCancelling
<1>8. CASE Cancel(s, a)
  <2> DEFINE q == BeingCancelled(r)
  <2>1. attempt' = [attempt EXCEPT ![a] = q] /\ Mirror(a, attempt') /\ r.call = "placed"
    BY <1>8 DEF Cancel, Cancelling
  <2> HIDE DEF q
  <2> QED BY <1>7, <2>1, MoveHeeds DEF q
<1>9. CASE ManagerCancel(s, a)
  <2> DEFINE q == BeingCancelled(r)
             x == [session[s] EXCEPT !.stop = TRUE]
  <2>1. /\ attempt' = [attempt EXCEPT ![a] = q] /\ session' = [session EXCEPT ![s] = x]
        /\ r.call = "placed"
    BY <1>9 DEF ManagerCancel, Cancelling
  <2>2. x.pause = session[s].pause /\ x.cur = session[s].cur
    BY NoRecordNoPause, FlagsWritten, PauseWritten
  <2> HIDE DEF q, x
  <2>3. Onward(r, q)
    BY <1>7, <2>1 DEF q
  <2> QED BY <2>1, <2>2, <2>3, OneForward, OneHeeds, SameHeeds
<1>10. ASSUME NEW how \in {"seller", "technical"}
       PROVE  \A b \in Attempts : Closed(a, how)[b].undo = attempt[b].undo
  <2> DEFINE q == [r EXCEPT !.status = how]
  <2>1. Closed(a, how) = [attempt EXCEPT ![a] = q]
    BY DEF Closed
  <2>2. q.undo = r.undo
    BY <1>1, UndoRows
  <2> HIDE DEF q
  <2> QED BY <2>1, <2>2 DEF IInv, TypeOK
<1>11. ASSUME NEW out \in Said, NEW fallback \in BOOLEAN, CompleteSeller(s, a, out, fallback)
       PROVE  Heeding
  <2>1. Settled(s, Closed(a, "seller"), AfterOutcome(a, out, fallback))
    BY <1>11, AfterRows, DecisionSettles DEF CompleteSeller, IInv
  <2>2. WrapUp(s, Closed(a, "seller"), AfterOutcome(a, out, fallback))
    BY <1>11 DEF CompleteSeller
  <2> QED BY <1>10, <2>1, <2>2, WrapUpHeeds
<1>12. CASE CompleteTechnical(s, a)
  <2>1. Settled(s, Closed(a, "technical"), AfterFailure(a))
    BY <1>12, AfterRows, DecisionSettles DEF CompleteTechnical, IInv
  <2>2. WrapUp(s, Closed(a, "technical"), AfterFailure(a))
    BY <1>12 DEF CompleteTechnical
  <2> QED BY <1>10, <2>1, <2>2, WrapUpHeeds
<1> QED BY <1>3, <1>4, <1>5, <1>6, <1>8, <1>9, <1>11, <1>12 DEF CallStep

LEMMA AttemptStepsHeed ==
  ASSUME IInv, Shown, Noted, NEW a \in Attempts, AttemptStep(a)
  PROVE  Heeding
<1> DEFINE r == attempt[a]
<1>1. r \in AttemptRows
  BY DEF IInv, TypeOK
<1>2. ASSUME NEW v \in LegStatuses, v # "queued" \/ r.call = "placed",
             attempt' = Moved(a, v), Mirror(a, attempt')
      PROVE  Heeding
  <2> DEFINE q == Showing(r, v)
  <2>1. attempt' = [attempt EXCEPT ![a] = q]
    BY <1>2 DEF Moved
  <2>2. q \in AttemptRows /\ q.leg # "none" /\ Onward(r, q)
    BY <1>1, <1>2, ShowingRow, OnwardShowing DEF LegStatuses, ActiveStatuses, TerminalStatuses
  <2> HIDE DEF q
  <2> QED BY <1>2, <2>1, <2>2, MoveHeeds
<1>3. CASE StartFails(a)
  BY <1>2, <1>3 DEF StartFails, LegStatuses, TerminalStatuses
<1>4. ASSUME NEW x \in TwilioStatuses, ProviderEvent(a, FromTwilio[x]) PROVE Heeding
  BY <1>2, <1>4, TwilioTargets DEF ProviderEvent
<1>5. CASE CancelForgotten(a)
  <2> DEFINE q == [r EXCEPT !.undo = "none"]
  <2>1. attempt' = [attempt EXCEPT ![a] = q] /\ UNCHANGED session
    BY <1>5 DEF CancelForgotten
  <2>2. q \in AttemptRows /\ q.undo = "none" /\ q.leg = r.leg /\ q.call = r.call
    BY <1>1, UndoWritten, CallRows
  <2> HIDE DEF q
  <2>3. Onward(r, q)
    BY <2>2 DEF Onward, Begun, UndoPlaced
  <2> QED BY <2>1, <2>2, <2>3, MoveHeeds
<1>6. ASSUME NEW mirror \in BOOLEAN, CancelRefused(a, mirror) PROVE Heeding
  <2> DEFINE q == CancelUndone(r)
  <2>1. /\ attempt' = [attempt EXCEPT ![a] = q] /\ r.undo # "none"
        /\ UNCHANGED session \/ (r.leg = "cancelling" /\ Mirror(a, attempt'))
    BY <1>6, Zenon DEF CancelRefused
  <2>2. q \in AttemptRows
    <3>1. r.leg # "none"
      BY <2>1, NativeAttempts DEF Noted, UndoPlaced
    <3> QED BY <1>1, <2>1, <3>1, CancelUndoneRow
  <2>3. q.leg = IF r.leg = "cancelling" THEN r.undo ELSE r.leg
    BY <1>1 DEF CancelUndone, AttemptRows
  <2>4. Onward(r, q)
    BY <1>1, <2>1, OnwardUndone
  <2> HIDE DEF q
  <2>5. UNCHANGED session \/ (q.leg # "none" /\ Mirror(a, attempt'))
    BY <2>1, <2>3
  <2> QED BY <2>1, <2>2, <2>4, <2>5, MoveHeeds
<1>7. ASSUME NEW reported \in {"initiated", "ringing"}, LateRootCallback(a, reported)
      PROVE  Heeding
  <2> DEFINE target == CallbackTarget("queued", reported, FALSE)
             v == IF target = "none" THEN "queued" ELSE target
             q == Placed(r, v)
  <2>1. v \in LegStatuses
    BY TwilioTargets DEF v, LegStatuses, ActiveStatuses
  <2>2. /\ attempt' = [attempt EXCEPT ![a] = q]
        /\ UNCHANGED session \/ Mirror(a, attempt')
    BY <1>7, Zenon DEF LateRootCallback
  <2> HIDE DEF v
  <2>3. q \in AttemptRows /\ q.leg # "none" /\ Onward(r, q)
    BY <1>1, <2>1, PlacedRow, OnwardPlaced DEF LegStatuses, ActiveStatuses, TerminalStatuses
  <2> HIDE DEF q
  <2> QED BY <2>2, <2>3, MoveHeeds
<1>8. ASSUME NEW out \in Said, NEW fallback \in BOOLEAN, CompleteManual(a, out, fallback)
      PROVE  Heeding
  <2> DEFINE q == [r EXCEPT !.status = "seller"]
  <2>1. attempt' = [attempt EXCEPT ![a] = q] /\ UNCHANGED session
    BY <1>8 DEF CompleteManual, Closed
  <2>2. q \in AttemptRows /\ Onward(r, q)
    BY <1>1, AttemptStatusWritten, OnwardStatus
  <2> HIDE DEF q
  <2> QED BY <2>1, <2>2, MoveHeeds
<1> QED BY <1>3, <1>4, <1>5, <1>6, <1>7, <1>8 DEF AttemptStep

LEMMA EntryStepsHeed ==
  ASSUME IInv, NEW e \in Entries, EntryStep(e)
  PROVE  Heeding
<1>1. ASSUME NEW a \in Attempts, StartManual(e, a) PROVE Heeding
  <2> DEFINE q == OpenedByHand(e)
  <2>1. attempt' = [attempt EXCEPT ![a] = q] /\ UNCHANGED session /\ attempt[a].status = "free"
    BY <1>1 DEF StartManual
  <2>2. Taken(attempt[a], q)
    BY <2>1, NewRows DEF Taken, UndoPlaced
  <2> HIDE DEF q
  <2> QED BY <2>1, <2>2, OneForward, SameHeeds DEF Heeding
<1> QED BY <1>1, NothingHeeds DEF EntryStep, DecideHandoff, EntryFallsDue

LEMMA RollbackHeeds ==
  ASSUME IInv, NEW c \in Callers, NEW drain \in BOOLEAN, PilotRollback(c, drain)
  PROVE  Heeding
<1> DEFINE scope == {s \in Sessions : CallerOf[s] = c /\ Live(s)}
           open == {s \in scope : session[s].cur \in Open(attempt)}
           unsafe == {s \in open : ~ /\ attempt[session[s].cur].leg = "queued"
                                     /\ attempt[session[s].cur].call
                                          \in {"none", "browserPrepared"}}
           R == Held(open \ unsafe)
<1>1. /\ Release(R)
      /\ session' = [s \in Sessions |->
           IF s \in unsafe THEN [session[s] EXCEPT !.stop = TRUE]
           ELSE IF s \in scope THEN Ended("stopped")
           ELSE session[s]]
  BY DEF PilotRollback
<1>2. R \in SUBSET Attempts
  BY HeldAttempts DEF IInv
<1> HIDE DEF R, unsafe, open, scope
<1>3. Forward
  BY <1>1, <1>2, ReleaseForward
<1>4. ASSUME NEW s \in Sessions PROVE Heeds(session[s], session'[s])
  <2> DEFINE x == [session[s] EXCEPT !.stop = TRUE]
  <2>1. x.pause = session[s].pause /\ x.cur = session[s].cur
    BY PauseWritten, FlagsWritten DEF IInv, TypeOK
  <2>2. session'[s] \in {Ended("stopped"), x, session[s]}
    BY <1>1
  <2> HIDE DEF x
  <2> QED BY <2>1, <2>2, SameHeeds, EndedHeeds DEF EndedStates
<1> QED BY <1>3, <1>4 DEF Heeding

LEMMA EveryStepHeeds == IInv /\ Shown /\ Noted /\ [Next]_vars => Heeding
<1> SUFFICES ASSUME IInv, Shown, Noted, [Next]_vars PROVE Heeding
  OBVIOUS
<1>1. CASE UNCHANGED vars
  BY <1>1, NothingHeeds DEF vars
<1>2. ASSUME NEW c \in Callers, CallerStep(c) PROVE Heeding
  <2>1. CASE StartRead(c) \/ StartRefused(c) \/ CallerLeaves(c)
    BY <2>1, NothingHeeds DEF StartRead, StartRefused, CallerLeaves
  <2> QED BY <1>2, <2>1, RollbackHeeds DEF CallerStep
<1>3. CASE SwitchOn
  BY <1>3, NothingHeeds DEF SwitchOn
<1>4. CASE SwitchOff
  BY <1>4, StopOrDrainHeeds DEF SwitchOff, EndedStates
<1> QED BY <1>1, <1>2, <1>3, <1>4, SessionStepsHeed, CallStepsHeed, AttemptStepsHeed,
           EntryStepsHeed DEF Next

(* A caller who asked to pause after the current call is given no further  *)
(* record on the way to the pause: complete_native_wrap_up honours         *)
(* pause_after_current, and nothing else detaches the session from a       *)
(* record whose call has begun except by ending the session.               *)
THEOREM PausesHold == Spec => PauseRespected
<1>1. Init => Noted
  BY DEF Init, Noted, BlankSession, BlankAttempt, UndoPlaced
<1>2. IInv /\ Shown /\ Noted /\ [Next]_vars => Noted'
  BY EveryStepHeeds, NotedStep
<1>3. IInv /\ Shown /\ Noted /\ [Next]_vars =>
        \A s \in Sessions :
          session[s].pause /\ session'[s].cur # session[s].cur
            => session'[s].cur = None /\ session'[s].state \in {"paused"} \cup EndedStates
  BY EveryStepHeeds DEF Heeding, Heeds
<1> QED BY <1>1, <1>2, <1>3, Invariance, ShownFromInit, ShownStep, PTL DEF Spec, PauseRespected

-----------------------------------------------------------------------------
(* The property, of rows a transaction has built.  A transaction lets go   *)
(* of the attempts R and their records, or takes up one record.            *)

Works(a, e, A) == A[a].status = "in_progress" /\ A[a].entry = e

Exclusive(A, E) ==
  /\ \A e \in Entries : E[e].status = "in_progress" <=> \E a \in Attempts : Works(a, e, A)
  /\ \A a, b \in Attempts :
       /\ A[a].status = "in_progress" /\ A[b].status = "in_progress"
       /\ OwnerOf[A[a].entry] = OwnerOf[A[b].entry]
       => a = b

LetsGo(R, A, E, B, F) ==
  /\ \A a \in Attempts :
       /\ B[a].status = "in_progress" <=> A[a].status = "in_progress" /\ a \notin R
       /\ B[a].status = "in_progress" => B[a].entry = A[a].entry
  /\ \A e \in Entries :
       F[e].status = "in_progress" <=>
         E[e].status = "in_progress" /\ \A a \in R : ~Works(a, e, A)

TakesUp(a, e, A, E, B, F) ==
  /\ A[a].status # "in_progress" /\ ~CallerBusy(OwnerOf[e], A)
  /\ Works(a, e, B) /\ \A b \in Attempts : b # a => B[b] = A[b]
  /\ F[e].status = "in_progress" /\ \A x \in Entries : x # e => F[x].status = E[x].status

LEMMA Exclusivity == OneAttemptAtATime <=> Exclusive(attempt, entry)
  BY DEF OneAttemptAtATime, Exclusive, Works

LEMMA LettingGo ==
  ASSUME NEW A, NEW E, NEW B, NEW F, NEW R \in SUBSET Attempts, Exclusive(A, E),
         LetsGo(R, A, E, B, F)
  PROVE  Exclusive(B, F)
<1>1. ASSUME NEW e \in Entries, F[e].status = "in_progress"
      PROVE  \E a \in Attempts : Works(a, e, B)
  <2>1. PICK a \in Attempts : Works(a, e, A)
    BY <1>1 DEF Exclusive, LetsGo
  <2>2. a \notin R
    BY <1>1, <2>1 DEF LetsGo
  <2> QED BY <2>1, <2>2 DEF LetsGo, Works
<1>2. ASSUME NEW e \in Entries, NEW a \in Attempts, Works(a, e, B)
      PROVE  F[e].status = "in_progress"
  <2>1. Works(a, e, A) /\ a \notin R
    BY <1>2 DEF LetsGo, Works
  <2>2. \A b \in R : ~Works(b, e, A)
    BY <2>1 DEF Exclusive, Works
  <2> QED BY <2>1, <2>2 DEF Exclusive, LetsGo
<1>3. ASSUME NEW a \in Attempts, NEW b \in Attempts,
             B[a].status = "in_progress", B[b].status = "in_progress",
             OwnerOf[B[a].entry] = OwnerOf[B[b].entry]
      PROVE  a = b
  BY <1>3 DEF Exclusive, LetsGo
<1> QED BY <1>1, <1>2, <1>3 DEF Exclusive

LEMMA TakingUp ==
  ASSUME NEW A, NEW E, NEW B, NEW F, NEW a \in Attempts, NEW e \in Entries,
         Exclusive(A, E), TakesUp(a, e, A, E, B, F)
  PROVE  Exclusive(B, F)
<1> USE DEF TakesUp
<1>1. \A b \in Attempts : B[b].status = "in_progress" /\ b # a =>
        A[b].status = "in_progress" /\ OwnerOf[B[b].entry] # OwnerOf[e]
  BY DEF CallerBusy
<1>2. \A x \in Entries : F[x].status = "in_progress" <=> \E b \in Attempts : Works(b, x, B)
  <2> TAKE x \in Entries
  <2>1. CASE x = e
    BY <2>1
  <2>2. CASE x # e
    <3>1. \A b \in Attempts : Works(b, x, B) <=> Works(b, x, A)
      BY <2>2 DEF Works
    <3> QED BY <2>2, <3>1 DEF Exclusive
  <2> QED BY <2>1, <2>2
<1> QED BY <1>1, <1>2 DEF Exclusive, Works

-----------------------------------------------------------------------------
(* The transactions. *)

(* One that leaves the attempts' decisions and the records' places alone.  *)
LEMMA InPlaceKeeps ==
  ASSUME OneAttemptAtATime,
         \A a \in Attempts : attempt'[a].status = attempt[a].status
                             /\ attempt'[a].entry = attempt[a].entry,
         \A e \in Entries :
           entry'[e].status = "in_progress" <=> entry[e].status = "in_progress"
  PROVE  OneAttemptAtATime'
  BY DEF OneAttemptAtATime

LEMMA UnchangedKeeps ==
  ASSUME OneAttemptAtATime, UNCHANGED <<attempt, entry>>
  PROVE  OneAttemptAtATime'
  BY DEF OneAttemptAtATime

LEMMA RowKeeps ==
  ASSUME IInv, OneAttemptAtATime, NEW a \in Attempts, NEW q,
         attempt' = [attempt EXCEPT ![a] = q], entry' = entry,
         q.status = attempt[a].status, q.entry = attempt[a].entry
  PROVE  OneAttemptAtATime'
<1>1. attempt'[a] = q /\ \A b \in Attempts : b # a => attempt'[b] = attempt[b]
  BY DEF IInv, TypeOK
<1> QED BY <1>1, InPlaceKeeps

LEMMA ReleaseLetsGo ==
  ASSUME IInv, OneAttemptAtATime, NEW R \in SUBSET Attempts, Release(R),
         \A a \in R : \E s \in Sessions : session[s].cur = a
  PROVE  OneAttemptAtATime'
<1>1. \A a \in R : a # None /\ attempt[a].status = "in_progress" /\ attempt[a].by \in Sessions
  BY CoordinatorAssumption DEF IInv, Ownership, CurrentIsUndecided, CoordinatorAssumption
<1>2. \A a \in R : attempt[a].snap.status \in {"queued", "needs_correction"}
  <2> SUFFICES ASSUME NEW a \in R
               PROVE  attempt[a].snap.status \in {"queued", "needs_correction"}
    OBVIOUS
  <2>1. attempt[a] \in AttemptRows /\ attempt[a].snap.status # "none"
    BY <1>1, CoordinatorAssumption DEF IInv, TypeOK, Ownership, Native, CoordinatorAssumption
  <2> QED BY <2>1 DEF AttemptRows
<1>3. \A a \in R : attempt'[a].status = "cancelled"
  BY CancelledRow DEF Release, Released, IInv, TypeOK
<1>4. \A a \in Attempts \ R : attempt'[a] = attempt[a]
  BY DEF Release, Released
<1>5. \A e \in Entries : (\A a \in R : attempt[a].entry # e) => entry'[e] = entry[e]
  BY DEF Release, Restored
<1>6. ASSUME NEW e \in Entries, NEW a \in R, attempt[a].entry = e
      PROVE  entry'[e].status # "in_progress"
  <2> DEFINE b == CHOOSE x \in R : attempt[x].entry = e
  <2>1. b \in R
    BY <1>6
  <2>2. entry'[e] = PutBack(entry[e], attempt[b].snap)
    BY <1>6 DEF Release, Restored
  <2> HIDE DEF b
  <2>3. entry'[e].status = attempt[b].snap.status
    BY <2>2 DEF PutBack, IInv, TypeOK, EntryRows
  <2> QED BY <1>2, <2>1, <2>3
<1>7. LetsGo(R, attempt, entry, attempt', entry')
  <2>1. \A a \in Attempts :
          /\ attempt'[a].status = "in_progress" <=> attempt[a].status = "in_progress" /\ a \notin R
          /\ attempt'[a].status = "in_progress" => attempt'[a].entry = attempt[a].entry
    BY <1>3, <1>4
  <2>2. \A e \in Entries :
          entry'[e].status = "in_progress" <=>
            entry[e].status = "in_progress" /\ \A a \in R : ~Works(a, e, attempt)
    <3> TAKE e \in Entries
    <3>1. CASE \E a \in R : attempt[a].entry = e
      BY <1>1, <1>6, <3>1 DEF Works
    <3>2. CASE \A a \in R : attempt[a].entry # e
      BY <1>5, <3>2 DEF Works
    <3> QED BY <3>1, <3>2
  <2> QED BY <2>1, <2>2 DEF LetsGo
<1>8. Exclusive(attempt', entry')
  BY <1>7, LettingGo, Exclusivity
<1> QED BY <1>8 DEF OneAttemptAtATime, Exclusive, Works

LEMMA StopOrDrainLetsGo ==
  ASSUME IInv, OneAttemptAtATime, NEW S \in SUBSET Sessions, NEW how, StopOrDrain(S, how)
  PROVE  OneAttemptAtATime'
<1> DEFINE idle == {s \in S : Idle(s)}
           R == Held(idle)
<1>1. Release(R)
  BY DEF StopOrDrain
<1>2. R \in SUBSET Attempts /\ \A a \in R : \E s \in idle : session[s].cur = a
  BY HeldAttempts DEF IInv
<1> HIDE DEF R
<1> QED BY <1>1, <1>2, ReleaseLetsGo

(* Attempt a is decided, and its record goes where the outcome says.       *)
LEMMA DecisionLetsGo ==
  ASSUME IInv, OneAttemptAtATime, NEW a \in Attempts, attempt[a].status = "in_progress",
         NEW how \in {"seller", "technical"}, NEW row, row.status # "in_progress"
  PROVE  Exclusive(Closed(a, how), [entry EXCEPT ![attempt[a].entry] = row])
<1> DEFINE e == attempt[a].entry
           q == [attempt[a] EXCEPT !.status = how]
           B == [attempt EXCEPT ![a] = q]
           F == [entry EXCEPT ![e] = row]
<1>1. q.status = how
  BY DEF IInv, TypeOK, AttemptRows
<1>2. e \in Entries
  BY DEF IInv, Ownership, Native
<1>3. Closed(a, how) = B
  BY DEF Closed
<1> HIDE DEF q
<1>4. B[a] = q /\ \A b \in Attempts : b # a => B[b] = attempt[b]
  BY DEF IInv, TypeOK
<1>5. F[e] = row /\ \A x \in Entries : x # e => F[x] = entry[x]
  BY <1>2 DEF IInv, TypeOK
<1> HIDE DEF B, F
<1>6. LetsGo({a}, attempt, entry, B, F)
  BY <1>1, <1>4, <1>5 DEF LetsGo, Works
<1>7. Exclusive(B, F)
  BY <1>6, LettingGo, Exclusivity
<1> QED BY <1>3, <1>7 DEF F

LEMMA ReserveNextTakesUp ==
  ASSUME NEW s \in Sessions, NEW A \in [Attempts -> AttemptRows], NEW E \in [Entries -> EntryRows],
         Exclusive(A, E), NEW r, ReserveNext(s, r, A, E)
  PROVE  OneAttemptAtATime'
<1>1. CASE QueueExhausted(s, A, E)
  BY <1>1 DEF QueueExhausted, Exclusive, OneAttemptAtATime, Works
<1>2. CASE ReserveOne(s, r, A, E)
  <2>1. PICK a \in Attempts, e \in Entries :
          /\ A[a].status = "free" /\ E[e].status \in {"queued", "needs_correction"}
          /\ ~CallerBusy(OwnerOf[e], A)
          /\ attempt' = [A EXCEPT ![a] = Reserved(s, e, E[e])]
          /\ entry' = [E EXCEPT ![e].status = "in_progress"]
    BY <1>2 DEF ReserveOne, Candidates
  <2>2. Works(a, e, attempt')
    BY <2>1, ReservedRow DEF Works
  <2>3. entry'[e].status = "in_progress" /\ \A x \in Entries : x # e => entry'[x] = E[x]
    BY <2>1 DEF EntryRows
  <2>4. \A b \in Attempts : b # a => attempt'[b] = A[b]
    BY <2>1
  <2>5. TakesUp(a, e, A, E, attempt', entry')
    BY <2>1, <2>2, <2>3, <2>4 DEF TakesUp
  <2>6. Exclusive(attempt', entry')
    BY <2>5, TakingUp
  <2> QED BY <2>6 DEF Exclusive, OneAttemptAtATime, Works
<1> QED BY <1>1, <1>2 DEF ReserveNext

LEMMA DisposedElsewhere ==
  ASSUME NEW e, NEW out, NEW n, NEW fallback
  PROVE  Disposed(e, out, n, fallback).status # "in_progress"
<1> DEFINE left ==
      CASE out \in {"no_answer", "left_voicemail"} /\ n < MaxSellerAttempts
                     -> [status |-> "queued", due |-> FALSE]
        [] out = "callback" -> [status |-> "queued", due |-> FALSE]
        [] out = "warm" -> [status |-> "handoff_pending", due |-> TRUE]
        [] out = "wrong_number" /\ fallback -> [status |-> "queued", due |-> TRUE]
        [] OTHER -> [status |-> "completed", due |-> TRUE]
<1>1. left.status \in {"queued", "handoff_pending", "completed"}
  BY DEF left
<1>2. Disposed(e, out, n, fallback).status = left.status
  BY DEF Disposed, left
<1> HIDE DEF left
<1> QED BY <1>1, <1>2

LEMMA OutcomeLetsGo ==
  ASSUME IInv, OneAttemptAtATime, NEW a \in Attempts, attempt[a].status = "in_progress",
         NEW out, NEW fallback
  PROVE  Exclusive(Closed(a, "seller"), AfterOutcome(a, out, fallback))
<1> DEFINE e == attempt[a].entry
           row == Disposed(e, out, SellerAttempts(e, attempt) + 1, fallback)
<1>1. AfterOutcome(a, out, fallback) = [entry EXCEPT ![e] = row]
  BY DEF AfterOutcome
<1>2. row.status # "in_progress"
  BY DisposedElsewhere
<1> HIDE DEF row
<1>3. Exclusive(Closed(a, "seller"), [entry EXCEPT ![attempt[a].entry] = row])
  BY <1>2, DecisionLetsGo
<1> QED BY <1>1, <1>3

LEMMA FailureLetsGo ==
  ASSUME IInv, OneAttemptAtATime, NEW a \in Attempts, attempt[a].status = "in_progress"
  PROVE  Exclusive(Closed(a, "technical"), AfterFailure(a))
<1> DEFINE e == attempt[a].entry
           row == [entry[e] EXCEPT !.status = "queued", !.due = FALSE]
<1>1. AfterFailure(a) = [entry EXCEPT ![e] = row]
  BY DEF AfterFailure
<1>2. e \in Entries
  BY DEF IInv, Ownership, Native
<1>3. row.status = "queued"
  BY <1>2 DEF IInv, TypeOK, EntryRows
<1> HIDE DEF row
<1>4. Exclusive(Closed(a, "technical"), [entry EXCEPT ![attempt[a].entry] = row])
  BY <1>3, DecisionLetsGo
<1> QED BY <1>1, <1>4

LEMMA WrapUpKeepsRecords ==
  ASSUME NEW s \in Sessions, NEW A \in [Attempts -> AttemptRows], NEW E \in [Entries -> EntryRows],
         Exclusive(A, E), WrapUp(s, A, E)
  PROVE  OneAttemptAtATime'
<1> DEFINE r == Renewed(Detached(session[s]))
<1>1. (attempt' = A /\ entry' = E) \/ ReserveNext(s, r, A, E)
  BY DEF WrapUp
<1> HIDE DEF r
<1>2. CASE attempt' = A /\ entry' = E
  BY <1>2 DEF Exclusive, OneAttemptAtATime, Works
<1> QED BY <1>1, <1>2, ReserveNextTakesUp

-----------------------------------------------------------------------------
(* Every action. *)

LEMMA SessionStepsKeep ==
  ASSUME IInv, OneAttemptAtATime, NEW s \in Sessions, SessionStep(s)
  PROVE  OneAttemptAtATime'
<1>1. {s} \in SUBSET Sessions
  OBVIOUS
<1>2. (\E r : OnlySession(s, r)) \/ UNCHANGED <<attempt, entry>> => OneAttemptAtATime'
  BY UnchangedKeeps DEF OnlySession
<1>3. \A r : ReserveNext(s, r, attempt, entry) => OneAttemptAtATime'
  BY ReserveNextTakesUp, Exclusivity DEF IInv, TypeOK
<1>4. CASE StartCommit(s) \/ ReserveRequest(s)
  BY <1>3, <1>4 DEF StartCommit, ReserveRequest
<1>5. CASE Heartbeat(s) \/ Pause(s) \/ ManagerMarkFailed(s)
  BY <1>2, <1>5 DEF Heartbeat, Pause, ManagerMarkFailed
<1>6. CASE HeartbeatKill(s) \/ End(s) \/ ManagerStop(s) \/ ManagerRelease(s)
  BY <1>1, <1>2, <1>6, StopOrDrainLetsGo DEF HeartbeatKill, End, ManagerStop, ManagerRelease
<1>7. CASE Resume(s)
  BY <1>2, <1>3, <1>7 DEF Resume
<1>8. CASE Recover(s)
  BY <1>2, <1>3, <1>8 DEF Recover, ReserveNext
<1>9. CASE WorkerPass(s)
  <2>1. CASE WorkerExpiresIdle(s)
    BY <1>2, <2>1 DEF WorkerExpiresIdle
  <2>2. ASSUME NEW a \in Attempts,
               WorkerKeepsWrapUp(s, a) \/ WorkerPreserves(s, a) \/ WorkerOpensGrace(s, a)
        PROVE  OneAttemptAtATime'
    BY <1>2, <2>2 DEF WorkerKeepsWrapUp, WorkerPreserves, WorkerOpensGrace
  <2>3. ASSUME NEW a \in Attempts, WorkerFailsStart(s, a) PROVE OneAttemptAtATime'
    <3> DEFINE q == Showing(attempt[a], "failed")
    <3>1. attempt' = [attempt EXCEPT ![a] = q] /\ entry' = entry
      BY <2>3 DEF WorkerFailsStart, Moved
    <3>2. q.status = attempt[a].status /\ q.entry = attempt[a].entry
      BY ShowingRow DEF IInv, TypeOK, LegStatuses, TerminalStatuses
    <3> HIDE DEF q
    <3> QED BY <3>1, <3>2, RowKeeps
  <2>4. ASSUME NEW a \in Attempts, WorkerReleases(s, a) PROVE OneAttemptAtATime'
    BY <1>1, <2>4, StopOrDrainLetsGo DEF WorkerReleases
  <2> QED BY <1>9, <2>1, <2>2, <2>3, <2>4 DEF WorkerPass
<1>10. CASE LeaseExpires(s) \/ HeartbeatAges(s) \/ GraceElapses(s)
  BY <1>2, <1>10 DEF LeaseExpires, HeartbeatAges, GraceElapses
<1> QED BY <1>4, <1>5, <1>6, <1>7, <1>8, <1>9, <1>10 DEF SessionStep

LEMMA CallStepsKeep ==
  ASSUME IInv, OneAttemptAtATime, NEW s \in Sessions, NEW a \in Attempts, CallStep(s, a)
  PROVE  OneAttemptAtATime'
<1> DEFINE r == attempt[a]
<1>1. r \in AttemptRows
  BY DEF IInv, TypeOK
<1>2. ASSUME NEW mode \in Modes, PrepareCall(s, a, mode) PROVE OneAttemptAtATime'
  <2>1. mode \in CallStages
    BY CoordinatorAssumption DEF CoordinatorAssumption, CallStages
  <2> QED BY <1>1, <1>2, <2>1, CallWritten, RowKeeps DEF PrepareCall
<1>3. CASE Dispatch(s, a)
  BY <1>1, <1>3, CallWritten, RowKeeps DEF Dispatch, CallStages
<1>4. CASE Place(s, a)
  <2> DEFINE q == Placed(r, "dialing")
  <2>1. attempt' = [attempt EXCEPT ![a] = q] /\ entry' = entry
    BY <1>4 DEF Place
  <2>2. q.status = r.status /\ q.entry = r.entry
    BY <1>1, PlacedRow DEF LegStatuses, ActiveStatuses
  <2> HIDE DEF q
  <2> QED BY <2>1, <2>2, RowKeeps
<1>5. CASE Abandon(s, a)
  BY <1>5, ReleaseLetsGo DEF Abandon
<1>6. CASE Cancel(s, a) \/ ManagerCancel(s, a)
  <2> DEFINE q == BeingCancelled(r)
  <2>1. attempt' = [attempt EXCEPT ![a] = q] /\ entry' = entry
    BY <1>6 DEF Cancel, ManagerCancel, Cancelling
  <2>2. q.status = r.status /\ q.entry = r.entry
    BY <1>1, BeingCancelledRow
  <2> HIDE DEF q
  <2> QED BY <2>1, <2>2, RowKeeps
<1>7. \A how \in {"seller", "technical"} : Closed(a, how) \in [Attempts -> AttemptRows]
  <2> SUFFICES ASSUME NEW how \in {"seller", "technical"}
               PROVE  Closed(a, how) \in [Attempts -> AttemptRows]
    OBVIOUS
  <2> DEFINE q == [r EXCEPT !.status = how]
  <2>1. q \in AttemptRows
    BY <1>1, AttemptStatusWritten
  <2>2. Closed(a, how) = [attempt EXCEPT ![a] = q]
    BY DEF Closed
  <2> HIDE DEF q
  <2> QED BY <2>1, <2>2 DEF IInv, TypeOK
<1>8. ASSUME NEW out \in Said, NEW fallback \in BOOLEAN, CompleteSeller(s, a, out, fallback)
      PROVE  OneAttemptAtATime'
  <2>1. Exclusive(Closed(a, "seller"), AfterOutcome(a, out, fallback))
    BY <1>8, OutcomeLetsGo DEF CompleteSeller, AtWrapUp
  <2> QED BY <1>7, <1>8, <2>1, AfterRows, WrapUpKeepsRecords DEF CompleteSeller, IInv
<1>9. CASE CompleteTechnical(s, a)
  <2>1. Exclusive(Closed(a, "technical"), AfterFailure(a))
    BY <1>9, FailureLetsGo DEF CompleteTechnical, AtWrapUp
  <2> QED BY <1>7, <1>9, <2>1, AfterRows, WrapUpKeepsRecords DEF CompleteTechnical, IInv
<1> QED BY <1>2, <1>3, <1>4, <1>5, <1>6, <1>8, <1>9 DEF CallStep

LEMMA AttemptStepsKeep ==
  ASSUME IInv, OneAttemptAtATime, NEW a \in Attempts, AttemptStep(a)
  PROVE  OneAttemptAtATime'
<1> DEFINE r == attempt[a]
<1>1. r \in AttemptRows
  BY DEF IInv, TypeOK
<1>2. ASSUME NEW v \in LegStatuses, attempt' = Moved(a, v), entry' = entry
      PROVE  OneAttemptAtATime'
  <2> DEFINE q == Showing(r, v)
  <2>1. attempt' = [attempt EXCEPT ![a] = q]
    BY <1>2 DEF Moved
  <2>2. q.status = r.status /\ q.entry = r.entry
    BY <1>1, ShowingRow
  <2> HIDE DEF q
  <2> QED BY <1>2, <2>1, <2>2, RowKeeps
<1>3. CASE StartFails(a)
  BY <1>2, <1>3 DEF StartFails, LegStatuses, TerminalStatuses
<1>4. CASE CancelForgotten(a)
  BY <1>1, <1>4, UndoWritten, RowKeeps DEF CancelForgotten
<1>5. ASSUME NEW mirror \in BOOLEAN, CancelRefused(a, mirror) PROVE OneAttemptAtATime'
  <2> DEFINE q == CancelUndone(r)
  <2>1. attempt' = [attempt EXCEPT ![a] = q] /\ entry' = entry
    BY <1>5 DEF CancelRefused
  <2>2. q.status = r.status /\ q.entry = r.entry
    BY <1>1 DEF CancelUndone, AttemptRows
  <2> HIDE DEF q
  <2> QED BY <2>1, <2>2, RowKeeps
<1>6. ASSUME NEW reported \in {"initiated", "ringing"}, LateRootCallback(a, reported)
      PROVE  OneAttemptAtATime'
  <2> DEFINE target == CallbackTarget("queued", reported, FALSE)
             v == IF target = "none" THEN "queued" ELSE target
             q == Placed(r, v)
  <2>1. v \in LegStatuses
    BY TwilioTargets DEF v, LegStatuses, ActiveStatuses
  <2>2. attempt' = [attempt EXCEPT ![a] = q] /\ entry' = entry
    BY <1>6 DEF LateRootCallback
  <2> HIDE DEF v
  <2>3. q.status = r.status /\ q.entry = r.entry
    BY <1>1, <2>1, PlacedRow
  <2> HIDE DEF q
  <2> QED BY <2>2, <2>3, RowKeeps
<1>7. ASSUME NEW x \in TwilioStatuses, ProviderEvent(a, FromTwilio[x])
      PROVE  OneAttemptAtATime'
  BY <1>2, <1>7, TwilioTargets DEF ProviderEvent
<1>8. ASSUME NEW out \in Said, NEW fallback \in BOOLEAN, CompleteManual(a, out, fallback)
      PROVE  OneAttemptAtATime'
  <2>1. Exclusive(attempt', entry')
    BY <1>8, OutcomeLetsGo DEF CompleteManual
  <2> QED BY <2>1 DEF Exclusive, OneAttemptAtATime, Works
<1> QED BY <1>3, <1>4, <1>5, <1>6, <1>7, <1>8 DEF AttemptStep

LEMMA EntryStepsKeep ==
  ASSUME IInv, OneAttemptAtATime, NEW e \in Entries, EntryStep(e)
  PROVE  OneAttemptAtATime'
<1>1. ASSUME NEW a \in Attempts, StartManual(e, a) PROVE OneAttemptAtATime'
  <2> DEFINE q == OpenedByHand(e)
  <2>1. q.status = "in_progress" /\ q.entry = e
    BY OpenedByHandRow
  <2>2. attempt' = [attempt EXCEPT ![a] = q]
    BY <1>1 DEF StartManual
  <2> HIDE DEF q
  <2>3. Works(a, e, attempt') /\ \A b \in Attempts : b # a => attempt'[b] = attempt[b]
    BY <2>1, <2>2 DEF Works, IInv, TypeOK
  <2>4. entry'[e].status = "in_progress" /\ \A x \in Entries : x # e => entry'[x] = entry[x]
    BY <1>1 DEF StartManual, IInv, TypeOK, EntryRows
  <2>5. attempt[a].status # "in_progress" /\ ~CallerBusy(OwnerOf[e], attempt)
    BY <1>1 DEF StartManual
  <2>7. TakesUp(a, e, attempt, entry, attempt', entry')
    BY <2>3, <2>4, <2>5 DEF TakesUp
  <2>6. Exclusive(attempt', entry')
    BY <2>7, TakingUp, Exclusivity
  <2> QED BY <2>6 DEF Exclusive, OneAttemptAtATime, Works
<1>2. CASE EntryFallsDue(e) \/ \E d \in {"completed", "needs_correction"} : DecideHandoff(e, d)
  <2>1. attempt' = attempt
    BY <1>2 DEF EntryFallsDue, DecideHandoff
  <2>2. \A x \in Entries : entry'[x].status = "in_progress" <=> entry[x].status = "in_progress"
    BY <1>2 DEF EntryFallsDue, DecideHandoff, IInv, TypeOK, EntryRows
  <2> QED BY <2>1, <2>2, InPlaceKeeps
<1> QED BY <1>1, <1>2 DEF EntryStep

LEMMA RollbackKeepsRecords ==
  ASSUME IInv, OneAttemptAtATime, NEW c \in Callers, NEW drain \in BOOLEAN,
         PilotRollback(c, drain)
  PROVE  OneAttemptAtATime'
<1> DEFINE scope == {s \in Sessions : CallerOf[s] = c /\ Live(s)}
           open == {s \in scope : session[s].cur \in Open(attempt)}
           unsafe == {s \in open : ~ /\ attempt[session[s].cur].leg = "queued"
                                     /\ attempt[session[s].cur].call
                                          \in {"none", "browserPrepared"}}
           R == Held(open \ unsafe)
<1>1. Release(R)
  BY DEF PilotRollback
<1>2. R \in SUBSET Attempts /\ \A a \in R : \E s \in open \ unsafe : session[s].cur = a
  BY HeldAttempts DEF IInv
<1>3. \A s \in open \ unsafe : s \in Sessions
  OBVIOUS
<1> HIDE DEF R, unsafe, open, scope
<1> QED BY <1>1, <1>2, <1>3, ReleaseLetsGo

LEMMA RecordsStep == IInv /\ OneAttemptAtATime /\ [Next]_vars => OneAttemptAtATime'
<1> SUFFICES ASSUME IInv, OneAttemptAtATime, [Next]_vars PROVE OneAttemptAtATime'
  OBVIOUS
<1>1. CASE UNCHANGED vars
  BY <1>1, UnchangedKeeps DEF vars
<1>2. ASSUME NEW c \in Callers, CallerStep(c) PROVE OneAttemptAtATime'
  <2>1. CASE StartRead(c) \/ StartRefused(c) \/ CallerLeaves(c)
    BY <2>1, UnchangedKeeps DEF StartRead, StartRefused, CallerLeaves
  <2> QED BY <1>2, <2>1, RollbackKeepsRecords DEF CallerStep
<1>3. CASE SwitchOn
  BY <1>3, UnchangedKeeps DEF SwitchOn
<1>4. CASE SwitchOff
  BY <1>4, StopOrDrainLetsGo DEF SwitchOff
<1> QED BY <1>1, <1>2, <1>3, <1>4, SessionStepsKeep, CallStepsKeep, AttemptStepsKeep,
           EntryStepsKeep DEF Next

(* A record is in progress exactly while one attempt works on it, and no   *)
(* caller has two: reservations, releases, dispositions and records opened *)
(* by hand keep the entries of the calling list and the attempts in step.  *)
THEOREM OneRecordAtATime == Spec => []OneAttemptAtATime
<1>1. Init => OneAttemptAtATime
  BY BlankRows DEF Init, OneAttemptAtATime
<1> QED BY <1>1, Invariance, RecordsStep, PTL DEF Spec

-----------------------------------------------------------------------------
(* What a transaction does to the books. *)

MovesOn(r, q) ==
  /\ RowStage(q) = RowStage(r) \/ RowStage(q) \in Contract!MovesTo[RowStage(r)]
  /\ r.status # "free" => q.entry = r.entry

(* A native attempt in progress carries the count its release restores.    *)
Remembers(r, E) ==
  r.status = "in_progress" /\ r.by # None => r.snap.count = E[r.entry].count

AllRemember == \A a \in Attempts : Remembers(attempt[a], entry)

Follows(r, q, E) ==
  /\ MovesOn(r, q)
  /\ \/ Remembers(q, E)
     \/ r.status = "in_progress" /\ q.by = r.by /\ q.snap = r.snap

NoneDecided(A, E) ==
  /\ \A a \in Attempts : A[a].status = "seller" <=> attempt[a].status = "seller"
  /\ \A e \in Entries : E[e].count = entry[e].count

OneDecided(a, A, E) ==
  /\ attempt[a].status = "in_progress" /\ A[a].status = "seller"
  /\ \A b \in Attempts \ {a} : A[b].status = "seller" <=> attempt[b].status = "seller"
  /\ \A e \in Entries :
       E[e].count = IF e = attempt[a].entry THEN entry[e].count + 1 ELSE entry[e].count

Booked(A, E) ==
  /\ \A a \in Attempts : Follows(attempt[a], A[a], E)
  /\ NoneDecided(A, E) \/ \E a \in Attempts : OneDecided(a, A, E)

Books == AllRemember /\ OneAttemptAtATime

LEMMA StageStatus ==
  ASSUME NEW r \in AttemptRows
  PROVE  /\ RowStage(r) = "decided" <=> r.status = "seller"
         /\ RowStage(r) = "unused" <=> r.status = "free"
         /\ RowStage(r) \in {"reserved", "calling", "finished", "manual"}
              <=> r.status = "in_progress"
<1>1. r.status \in {"free", "in_progress", "seller", "technical", "cancelled"}
  BY DEF AttemptRows
<1>2. r.status = "in_progress" => RowStage(r) = WorkStage(r)
  BY DEF RowStage
<1>3. WorkStage(r) \in {"reserved", "calling", "finished", "manual"}
  BY DEF WorkStage
<1>4. /\ r.status = "free" => RowStage(r) = "unused"
      /\ r.status = "seller" => RowStage(r) = "decided"
      /\ r.status = "technical" => RowStage(r) = "failed"
      /\ r.status = "cancelled" => RowStage(r) = "returned"
  BY DEF RowStage
<1> QED BY <1>1, <1>2, <1>3, <1>4

-----------------------------------------------------------------------------
(* What follows from it. *)

(* No snapshot goes stale: another attempt on the record would belong to   *)
(* the same caller.                                                        *)
LEMMA BookedRemembers ==
  ASSUME IInv, Books, TypeOK', Booked(attempt', entry')
  PROVE  AllRemember'
<1> SUFFICES ASSUME NEW a \in Attempts,
                    attempt'[a].status = "in_progress", attempt'[a].by # None,
                    ~Remembers(attempt'[a], entry')
             PROVE  FALSE
  BY DEF AllRemember, Remembers
<1>1. /\ MovesOn(attempt[a], attempt'[a]) /\ attempt[a].status = "in_progress"
      /\ attempt'[a].by = attempt[a].by /\ attempt'[a].snap = attempt[a].snap
  BY DEF Booked, Follows
<1>2. attempt'[a].entry = attempt[a].entry
  BY <1>1 DEF MovesOn
<1>3. attempt[a].entry \in Entries
  BY <1>1 DEF IInv, Ownership, Native
<1>4. attempt[a].snap.count = entry[attempt[a].entry].count
  BY <1>1 DEF Books, AllRemember, Remembers
<1>5. CASE NoneDecided(attempt', entry')
  BY <1>1, <1>2, <1>3, <1>4, <1>5 DEF NoneDecided, Remembers
<1>6. ASSUME NEW b \in Attempts, OneDecided(b, attempt', entry') PROVE FALSE
  <2>1. b # a
    BY <1>6 DEF OneDecided
  <2>2. attempt[b].entry # attempt[a].entry
    BY <1>1, <1>6, <2>1 DEF OneDecided, Books, OneAttemptAtATime
  <2> QED BY <1>1, <1>2, <1>3, <1>4, <1>6, <2>2 DEF OneDecided, Remembers
<1> QED BY <1>5, <1>6 DEF Booked

LEMMA BookedCounts ==
  ASSUME IInv, CountExact, TypeOK', Booked(attempt', entry')
  PROVE  CountExact'
<1> SUFFICES ASSUME NEW e \in Entries
             PROVE  entry'[e].count = SellerAttempts(e, attempt')
  BY DEF CountExact
<1> DEFINE S(A) == {a \in Attempts : A[a].status = "seller" /\ A[a].entry = e}
<1>1. entry[e].count = Cardinality(S(attempt)) /\ entry[e].count \in Nat
  BY DEF CountExact, SellerAttempts, IInv, TypeOK, EntryRows
<1>2. IsFiniteSet(S(attempt))
  BY FS_Subset, CoordinatorAssumption DEF CoordinatorAssumption
<1>3. \A a \in Attempts : attempt[a].status # "free" => attempt'[a].entry = attempt[a].entry
  BY DEF Booked, Follows, MovesOn
<1>4. SellerAttempts(e, attempt') = Cardinality(S(attempt'))
  BY DEF SellerAttempts
<1>5. CASE NoneDecided(attempt', entry')
  <2>1. S(attempt') = S(attempt)
    BY <1>3, <1>5 DEF NoneDecided
  <2> QED BY <1>1, <1>4, <1>5, <2>1 DEF NoneDecided
<1>6. ASSUME NEW a \in Attempts, OneDecided(a, attempt', entry')
      PROVE  entry'[e].count = SellerAttempts(e, attempt')
  <2>1. a \notin S(attempt)
    BY <1>6 DEF OneDecided
  <2>2. S(attempt') = IF e = attempt[a].entry THEN S(attempt) \cup {a} ELSE S(attempt)
    <3>1. CASE e = attempt[a].entry
      BY <1>3, <1>6, <3>1 DEF OneDecided
    <3>2. CASE e # attempt[a].entry
      BY <1>3, <1>6, <3>2 DEF OneDecided
    <3> QED BY <3>1, <3>2
  <2> HIDE DEF S
  <2>3. Cardinality(S(attempt) \cup {a}) = Cardinality(S(attempt)) + 1
    BY <1>2, <2>1, FS_AddElement
  <2> QED BY <1>1, <1>4, <1>6, <2>2, <2>3 DEF OneDecided
<1> QED BY <1>5, <1>6 DEF Booked

LEMMA SameCardinality == \A S : Contract!Cardinality(S) = Cardinality(S)
  BY DEF Contract!Cardinality, Cardinality, Contract!IsFiniteSet, IsFiniteSet

LEMMA BookedSteps ==
  ASSUME IInv, TypeOK', OneAttemptAtATime', Booked(attempt', entry')
  PROVE  Contract!Step
<1>1. \A a \in Attempts : /\ attempt[a] \in AttemptRows /\ attempt'[a] \in AttemptRows
                          /\ MovesOn(attempt[a], attempt'[a])
  BY DEF IInv, TypeOK, Booked, Follows
<1>3. \A a \in Attempts : RowStage(attempt'[a]) # RowStage(attempt[a]) =>
        RowStage(attempt'[a]) \in Contract!MovesTo[RowStage(attempt[a])]
  BY <1>1 DEF MovesOn
<1>4. \A a \in Attempts : RowStage(attempt[a]) # "unused" => attempt'[a].entry = attempt[a].entry
  BY <1>1, StageStatus DEF MovesOn
<1>5. \A a, b \in Attempts :
        /\ RowStage(attempt'[a]) \in Contract!Holding /\ RowStage(attempt'[b]) \in Contract!Holding
        /\ attempt'[a].entry = attempt'[b].entry
        => a = b
  BY <1>1, StageStatus DEF Contract!Holding, OneAttemptAtATime
<1> DEFINE N(e) == {a \in Attempts : /\ RowStage(attempt[a]) # "decided" /\ RowStage(attempt'[a]) = "decided"
                                     /\ attempt'[a].entry = e}
<1>6. ASSUME NEW e \in Entries
      PROVE  entry'[e].count = entry[e].count + Cardinality(N(e))
  <2>1. entry[e].count \in Nat
    BY DEF IInv, TypeOK, EntryRows
  <2>2. CASE NoneDecided(attempt', entry')
    <3>1. N(e) = {}
      BY <1>1, <2>2, StageStatus DEF NoneDecided
    <3> HIDE DEF N
    <3> QED BY <2>1, <2>2, <3>1, FS_EmptySet DEF NoneDecided
  <2>3. ASSUME NEW a \in Attempts, OneDecided(a, attempt', entry')
        PROVE  entry'[e].count = entry[e].count + Cardinality(N(e))
    <3>1. attempt'[a].entry = attempt[a].entry
      BY <1>1, <2>3 DEF OneDecided, MovesOn
    <3>2. N(e) = IF e = attempt[a].entry THEN {a} ELSE {}
      <4>1. \A b \in Attempts : RowStage(attempt[b]) # "decided" /\ RowStage(attempt'[b]) = "decided" <=> b = a
        BY <1>1, <2>3, StageStatus DEF OneDecided
      <4> QED BY <3>1, <4>1
    <3> HIDE DEF N
    <3>3. Cardinality(N(e)) = IF e = attempt[a].entry THEN 1 ELSE 0
      BY <3>2, FS_EmptySet, FS_Singleton
    <3> QED BY <2>1, <2>3, <3>3 DEF OneDecided
  <2> QED BY <2>2, <2>3 DEF Booked
<1>7. [e \in Entries |-> entry'[e].count] =
        [e \in Entries |-> [x \in Entries |-> entry[x].count][e] + Cardinality(N(e))]
  BY <1>6
<1>8. \A e \in Entries : Contract!NewlyDecided(e) = N(e)
  BY DEF Contract!NewlyDecided
<1> HIDE DEF N
<1>9. [e \in Entries |-> entry[e].count]' =
        [e \in Entries |-> [x \in Entries |-> entry[x].count][e]
                            + Contract!Cardinality(Contract!NewlyDecided(e))]
  BY <1>7, <1>8, SameCardinality
<1> QED BY <1>3, <1>4, <1>5, <1>9 DEF Contract!Step

-----------------------------------------------------------------------------
(* What a transaction does to one row. *)

(* A call moves: the leg may close and never reopens, and what the provider*)
(* has been told stays told.                                               *)
Moves(r, q) ==
  /\ q.status = r.status /\ q.entry = r.entry /\ q.by = r.by /\ q.snap = r.snap
  /\ q.leg = "none" <=> r.leg = "none"
  /\ q.leg \in ActiveStatuses => r.leg \in ActiveStatuses
  /\ r.call \in {"dispatching", "placed"} => q.call \in {"dispatching", "placed"}

LEMMA SameFollows ==
  ASSUME NEW r, NEW E
  PROVE  Follows(r, r, E)
  BY DEF Follows, MovesOn, Remembers

LEMMA MovedFollows ==
  ASSUME NEW r \in AttemptRows, NEW q \in AttemptRows, NEW E, Moves(r, q)
  PROVE  Follows(r, q, E)
<1>1. CASE r.status = "in_progress"
  <2>1. RowStage(r) = WorkStage(r) /\ RowStage(q) = WorkStage(q)
    BY <1>1 DEF RowStage, Moves
  <2>2. r.leg \in ActiveStatuses \cup TerminalStatuses \cup {"none"}
        /\ q.leg \in ActiveStatuses \cup TerminalStatuses \cup {"none"}
    BY DEF AttemptRows, LegStatuses
  <2>3. WorkStage(q) = WorkStage(r) \/ WorkStage(q) \in Contract!MovesTo[WorkStage(r)]
    BY <2>2 DEF WorkStage, Moves, Contract!MovesTo, ActiveStatuses, TerminalStatuses
  <2> QED BY <1>1, <2>1, <2>3 DEF Follows, MovesOn, Moves
<1>2. CASE r.status # "in_progress"
  <2>1. RowStage(q) = RowStage(r)
    BY <1>2 DEF RowStage, Moves, AttemptRows
  <2> QED BY <1>2, <2>1 DEF Follows, MovesOn, Moves, Remembers
<1> QED BY <1>1, <1>2

LEMMA ReturnedFollows ==
  ASSUME NEW r \in AttemptRows, NEW E, r.status = "in_progress", r.leg \in ActiveStatuses,
         r.call \notin {"dispatching", "placed"}
  PROVE  Follows(r, Cancelled(r), E)
<1>1. RowStage(r) = "reserved"
  BY DEF RowStage, WorkStage, ActiveStatuses, TerminalStatuses
<1>2. RowStage(Cancelled(r)) = "returned"
  BY CancelledRow DEF RowStage
<1> QED BY <1>1, <1>2, CancelledRow DEF Follows, MovesOn, Remembers, Contract!MovesTo

LEMMA DecidedFollows ==
  ASSUME NEW r \in AttemptRows, NEW E, NEW q, r.status = "in_progress",
         q.entry = r.entry,
         \/ q.status = "seller" /\ r.leg \in TerminalStatuses \cup {"none"}
         \/ q.status = "technical" /\ r.leg \in TerminalStatuses
  PROVE  Follows(r, q, E)
<1>1. RowStage(r) = IF r.leg = "none" THEN "manual" ELSE "finished"
  BY DEF RowStage, WorkStage, TerminalStatuses
<1>2. RowStage(q) = IF q.status = "seller" THEN "decided" ELSE "failed"
  BY DEF RowStage
<1>3. RowStage(q) \in Contract!MovesTo[RowStage(r)]
  BY <1>1, <1>2 DEF Contract!MovesTo, TerminalStatuses
<1> QED BY <1>3 DEF Follows, MovesOn, Remembers

LEMMA OpenedFollows ==
  ASSUME NEW r, NEW q, NEW E, r.status = "free", q.status = "in_progress",
         q.leg \in {"queued", "none"}, q.call = "none", Remembers(q, E)
  PROVE  Follows(r, q, E)
<1>1. RowStage(r) = "unused"
  BY DEF RowStage
<1>2. RowStage(q) \in {"reserved", "manual"}
  BY DEF RowStage, WorkStage, TerminalStatuses
<1> QED BY <1>1, <1>2 DEF Follows, MovesOn, Contract!MovesTo

-----------------------------------------------------------------------------
(* The transactions. *)

LEMMA RowBooked ==
  ASSUME TypeOK, NEW a \in Attempts, NEW q \in AttemptRows,
         attempt' = [attempt EXCEPT ![a] = q], entry' = entry, Moves(attempt[a], q)
  PROVE  Booked(attempt', entry')
<1>1. attempt'[a] = q /\ \A b \in Attempts : b # a => attempt'[b] = attempt[b]
  BY DEF TypeOK
<1>2. \A b \in Attempts : Follows(attempt[b], attempt'[b], entry')
  BY <1>1, SameFollows, MovedFollows DEF TypeOK
<1>3. NoneDecided(attempt', entry')
  BY <1>1 DEF NoneDecided, Moves
<1> QED BY <1>2, <1>3 DEF Booked

LEMMA ElsewhereBooked ==
  ASSUME UNCHANGED attempt, \A e \in Entries : entry'[e].count = entry[e].count
  PROVE  Booked(attempt', entry')
  BY SameFollows DEF Booked, NoneDecided

(* Reservations the provider never saw are given back.                     *)
LEMMA ReleaseBooked ==
  ASSUME IInv, Books, NEW R \in SUBSET Attempts, Release(R),
         \A a \in R : /\ \E s \in Sessions : session[s].cur = a
                      /\ attempt[a].leg \in ActiveStatuses
                      /\ attempt[a].call \notin {"dispatching", "placed"}
  PROVE  Booked(attempt', entry')
<1>1. \A a \in R : attempt[a].status = "in_progress" /\ attempt[a].by \in Sessions
  BY CoordinatorAssumption DEF IInv, Ownership, CurrentIsUndecided, CoordinatorAssumption
<1>2. \A a \in R : attempt'[a] = Cancelled(attempt[a])
  BY DEF Release, Released
<1>3. \A a \in Attempts \ R : attempt'[a] = attempt[a]
  BY DEF Release, Released
<1>4. \A a \in Attempts : Follows(attempt[a], attempt'[a], entry')
  BY <1>1, <1>2, <1>3, ReturnedFollows, SameFollows DEF IInv, TypeOK
<1>5. \A a \in Attempts : attempt'[a].status = "seller" <=> attempt[a].status = "seller"
  BY <1>1, <1>2, <1>3, CancelledRow DEF IInv, TypeOK
<1>6. ASSUME NEW e \in Entries PROVE entry'[e].count = entry[e].count
  <2>1. CASE \A a \in R : attempt[a].entry # e
    BY <2>1 DEF Release, Restored
  <2>2. CASE \E a \in R : attempt[a].entry = e
    <3> DEFINE b == CHOOSE x \in R : attempt[x].entry = e
    <3>1. b \in R /\ attempt[b].entry = e
      BY <2>2
    <3>2. entry'[e] = PutBack(entry[e], attempt[b].snap)
      BY <2>2 DEF Release, Restored
    <3> HIDE DEF b
    <3>3. attempt[b].snap.count = entry[e].count
      BY <1>1, <3>1, CoordinatorAssumption
         DEF Books, AllRemember, Remembers, CoordinatorAssumption
    <3> QED BY <3>2, <3>3 DEF PutBack, IInv, TypeOK, EntryRows
  <2> QED BY <2>1, <2>2
<1> QED BY <1>4, <1>5, <1>6 DEF Booked, NoneDecided

LEMMA StopOrDrainBooked ==
  ASSUME IInv, Books, NEW S \in SUBSET Sessions, NEW how, StopOrDrain(S, how)
  PROVE  Booked(attempt', entry')
<1> DEFINE idle == {s \in S : Idle(s)}
           R == Held(idle)
<1>1. Release(R)
  BY DEF StopOrDrain
<1>2. R \in SUBSET Attempts /\ \A a \in R : a # None /\ \E s \in idle : session[s].cur = a
  BY HeldAttempts DEF IInv, Held
<1>3. \A a \in R : attempt[a].leg = "queued" /\ attempt[a].call = "none"
  BY <1>2 DEF Idle, Untouched
<1> HIDE DEF R
<1> QED BY <1>1, <1>2, <1>3, ReleaseBooked DEF ActiveStatuses

(* The attempt a record was worked on with is decided.                     *)
LEMMA OutcomeBooked ==
  ASSUME IInv, NEW a \in Attempts, NEW out, NEW fallback,
         attempt[a].status = "in_progress", attempt[a].leg \in TerminalStatuses \cup {"none"}
  PROVE  Booked(Closed(a, "seller"), AfterOutcome(a, out, fallback))
<1> DEFINE e == attempt[a].entry
           row == Disposed(e, out, SellerAttempts(e, attempt) + 1, fallback)
           q == [attempt[a] EXCEPT !.status = "seller"]
           A == [attempt EXCEPT ![a] = q]
           E == [entry EXCEPT ![e] = row]
<1>1. A = Closed(a, "seller") /\ E = AfterOutcome(a, out, fallback)
  BY DEF Closed, AfterOutcome
<1>2. q.status = "seller" /\ q.entry = attempt[a].entry
  BY AttemptStatusWritten DEF IInv, TypeOK
<1>3. e \in Entries
  BY DEF IInv, Ownership, Native
<1>4. row.count = entry[e].count + 1
  BY DEF Disposed
<1> HIDE DEF q, row
<1>5. A[a] = q /\ \A b \in Attempts : b # a => A[b] = attempt[b]
  BY DEF IInv, TypeOK
<1>6. E[e] = row /\ \A x \in Entries : x # e => E[x] = entry[x]
  BY <1>3 DEF IInv, TypeOK
<1> HIDE DEF A, E
<1>7. \A b \in Attempts : Follows(attempt[b], A[b], E)
  BY <1>2, <1>5, SameFollows, DecidedFollows DEF IInv, TypeOK
<1>8. OneDecided(a, A, E)
  BY <1>2, <1>4, <1>5, <1>6 DEF OneDecided
<1>9. Booked(A, E)
  BY <1>7, <1>8 DEF Booked
<1> QED BY <1>1, <1>9

LEMMA FailureBooked ==
  ASSUME IInv, NEW a \in Attempts,
         attempt[a].status = "in_progress", attempt[a].leg \in TerminalStatuses
  PROVE  Booked(Closed(a, "technical"), AfterFailure(a))
<1> DEFINE e == attempt[a].entry
           row == [entry[e] EXCEPT !.status = "queued", !.due = FALSE]
           q == [attempt[a] EXCEPT !.status = "technical"]
           A == [attempt EXCEPT ![a] = q]
           E == [entry EXCEPT ![e] = row]
<1>1. A = Closed(a, "technical") /\ E = AfterFailure(a)
  BY DEF Closed, AfterFailure
<1>2. q.status = "technical" /\ q.entry = attempt[a].entry
  BY AttemptStatusWritten DEF IInv, TypeOK
<1>3. e \in Entries
  BY DEF IInv, Ownership, Native
<1>4. row.count = entry[e].count
  BY <1>3 DEF IInv, TypeOK, EntryRows
<1> HIDE DEF q, row
<1>5. A[a] = q /\ \A b \in Attempts : b # a => A[b] = attempt[b]
  BY DEF IInv, TypeOK
<1>6. \A x \in Entries : E[x].count = entry[x].count
  BY <1>3, <1>4 DEF IInv, TypeOK
<1> HIDE DEF A, E
<1>7. \A b \in Attempts : Follows(attempt[b], A[b], E)
  BY <1>2, <1>5, SameFollows, DecidedFollows DEF IInv, TypeOK
<1>8. NoneDecided(A, E)
  BY <1>2, <1>5, <1>6 DEF NoneDecided
<1>9. Booked(A, E)
  BY <1>7, <1>8 DEF Booked
<1> QED BY <1>1, <1>9

(* A record is taken up with an attempt that was free.                     *)
LEMMA OpeningBooked ==
  ASSUME NEW A, NEW E, NEW B, NEW F, NEW a \in Attempts, Booked(A, E),
         A[a].status = "free", attempt[a].status = "free",
         \A b \in Attempts : b # a => B[b] = A[b],
         B[a].status = "in_progress", B[a].leg \in {"queued", "none"}, B[a].call = "none",
         Remembers(B[a], F),
         \A e \in Entries : F[e].count = E[e].count,
         \A b \in Attempts : A[b].status = "in_progress" => A[b].entry \in Entries
  PROVE  Booked(B, F)
<1>1. ASSUME NEW b \in Attempts PROVE Follows(attempt[b], B[b], F)
  <2>1. CASE b = a
    BY <2>1, OpenedFollows
  <2>2. CASE b # a
    <3>1. Follows(attempt[b], A[b], E) /\ B[b] = A[b]
      BY <2>2 DEF Booked
    <3>2. Remembers(A[b], E) => Remembers(A[b], F)
      BY DEF Remembers
    <3> QED BY <3>1, <3>2 DEF Follows
  <2> QED BY <2>1, <2>2
<1>2. CASE NoneDecided(A, E)
  <2>1. NoneDecided(B, F)
    BY <1>2 DEF NoneDecided
  <2> QED BY <1>1, <2>1 DEF Booked
<1>3. ASSUME NEW b \in Attempts, OneDecided(b, A, E) PROVE Booked(B, F)
  <2>1. OneDecided(b, B, F)
    BY <1>3 DEF OneDecided
  <2> QED BY <1>1, <2>1 DEF Booked
<1> QED BY <1>2, <1>3 DEF Booked

LEMMA ReservedSnapshot ==
  ASSUME NEW s \in Sessions, NEW e \in Entries, NEW row
  PROVE  Reserved(s, e, row).snap.count = row.count
  BY DEF Reserved, BlankAttempt, Snapshot

LEMMA ReserveNextBooked ==
  ASSUME IInv, NEW s \in Sessions, NEW A, NEW E, Settled(s, A, E), Booked(A, E),
         NEW r, ReserveNext(s, r, A, E)
  PROVE  Booked(attempt', entry')
<1>1. CASE QueueExhausted(s, A, E)
  BY <1>1 DEF QueueExhausted
<1>2. CASE ReserveOne(s, r, A, E)
  <2>1. PICK a \in Attempts, e \in Entries :
          /\ A[a].status = "free" /\ E[e].status \in {"queued", "needs_correction"}
          /\ attempt' = [A EXCEPT ![a] = Reserved(s, e, E[e])]
          /\ entry' = [E EXCEPT ![e].status = "in_progress"]
    BY <1>2 DEF ReserveOne, Candidates
  <2>2. /\ attempt'[a] = Reserved(s, e, E[e])
        /\ \A b \in Attempts : b # a => attempt'[b] = A[b]
    BY <2>1 DEF Settled
  <2>3. /\ attempt'[a].status = "in_progress" /\ attempt'[a].leg = "queued"
        /\ attempt'[a].call = "none" /\ attempt'[a].entry = e
        /\ attempt'[a].snap.count = E[e].count
    BY <2>1, <2>2, ReservedRow, ReservedSnapshot DEF Settled
  <2>4. \A x \in Entries : entry'[x].count = E[x].count
    BY <2>1 DEF Settled, EntryRows
  <2>5. A[a].status = "free" /\ attempt[a].status = "free"
    BY <2>1 DEF Settled
  <2>6. \A b \in Attempts : A[b].status = "in_progress" => A[b].entry \in Entries
    BY DEF Settled, IInv, Ownership, Native
  <2>7. Remembers(attempt'[a], entry')
    BY <2>3, <2>4 DEF Remembers
  <2> QED BY <2>2, <2>3, <2>4, <2>5, <2>6, <2>7, OpeningBooked
<1> QED BY <1>1, <1>2 DEF ReserveNext

LEMMA WrapUpBooked ==
  ASSUME IInv, NEW s \in Sessions, NEW A, NEW E, Settled(s, A, E), Booked(A, E),
         WrapUp(s, A, E)
  PROVE  Booked(attempt', entry')
<1> DEFINE r == Renewed(Detached(session[s]))
<1>1. (attempt' = A /\ entry' = E) \/ ReserveNext(s, r, A, E)
  BY DEF WrapUp
<1> HIDE DEF r
<1> QED BY <1>1, ReserveNextBooked

-----------------------------------------------------------------------------
(* Every action. *)

LEMMA SessionStepsBooked ==
  ASSUME IInv, Books, NEW s \in Sessions, SessionStep(s)
  PROVE  Booked(attempt', entry')
<1>1. {s} \in SUBSET Sessions
  OBVIOUS
<1>2. (\E r : OnlySession(s, r)) \/ UNCHANGED <<attempt, entry>> => Booked(attempt', entry')
  BY ElsewhereBooked DEF OnlySession
<1>3. ASSUME session[s].cur = None, NEW r, ReserveNext(s, r, attempt, entry)
      PROVE  Booked(attempt', entry')
  <2>1. Booked(attempt, entry)
    BY SameFollows DEF Booked, NoneDecided
  <2> QED BY <1>3, <2>1, NothingToSettle, ReserveNextBooked DEF IInv
<1>4. CASE StartCommit(s)
  <2>1. session[s].cur = None
    BY <1>4 DEF StartCommit, IInv, Ownership, CurrentIsUndecided, Live, LiveStates
  <2> QED BY <1>3, <1>4, <2>1 DEF StartCommit
<1>5. CASE Heartbeat(s) \/ Pause(s) \/ ManagerMarkFailed(s)
  BY <1>2, <1>5 DEF Heartbeat, Pause, ManagerMarkFailed
<1>6. CASE HeartbeatKill(s) \/ End(s) \/ ManagerStop(s) \/ ManagerRelease(s)
  BY <1>1, <1>2, <1>6, StopOrDrainBooked DEF HeartbeatKill, End, ManagerStop, ManagerRelease
<1>7. CASE Resume(s)
  <2> DEFINE r == Renewed(Readied(session[s]))
  <2>1. \/ OnlySession(s, Reconciled(r, attempt))
        \/ session[s].cur = None /\ ReserveNext(s, r, attempt, entry)
    <3>1. r.cur = session[s].cur
      BY ReadiedRow, RenewedRow DEF IInv, TypeOK
    <3>2. \/ OnlySession(s, Reconciled(r, attempt))
          \/ r.cur = None /\ ReserveNext(s, r, attempt, entry)
      BY <1>7, Zenon DEF Resume
    <3> HIDE DEF r
    <3> QED BY <3>1, <3>2
  <2> HIDE DEF r
  <2> QED BY <1>2, <1>3, <2>1
<1>8. CASE Recover(s)
  <2> DEFINE p == Reconciled(session[s], attempt)
             r == Renewed(p)
  <2>1. OnlySession(s, r) \/ (r.cur = None /\ ReserveOne(s, r, attempt, entry))
    BY <1>8, Zenon DEF Recover
  <2>2. r.cur = session[s].cur
    <3>1. session[s].cur # None => attempt[session[s].cur].leg # "none"
      BY NativeAttempts DEF IInv, TypeOK, SessionRows
    <3>2. p \in SessionRows /\ p.cur = session[s].cur
      BY <1>8, <3>1, ReconciledRow DEF Recover, Live, IInv, TypeOK
    <3> HIDE DEF p
    <3> QED BY <3>2, RenewedRow
  <2> HIDE DEF r
  <2> QED BY <1>2, <1>3, <2>1, <2>2 DEF ReserveNext
<1>9. CASE ReserveRequest(s)
  BY <1>3, <1>9 DEF ReserveRequest
<1>10. CASE WorkerPass(s)
  <2>1. CASE WorkerExpiresIdle(s)
    BY <1>2, <2>1 DEF WorkerExpiresIdle
  <2>2. ASSUME NEW a \in Attempts,
               WorkerKeepsWrapUp(s, a) \/ WorkerPreserves(s, a) \/ WorkerOpensGrace(s, a)
        PROVE  Booked(attempt', entry')
    BY <1>2, <2>2 DEF WorkerKeepsWrapUp, WorkerPreserves, WorkerOpensGrace
  <2>3. ASSUME NEW a \in Attempts, WorkerFailsStart(s, a) PROVE Booked(attempt', entry')
    <3> DEFINE q == Showing(attempt[a], "failed")
    <3>1. /\ attempt' = [attempt EXCEPT ![a] = q] /\ entry' = entry
          /\ attempt[a].leg \in ActiveStatuses
      BY <2>3 DEF WorkerFailsStart, Moved
    <3>2. q \in AttemptRows /\ Moves(attempt[a], q)
      BY <3>1, ShowingRow DEF Moves, IInv, TypeOK, LegStatuses, TerminalStatuses, ActiveStatuses
    <3> HIDE DEF q
    <3> QED BY <3>1, <3>2, RowBooked DEF IInv
  <2>4. ASSUME NEW a \in Attempts, WorkerReleases(s, a) PROVE Booked(attempt', entry')
    BY <1>1, <2>4, StopOrDrainBooked DEF WorkerReleases
  <2> QED BY <1>10, <2>1, <2>2, <2>3, <2>4 DEF WorkerPass
<1>11. CASE LeaseExpires(s) \/ HeartbeatAges(s) \/ GraceElapses(s)
  BY <1>2, <1>11 DEF LeaseExpires, HeartbeatAges, GraceElapses
<1> QED BY <1>4, <1>5, <1>6, <1>7, <1>8, <1>9, <1>10, <1>11 DEF SessionStep

LEMMA CallStepsBooked ==
  ASSUME IInv, Books, NEW s \in Sessions, NEW a \in Attempts, CallStep(s, a)
  PROVE  Booked(attempt', entry')
<1> DEFINE r == attempt[a]
<1>1. r \in AttemptRows
  BY DEF IInv, TypeOK
<1>2. ASSUME NEW mode \in Modes, PrepareCall(s, a, mode) PROVE Booked(attempt', entry')
  <2> DEFINE q == [r EXCEPT !.call = mode]
  <2>1. mode \in CallStages
    BY CoordinatorAssumption DEF CoordinatorAssumption, CallStages
  <2>2. attempt' = [attempt EXCEPT ![a] = q] /\ entry' = entry /\ r.call = "none"
    BY <1>2 DEF PrepareCall
  <2>3. q \in AttemptRows /\ Moves(r, q)
    BY <1>1, <2>1, <2>2, CallWritten DEF Moves
  <2> HIDE DEF q
  <2> QED BY <2>2, <2>3, RowBooked DEF IInv
<1>3. CASE Dispatch(s, a)
  <2> DEFINE q == [r EXCEPT !.call = "dispatching"]
  <2>1. attempt' = [attempt EXCEPT ![a] = q] /\ entry' = entry
    BY <1>3 DEF Dispatch
  <2>2. q \in AttemptRows /\ Moves(r, q)
    BY <1>1, CallWritten DEF Moves, CallStages
  <2> HIDE DEF q
  <2> QED BY <2>1, <2>2, RowBooked DEF IInv
<1>4. CASE Place(s, a)
  <2> DEFINE q == Placed(r, "dialing")
  <2>1. attempt' = [attempt EXCEPT ![a] = q] /\ entry' = entry /\ r.leg = "queued"
    BY <1>4 DEF Place, MayCall
  <2>2. q \in AttemptRows /\ Moves(r, q)
    BY <1>1, <2>1, PlacedRow DEF Moves, LegStatuses, ActiveStatuses
  <2> HIDE DEF q
  <2> QED BY <2>1, <2>2, RowBooked DEF IInv
<1>5. CASE Abandon(s, a)
  BY <1>5, ReleaseBooked DEF Abandon, ActiveStatuses
<1>6. CASE Cancel(s, a) \/ ManagerCancel(s, a)
  <2> DEFINE q == BeingCancelled(r)
  <2>1. /\ attempt' = [attempt EXCEPT ![a] = q] /\ entry' = entry
        /\ r.leg \in ActiveStatuses
    BY <1>6 DEF Cancel, ManagerCancel, Cancelling, ActiveStatuses
  <2>2. q \in AttemptRows /\ Moves(r, q)
    BY <1>1, <2>1, BeingCancelledRow DEF Moves, ActiveStatuses
  <2> HIDE DEF q
  <2> QED BY <2>1, <2>2, RowBooked DEF IInv
<1>7. ASSUME NEW out \in Said, NEW fallback \in BOOLEAN, CompleteSeller(s, a, out, fallback)
      PROVE  Booked(attempt', entry')
  <2>1. Settled(s, Closed(a, "seller"), AfterOutcome(a, out, fallback))
    BY <1>7, AfterRows, DecisionSettles DEF CompleteSeller, IInv
  <2>2. Booked(Closed(a, "seller"), AfterOutcome(a, out, fallback))
    BY <1>7, OutcomeBooked DEF CompleteSeller, AtWrapUp
  <2>3. WrapUp(s, Closed(a, "seller"), AfterOutcome(a, out, fallback))
    BY <1>7 DEF CompleteSeller
  <2> QED BY <2>1, <2>2, <2>3, WrapUpBooked
<1>8. CASE CompleteTechnical(s, a)
  <2>1. Settled(s, Closed(a, "technical"), AfterFailure(a))
    BY <1>8, AfterRows, DecisionSettles DEF CompleteTechnical, IInv
  <2>2. Booked(Closed(a, "technical"), AfterFailure(a))
    BY <1>8, FailureBooked DEF CompleteTechnical, AtWrapUp
  <2>3. WrapUp(s, Closed(a, "technical"), AfterFailure(a))
    BY <1>8 DEF CompleteTechnical
  <2> QED BY <2>1, <2>2, <2>3, WrapUpBooked
<1> QED BY <1>2, <1>3, <1>4, <1>5, <1>6, <1>7, <1>8 DEF CallStep

LEMMA AttemptStepsBooked ==
  ASSUME IInv, Books, NEW a \in Attempts, AttemptStep(a)
  PROVE  Booked(attempt', entry')
<1> DEFINE r == attempt[a]
<1>1. r \in AttemptRows
  BY DEF IInv, TypeOK
<1>2. ASSUME NEW v \in LegStatuses, attempt' = Moved(a, v), entry' = entry,
             r.leg \in ActiveStatuses
      PROVE  Booked(attempt', entry')
  <2> DEFINE q == Showing(r, v)
  <2>1. attempt' = [attempt EXCEPT ![a] = q]
    BY <1>2 DEF Moved
  <2>2. q \in AttemptRows /\ Moves(r, q)
    BY <1>1, <1>2, ShowingRow DEF Moves, LegStatuses, ActiveStatuses, TerminalStatuses
  <2> HIDE DEF q
  <2> QED BY <1>2, <2>1, <2>2, RowBooked DEF IInv
<1>3. CASE StartFails(a)
  BY <1>2, <1>3 DEF StartFails, LegStatuses, TerminalStatuses, ActiveStatuses
<1>4. CASE CancelForgotten(a)
  <2> DEFINE q == [r EXCEPT !.undo = "none"]
  <2>1. attempt' = [attempt EXCEPT ![a] = q] /\ entry' = entry
    BY <1>4 DEF CancelForgotten
  <2>2. q \in AttemptRows /\ Moves(r, q)
    BY <1>1, UndoWritten DEF Moves
  <2> HIDE DEF q
  <2> QED BY <2>1, <2>2, RowBooked DEF IInv
<1>5. ASSUME NEW mirror \in BOOLEAN, CancelRefused(a, mirror) PROVE Booked(attempt', entry')
  <2> DEFINE p == [r EXCEPT !.undo = "none"]
             leg == IF p.leg = "cancelling" THEN r.undo ELSE p.leg
             q == [p EXCEPT !.leg = leg]
  <2>1. attempt' = [attempt EXCEPT ![a] = q] /\ entry' = entry /\ r.undo # "none"
    BY <1>5 DEF CancelRefused, CancelUndone
  <2>2. /\ p \in AttemptRows /\ p.leg = r.leg /\ p.status = r.status /\ p.entry = r.entry
        /\ p.by = r.by /\ p.snap = r.snap /\ p.call = r.call
    BY <1>1, UndoWritten
  <2> HIDE DEF p
  <2>3. /\ leg \in LegStatuses \cup {"none"}
        /\ leg = "none" <=> r.leg = "none"
        /\ leg \in ActiveStatuses => r.leg \in ActiveStatuses
    BY <1>1, <2>1, <2>2 DEF leg, ActiveStatuses, AttemptRows
  <2> HIDE DEF leg
  <2>4. /\ q \in AttemptRows /\ q.leg = leg /\ q.status = p.status /\ q.entry = p.entry
        /\ q.by = p.by /\ q.snap = p.snap /\ q.call = p.call
    BY <2>2, <2>3 DEF AttemptRows
  <2> HIDE DEF q
  <2>5. Moves(r, q)
    BY <2>2, <2>3, <2>4 DEF Moves
  <2> QED BY <2>1, <2>4, <2>5, RowBooked DEF IInv
<1>6. ASSUME NEW reported \in {"initiated", "ringing"}, LateRootCallback(a, reported)
      PROVE  Booked(attempt', entry')
  <2> DEFINE target == CallbackTarget("queued", reported, FALSE)
             v == IF target = "none" THEN "queued" ELSE target
             q == Placed(r, v)
  <2>1. v \in LegStatuses
    BY TwilioTargets DEF v, LegStatuses, ActiveStatuses
  <2>2. attempt' = [attempt EXCEPT ![a] = q] /\ entry' = entry /\ r.leg = "queued"
    BY <1>6 DEF LateRootCallback
  <2> HIDE DEF v
  <2>3. q \in AttemptRows /\ Moves(r, q)
    BY <1>1, <2>1, <2>2, PlacedRow DEF Moves, LegStatuses, ActiveStatuses, TerminalStatuses
  <2> HIDE DEF q
  <2> QED BY <2>2, <2>3, RowBooked DEF IInv
<1>7. ASSUME NEW x \in TwilioStatuses, ProviderEvent(a, FromTwilio[x])
      PROVE  Booked(attempt', entry')
  <2>1. r.call = "placed" /\ r.leg \notin TerminalStatuses
    BY <1>7 DEF ProviderEvent, Accepts
  <2>2. r.leg # "none"
    BY <2>1, NativeAttempts
  <2>3. r.leg \in ActiveStatuses
    BY <1>1, <2>1, <2>2 DEF AttemptRows, LegStatuses
  <2> QED BY <1>2, <1>7, <2>3, TwilioTargets DEF ProviderEvent
<1>8. ASSUME NEW out \in Said, NEW fallback \in BOOLEAN, CompleteManual(a, out, fallback)
      PROVE  Booked(attempt', entry')
  <2>1. r.status = "in_progress" /\ r.leg = "none"
    BY <1>8 DEF CompleteManual, IInv, Ownership, Native
  <2>2. Booked(Closed(a, "seller"), AfterOutcome(a, out, fallback))
    BY <2>1, OutcomeBooked
  <2> QED BY <1>8, <2>2 DEF CompleteManual
<1> QED BY <1>3, <1>4, <1>5, <1>6, <1>7, <1>8 DEF AttemptStep

LEMMA EntryStepsBooked ==
  ASSUME IInv, Books, NEW e \in Entries, EntryStep(e)
  PROVE  Booked(attempt', entry')
<1>1. ASSUME NEW a \in Attempts, StartManual(e, a) PROVE Booked(attempt', entry')
  <2> DEFINE q == OpenedByHand(e)
  <2>1. q.status = "in_progress" /\ q.leg = "none" /\ q.call = "none" /\ q.by = None
    BY OpenedByHandRow
  <2>2. attempt' = [attempt EXCEPT ![a] = q]
    BY <1>1 DEF StartManual
  <2> HIDE DEF q
  <2>3. attempt'[a] = q /\ attempt[a].status = "free" /\ \A b \in Attempts : b # a => attempt'[b] = attempt[b]
    BY <1>1, <2>2 DEF StartManual, IInv, TypeOK
  <2>4. \A x \in Entries : entry'[x].count = entry[x].count
    BY <1>1 DEF StartManual, IInv, TypeOK, EntryRows
  <2>5. Remembers(attempt'[a], entry')
    BY <2>1, <2>3 DEF Remembers
  <2>6. Booked(attempt, entry)
    BY SameFollows DEF Booked, NoneDecided
  <2>7. \A b \in Attempts : attempt[b].status = "in_progress" => attempt[b].entry \in Entries
    BY DEF IInv, Ownership, Native
  <2> QED BY <2>1, <2>3, <2>4, <2>5, <2>6, <2>7, OpeningBooked
<1>2. CASE EntryFallsDue(e) \/ \E d \in {"completed", "needs_correction"} : DecideHandoff(e, d)
  <2>1. UNCHANGED attempt
    BY <1>2 DEF EntryFallsDue, DecideHandoff
  <2>2. \A x \in Entries : entry'[x].count = entry[x].count
    BY <1>2 DEF EntryFallsDue, DecideHandoff, IInv, TypeOK, EntryRows
  <2> QED BY <2>1, <2>2, ElsewhereBooked
<1> QED BY <1>1, <1>2 DEF EntryStep

LEMMA RollbackBooked ==
  ASSUME IInv, Books, NEW c \in Callers, NEW drain \in BOOLEAN, PilotRollback(c, drain)
  PROVE  Booked(attempt', entry')
<1> DEFINE scope == {s \in Sessions : CallerOf[s] = c /\ Live(s)}
           open == {s \in scope : session[s].cur \in Open(attempt)}
           unsafe == {s \in open : ~ /\ attempt[session[s].cur].leg = "queued"
                                     /\ attempt[session[s].cur].call
                                          \in {"none", "browserPrepared"}}
           R == Held(open \ unsafe)
<1>1. Release(R)
  BY DEF PilotRollback
<1>2. R \in SUBSET Attempts /\ \A a \in R : \E s \in open \ unsafe : session[s].cur = a
  BY HeldAttempts DEF IInv
<1>3. \A a \in R : /\ attempt[a].leg = "queued"
                   /\ attempt[a].call \in {"none", "browserPrepared"}
                   /\ \E s \in Sessions : session[s].cur = a
  BY <1>2
<1> HIDE DEF R, unsafe, open, scope
<1> QED BY <1>1, <1>2, <1>3, ReleaseBooked DEF ActiveStatuses

LEMMA EveryStepBooked == IInv /\ Books /\ [Next]_vars => Booked(attempt', entry')
<1> SUFFICES ASSUME IInv, Books, [Next]_vars PROVE Booked(attempt', entry')
  OBVIOUS
<1>1. CASE UNCHANGED vars
  BY <1>1, ElsewhereBooked DEF vars
<1>2. ASSUME NEW c \in Callers, CallerStep(c) PROVE Booked(attempt', entry')
  <2>1. CASE StartRead(c) \/ StartRefused(c) \/ CallerLeaves(c)
    BY <2>1, ElsewhereBooked DEF StartRead, StartRefused, CallerLeaves
  <2> QED BY <1>2, <2>1, RollbackBooked DEF CallerStep
<1>3. CASE SwitchOn
  BY <1>3, ElsewhereBooked DEF SwitchOn
<1>4. CASE SwitchOff
  BY <1>4, StopOrDrainBooked DEF SwitchOff
<1> QED BY <1>1, <1>2, <1>3, <1>4, SessionStepsBooked, CallStepsBooked, AttemptStepsBooked,
           EntryStepsBooked DEF Next

-----------------------------------------------------------------------------
LEMMA BooksInit == Init => Books
<1> SUFFICES ASSUME Init PROVE AllRemember /\ OneAttemptAtATime
  BY DEF Books
<1> QED BY BlankRows DEF Init, AllRemember, Remembers, OneAttemptAtATime

LEMMA BooksStep == IInv /\ Books /\ [Next]_vars => Books'
<1> SUFFICES ASSUME IInv, Books, [Next]_vars PROVE AllRemember' /\ OneAttemptAtATime'
  BY DEF Books
<1>1. TypeOK'
  BY InvariantStep DEF IInv
<1> QED BY <1>1, EveryStepBooked, BookedRemembers, RecordsStep DEF Books

(* The snapshot every reservation keeps is never stale: whatever happens   *)
(* between a reservation and its release, putting the snapshot back does   *)
(* not undo a decision.                                                    *)
THEOREM BooksKept == Spec => []Books
  BY BooksInit, BooksStep, Invariance, PTL DEF Spec

(* attempt_count is exact: no sequence of reservations, releases,          *)
(* technical failures and records opened by hand makes it differ from the  *)
(* number of seller dispositions.                                          *)
THEOREM CountsExact == Spec => []CountExact
<1>1. Init => CountExact
  <2> SUFFICES ASSUME Init, NEW e \in Entries
               PROVE  entry[e].count = SellerAttempts(e, attempt)
    BY DEF CountExact
  <2>1. {a \in Attempts : attempt[a].status = "seller" /\ attempt[a].entry = e} = {}
    BY BlankRows DEF Init
  <2> QED BY <2>1, FS_EmptySet DEF Init, SellerAttempts
<1>2. IInv /\ Books /\ CountExact /\ [Next]_vars => CountExact'
  BY InvariantStep, EveryStepBooked, BookedCounts DEF IInv
<1> QED BY <1>1, <1>2, Invariance, BooksKept, PTL DEF Spec

(* Every transaction of the coordinator is a step of the reservation       *)
(* contract: an attempt only moves on, a record is handed back only while  *)
(* no call can exist, and its tally counts each decision exactly once.     *)
THEOREM Implements == Spec => ImplementsContract
<1>1. Init => Contract!Init
  <2> SUFFICES ASSUME Init PROVE Contract!Init
    OBVIOUS
  <2>1. \A a \in Attempts : RowStage(attempt[a]) = "unused" /\ attempt[a].entry = None
    BY BlankRows DEF Init, RowStage
  <2>2. \A e \in Entries : entry[e].count = 0
    BY DEF Init
  <2> QED BY <2>1, <2>2 DEF Contract!Init
<1>2. IInv /\ Books /\ [Next]_vars => [Contract!Step]_(Contract!vars)
  BY InvariantStep, EveryStepBooked, BooksStep, BookedSteps DEF IInv, Books
<1> QED BY <1>1, <1>2, Invariance, BooksKept, PTL DEF Spec, ImplementsContract, Contract!Spec
=============================================================================
