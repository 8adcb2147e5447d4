----------------------- MODULE OutreachDeliveryProofs -----------------------
(***************************************************************************)
(* What a revision of buyer outreach shows and sends, for any messages and *)
(* workers: what is shown as sent was taken on and a cancellation is final *)
(* whatever happens; a text leaves once while nobody pauses the revision   *)
(* and two workers overlap, and what was recorded stays shown while every  *)
(* lease outlasts the turn of its worker.                                  *)
(***************************************************************************)
EXTENDS OutreachDelivery, TLAPS

(* A message goes one way, a row names no absent message, and refusals are *)
(* of the vocabulary of the two preflights.                                *)
Instance ==
  /\ NoDelivery \notin Messages /\ Emails \cap Texts = {}
  /\ Refusals \subseteq Failures
  /\ Blocks \subseteq {"ineligible", "suppressed", "opted_out", "transient"}
  /\ MaxVersion \in Nat \ {0} /\ MaxFaults \in Nat

WorkerRows ==
  [at : {"idle", "claimed", "prepared", "marked", "failing"},
   on : Messages \cup {NoDelivery}, token : Nat, verdict : Failures \cup {"none", "cancelled"}]

Works(w, m) == worker[w].on = m

-----------------------------------------------------------------------------
(* What holds of every revision. *)

(* A worker at work has a message, and one that fails a verdict.           *)
OnTurn ==
  \A w \in Workers :
    /\ worker[w].at = "idle" <=> worker[w].on = NoDelivery
    /\ worker[w].at = "failing" => worker[w].verdict \in Failures

(* A row that tells of an acceptance is about a message that left.         *)
Tells(d, n) ==
  /\ d.dispatch = "recorded" => d.record # "none"
  /\ d.record # "none" => n > 0
  /\ d.status \in {"sent", "delivered", "replied"} => n > 0

Telling == \A m \in Messages : Tells(delivery[m], copies[m])

Succeeded == {"delivered", "replied", "cancelled"}
Completed == revision = "completed" => \A m \in Messages : delivery[m].status \in Succeeded

IInv == OutreachTypeOK /\ OnTurn /\ Telling /\ Completed

-----------------------------------------------------------------------------
(* What holds of a text while nobody pauses the revision.                  *)

(* A claim's token is the number of its attempt.                           *)
Numbered ==
  \A m \in Messages :
    /\ delivery[m].token <= delivery[m].attempt
    /\ delivery[m].status = "claimed" =>
         delivery[m].token = delivery[m].attempt /\ delivery[m].attempt > 0

Marking(w, m) == Works(w, m) /\ worker[w].at = "marked"

(* The next step of this worker may be the submission.                     *)
Armed(w, m) ==
  Marking(w, m) /\ delivery[m].status = "delivery_unknown" /\ delivery[m].token = worker[w].token

(* A worker that marked a text holds an earlier claim's number, or the row *)
(* shows its mark; no two hold the same.                                   *)
Marked ==
  \A w \in Workers, m \in Messages : Marking(w, m) =>
    /\ m \in Texts /\ worker[w].token \in 1..delivery[m].attempt
    /\ delivery[m].status = "claimed" => worker[w].token < delivery[m].attempt
    /\ Armed(w, m) => delivery[m].dispatch \notin {"none", "pending"}
    /\ \A v \in Workers : v # w /\ Marking(v, m) => worker[v].token # worker[w].token

(* A text that left has no second road out: its dispatch says so, no       *)
(* worker is armed with it, and one that prepared it before meets a row    *)
(* that is out of play and no worker who could bring it back.              *)
Spent(m) ==
  /\ delivery[m].dispatch \notin {"none", "pending"}
  /\ \A w \in Workers : ~Armed(w, m)
  /\ \A w \in Workers : Works(w, m) /\ worker[w].at = "prepared" =>
       /\ delivery[m].status \notin Unsent
       /\ \A v \in Workers : v # w /\ Works(v, m) =>
            worker[v].at = "failing" /\ worker[v].verdict # "failed_retryable"

SpentTexts == \A m \in Texts : copies[m] > 0 => Spent(m)

TextInv == IInv /\ revision # "paused" /\ Numbered /\ Marked /\ SpentTexts /\ TextSentOnce

-----------------------------------------------------------------------------
(* What holds while leases outlast the workers' turns.                     *)

Shown == {"sent", "delivered", "replied", "opted_out", "failed_terminal", "suppressed"}

(* A message in work is one worker's, has not been accepted, and its claim *)
(* is fresh.                                                               *)
InHand ==
  \A w \in Workers, m \in Messages : Works(w, m) =>
    /\ delivery[m].record = "none" /\ ~(delivery[m].status = "claimed" /\ delivery[m].stale)
    /\ delivery[m].status \in {"claimed", "delivery_unknown", "cancelled"}
    /\ \A v \in Workers : Works(v, m) => v = w

ShownRows == \A m \in Messages : delivery[m].record # "none" => delivery[m].status \in Shown

RecordInv == IInv /\ InHand /\ ShownRows

-----------------------------------------------------------------------------
(* Rows. *)

LEMMA Typed ==
  ASSUME IInv
  PROVE  /\ delivery \in [Messages -> DeliveryRows] /\ worker \in [Workers -> WorkerRows]
         /\ copies \in [Messages -> Nat] /\ revision \in RevisionStatuses
  BY DEF IInv, OutreachTypeOK, WorkerRows

LEMMA Typing ==
  ASSUME delivery' \in [Messages -> DeliveryRows], worker' \in [Workers -> WorkerRows],
         copies' \in [Messages -> Nat], revision' \in RevisionStatuses,
         version' \in 1..MaxVersion, faults' \in 0..MaxFaults
  PROVE  OutreachTypeOK'
  BY DEF OutreachTypeOK, WorkerRows

(* A worker at work has a message of the revision. *)
LEMMA AtWork ==
  ASSUME Instance, IInv, NEW w \in Workers, worker[w].at # "idle"
  PROVE  \E m \in Messages : m = worker[w].on /\ Works(w, m)
  BY Typed DEF IInv, OnTurn, WorkerRows, Works

LEMMA SyncedIs ==
  ASSUME NEW rev \in RevisionStatuses, NEW D
  PROVE  /\ Synced(rev, D) \in RevisionStatuses
         /\ Controlled(rev) => Synced(rev, D) = rev
         /\ ~Controlled(rev) => ~Controlled(Synced(rev, D))
         /\ Synced(rev, D) = "completed" =>
              \/ \A m \in Messages : D[m].status \in Succeeded
              \/ rev = "completed" /\ \E m \in Messages : D[m].status \notin TerminalStatuses
  BY DEF Synced, Controlled, RevisionStatuses, TerminalStatuses, Succeeded

(* The one row a step writes. *)
LEMMA RowSet ==
  ASSUME delivery \in [Messages -> DeliveryRows], NEW m \in Messages, NEW d \in DeliveryRows,
         delivery' = [delivery EXCEPT ![m] = d]
  PROVE  /\ delivery' \in [Messages -> DeliveryRows] /\ delivery'[m] = d
         /\ \A n \in Messages : n # m => delivery'[n] = delivery[n]
  OBVIOUS

LEMMA TurnSet ==
  ASSUME worker \in [Workers -> WorkerRows], NEW w \in Workers, NEW x \in WorkerRows, Turn(w, x)
  PROVE  /\ worker' \in [Workers -> WorkerRows] /\ worker'[w] = x
         /\ \A v \in Workers : v # w => worker'[v] = worker[v]
  BY DEF Turn

LEMMA IdleRow == ASSUME Instance PROVE Idle \in WorkerRows /\ Idle.at = "idle" /\ Idle.on = NoDelivery
  BY DEF Idle, WorkerRows, Failures

LEMMA FailingSet ==
  ASSUME Instance, IInv, NEW w \in Workers, NEW v \in Failures, worker[w].at # "idle",
         Failing(w, v)
  PROVE  /\ worker' \in [Workers -> WorkerRows]
         /\ worker'[w].at = "failing" /\ worker'[w].on = worker[w].on
         /\ worker'[w].verdict = v
         /\ \A u \in Workers : u # w => worker'[u] = worker[u]
<1> DEFINE x == [worker[w] EXCEPT !.at = "failing", !.verdict = v]
<1>1. x \in WorkerRows /\ x.at = "failing" /\ x.on = worker[w].on /\ x.verdict = v
  BY Typed DEF WorkerRows
<1>2. Turn(w, x)
  BY DEF Failing
<1> HIDE DEF x
<1> QED BY <1>1, <1>2, TurnSet, Typed

(* The invariant over a step that writes one row, or none. *)
LEMMA RowKeeps ==
  ASSUME IInv, NEW m \in Messages, NEW d \in DeliveryRows, NEW n \in Nat,
         delivery' = [delivery EXCEPT ![m] = d], copies' = [copies EXCEPT ![m] = n],
         Tells(d, n)
  PROVE  /\ delivery' \in [Messages -> DeliveryRows] /\ copies' \in [Messages -> Nat]
         /\ Telling'
         /\ \A k \in Messages : k # m => delivery'[k] = delivery[k] /\ copies'[k] = copies[k]
         /\ delivery'[m] = d /\ copies'[m] = n
<1>1. /\ delivery' \in [Messages -> DeliveryRows] /\ delivery'[m] = d
      /\ \A k \in Messages : k # m => delivery'[k] = delivery[k]
  BY RowSet, Typed
<1>2. /\ copies' \in [Messages -> Nat] /\ copies'[m] = n
      /\ \A k \in Messages : k # m => copies'[k] = copies[k]
  BY Typed
<1>3. \A k \in Messages : Tells(delivery'[k], copies'[k])
  BY <1>1, <1>2 DEF IInv, Telling
<1> QED BY <1>1, <1>2, <1>3 DEF Telling

LEMMA WriteCompletes ==
  ASSUME IInv, NEW m \in Messages, NEW d \in DeliveryRows, Write(m, d),
         d.status \notin {"prepared", "approved"}
  PROVE  revision' \in RevisionStatuses /\ Completed'
         /\ (Controlled(revision) => revision' = revision)
         /\ (~Controlled(revision) => ~Controlled(revision'))
<1>1. revision' = Synced(revision, delivery') /\ delivery' = [delivery EXCEPT ![m] = d]
  BY DEF Write
<1>2. /\ delivery'[m] = d
      /\ \A k \in Messages : k # m => delivery'[k] = delivery[k]
  BY <1>1, RowSet, Typed
<1>3. ASSUME revision' = "completed", NEW k \in Messages
      PROVE  delivery'[k].status \in Succeeded
  <2>1. CASE \A j \in Messages : delivery'[j].status \in Succeeded
    BY <2>1
  <2>2. CASE revision = "completed" /\ \E j \in Messages : delivery'[j].status \notin TerminalStatuses
    <3>1. \A j \in Messages : j # m => delivery'[j].status \in Succeeded
      BY <1>2, <2>2 DEF IInv, Completed
    <3>2. d.status \notin TerminalStatuses
      BY <1>2, <2>2, <3>1 DEF Succeeded, TerminalStatuses
    <3>3. d.status \in {"queued", "claimed", "sent"}
      BY <3>2 DEF DeliveryRows, TerminalStatuses, Unsent, Failures
    <3>4. Synced(revision, delivery') = "sending"
      BY <1>2, <2>2, <3>3 DEF Synced, Controlled
    <3> QED BY <1>1, <1>3, <3>4
  <2> QED BY <1>1, <1>3, <2>1, <2>2, SyncedIs, Typed
<1> QED BY <1>1, <1>3, SyncedIs, Typed DEF Completed

-----------------------------------------------------------------------------
(* Every step keeps the invariant of every revision. *)

(* What a step leaves to show when it writes no row. *)
LEMMA RowsRest ==
  ASSUME IInv, UNCHANGED <<delivery, revision>>, NEW m \in Messages, NEW n \in Nat,
         copies' = [copies EXCEPT ![m] = n], n > 0 \/ n = copies[m]
  PROVE  /\ delivery' \in [Messages -> DeliveryRows] /\ copies' \in [Messages -> Nat]
         /\ Telling' /\ Completed' /\ revision' \in RevisionStatuses
<1>1. copies' \in [Messages -> Nat] /\ \A k \in Messages : copies[k] > 0 => copies'[k] > 0
  BY Typed
<1>2. \A k \in Messages : Tells(delivery'[k], copies'[k])
  BY <1>1, Typed DEF IInv, Telling, Tells
<1> QED BY <1>1, <1>2, Typed DEF IInv, Telling, Completed

LEMMA TurnKeeps ==
  ASSUME IInv, NEW w \in Workers, NEW x \in WorkerRows, Turn(w, x),
         x.at = "idle" <=> x.on = NoDelivery, x.at = "failing" => x.verdict \in Failures
  PROVE  worker' \in [Workers -> WorkerRows] /\ OnTurn'
<1>1. /\ worker' \in [Workers -> WorkerRows] /\ worker'[w] = x
      /\ \A v \in Workers : v # w => worker'[v] = worker[v]
  BY TurnSet, Typed
<1> QED BY <1>1 DEF IInv, OnTurn

LEMMA IdleKeeps ==
  ASSUME Instance, IInv, NEW w \in Workers, Turn(w, Idle)
  PROVE  worker' \in [Workers -> WorkerRows] /\ OnTurn'
  BY IdleRow, TurnKeeps

LEMMA FailingKeeps ==
  ASSUME Instance, IInv, NEW w \in Workers, NEW v \in Failures, worker[w].at # "idle",
         Failing(w, v)
  PROVE  worker' \in [Workers -> WorkerRows] /\ OnTurn'
<1>1. /\ worker' \in [Workers -> WorkerRows]
      /\ worker'[w].at = "failing" /\ worker'[w].on = worker[w].on
      /\ worker'[w].verdict = v
      /\ \A u \in Workers : u # w => worker'[u] = worker[u]
  BY FailingSet
<1> QED BY <1>1 DEF IInv, OnTurn

LEMMA Counters ==
  ASSUME IInv
  PROVE  /\ version \in 1..MaxVersion /\ faults \in 0..MaxFaults
         /\ UNCHANGED version => version' \in 1..MaxVersion
         /\ UNCHANGED faults => faults' \in 0..MaxFaults
  BY DEF IInv, OutreachTypeOK

LEMMA FaultCounted ==
  ASSUME Instance, IInv, faults < MaxFaults, faults' = faults + 1
  PROVE  faults' \in 0..MaxFaults
  BY Counters DEF Instance

LEMMA ClaimDeliveryStep ==
  ASSUME Instance, IInv, NEW w \in Workers, NEW m \in Messages, ClaimDelivery(w, m)
  PROVE  IInv'
<1> DEFINE n == delivery[m].attempt + 1
           d == [delivery[m] EXCEPT !.status = "claimed", !.attempt = n, !.token = n, !.stale = FALSE]
           x == [Idle EXCEPT !.at = "claimed", !.on = m]
<1>1. /\ delivery' = [delivery EXCEPT ![m] = d] /\ Turn(w, x) /\ revision' = "sending"
      /\ UNCHANGED <<version, copies, faults>>
  BY DEF ClaimDelivery, Turn
<1>2. n \in Nat
  BY Typed DEF DeliveryRows
<1> HIDE DEF n
<1>3. d \in DeliveryRows /\ d.status = "claimed" /\ d.dispatch = delivery[m].dispatch
      /\ d.record = delivery[m].record
  BY <1>2, Typed DEF DeliveryRows, Unsent
<1>4. x \in WorkerRows /\ x.at = "claimed" /\ x.on = m
  BY DEF Idle, WorkerRows, Failures
<1> HIDE DEF d, x
<1>5. /\ Tells(d, copies[m]) /\ copies' = [copies EXCEPT ![m] = copies[m]]
      /\ copies[m] \in Nat
  BY <1>1, <1>3, Typed DEF Tells, IInv, Telling
<1>6. /\ delivery' \in [Messages -> DeliveryRows] /\ copies' \in [Messages -> Nat] /\ Telling'
  BY <1>1, <1>3, <1>5, RowKeeps
<1>7. worker' \in [Workers -> WorkerRows] /\ OnTurn'
  BY <1>1, <1>4, TurnKeeps DEF Instance
<1>8. Completed' /\ revision' \in RevisionStatuses
  BY <1>1 DEF Completed, RevisionStatuses
<1> QED BY <1>1, <1>6, <1>7, <1>8, Counters, Typing DEF IInv

(* A refused message: nothing but the worker's turn, and what the provider *)
(* may have taken on.                                                      *)
LEMMA RefusedKeeps ==
  ASSUME Instance, IInv, NEW w \in Workers, NEW m \in Messages, NEW v \in Failures, NEW n \in Nat,
         worker[w].at # "idle", Failing(w, v), UNCHANGED <<delivery, revision, version>>,
         copies' = [copies EXCEPT ![m] = n], n > 0 \/ n = copies[m], faults' \in 0..MaxFaults
  PROVE  IInv'
  BY RowsRest, FailingKeeps, Counters, Typing DEF IInv

(* A row written at the end of a turn. *)
LEMMA ClosingKeeps ==
  ASSUME Instance, IInv, NEW w \in Workers, NEW m \in Messages, NEW d \in DeliveryRows,
         NEW n \in Nat, Write(m, d), Turn(w, Idle), UNCHANGED <<version, faults>>,
         d.status \notin {"prepared", "approved"},
         copies' = [copies EXCEPT ![m] = n], Tells(d, n)
  PROVE  IInv'
<1>1. delivery' = [delivery EXCEPT ![m] = d]
  BY DEF Write
<1>2. /\ delivery' \in [Messages -> DeliveryRows] /\ copies' \in [Messages -> Nat] /\ Telling'
  BY <1>1, RowKeeps
<1> QED BY <1>2, WriteCompletes, IdleKeeps, Counters, Typing DEF IInv

(* A row written while the revision's status stays. *)
LEMMA AsideKeeps ==
  ASSUME Instance, IInv, NEW m \in Messages, NEW d \in DeliveryRows,
         delivery' = [delivery EXCEPT ![m] = d], UNCHANGED <<revision, copies, version>>,
         Tells(d, copies[m]), revision = "completed" => d.status \in Succeeded,
         worker' \in [Workers -> WorkerRows], OnTurn', faults' \in 0..MaxFaults
  PROVE  IInv'
<1>1. copies' = [copies EXCEPT ![m] = copies[m]] /\ copies[m] \in Nat
  BY Typed
<1>2. /\ delivery' \in [Messages -> DeliveryRows] /\ copies' \in [Messages -> Nat] /\ Telling'
      /\ \A k \in Messages : k # m => delivery'[k] = delivery[k]
      /\ delivery'[m] = d
  BY <1>1, RowKeeps
<1>3. Completed'
  BY <1>2 DEF IInv, Completed
<1> QED BY <1>2, <1>3, Typed, Counters, Typing DEF IInv

(* The rows a turn may leave behind. *)
Statuses == TerminalStatuses \cup Unsent \cup {"sent"}
Dispatches == Failures \cup {"none", "pending", "cancelled", "recorded"}

LEMMA PutBackRow ==
  ASSUME NEW r \in DeliveryRows, NEW n \in Nat, Tells(r, n)
  PROVE  /\ DeferredDelivery(r) \in DeliveryRows /\ Tells(DeferredDelivery(r), n)
         /\ DeferredDelivery(r).status = IF revision = "paused" THEN "queued" ELSE "cancelled"
         /\ DeferredDelivery(r).token = 0 /\ DeferredDelivery(r).record = r.record
         /\ DeferredDelivery(r).attempt = r.attempt /\ DeferredDelivery(r).stale = r.stale
         /\ revision # "paused" /\ r.dispatch \notin {"none", "pending"} =>
              DeferredDelivery(r).dispatch \notin {"none", "pending"}
<1> DEFINE status == IF revision = "paused" THEN "queued" ELSE "cancelled"
           dispatch == IF r.dispatch \in {"none", "recorded"} THEN r.dispatch
                       ELSE IF revision = "paused" THEN "pending" ELSE "cancelled"
<1>1. PICK d : d = DeferredDelivery(r)
  OBVIOUS
<1>2. d = [r EXCEPT !.status = status, !.token = 0, !.dispatch = dispatch]
  BY <1>1 DEF DeferredDelivery, DeliveryRows
<1>3. /\ status \in Statuses /\ dispatch \in Dispatches
      /\ dispatch = "recorded" => r.dispatch = "recorded"
      /\ revision # "paused" /\ r.dispatch \notin {"none", "pending"} =>
           dispatch \notin {"none", "pending"}
      /\ status = IF revision = "paused" THEN "queued" ELSE "cancelled"
  BY DEF Statuses, Dispatches, TerminalStatuses, Unsent, DeliveryRows
<1>4. status \notin {"sent", "delivered", "replied"}
  OBVIOUS
<1> HIDE DEF status, dispatch
<1>5. /\ d \in DeliveryRows /\ d.status = status /\ d.token = 0 /\ d.dispatch = dispatch
      /\ d.record = r.record /\ d.attempt = r.attempt /\ d.stale = r.stale
  BY <1>2, <1>3 DEF Statuses, Dispatches, DeliveryRows
<1> QED BY <1>1, <1>3, <1>4, <1>5 DEF Tells

FailedWith(r, v) == [r EXCEPT !.status = v, !.token = 0,
                              !.dispatch = IF @ \in {"none", "recorded"} THEN @ ELSE v]

LEMMA FailedRow ==
  ASSUME NEW r \in DeliveryRows, NEW n \in Nat, NEW v \in Failures, Tells(r, n)
  PROVE  /\ FailedWith(r, v) \in DeliveryRows /\ Tells(FailedWith(r, v), n)
         /\ FailedWith(r, v).status = v /\ FailedWith(r, v).token = 0
         /\ FailedWith(r, v).record = r.record /\ FailedWith(r, v).attempt = r.attempt
         /\ r.dispatch \notin {"none", "pending"} =>
              FailedWith(r, v).dispatch \notin {"none", "pending"}
<1> DEFINE dispatch == IF r.dispatch \in {"none", "recorded"} THEN r.dispatch ELSE v
<1>1. PICK d : d = FailedWith(r, v)
  OBVIOUS
<1>2. d = [r EXCEPT !.status = v, !.token = 0, !.dispatch = dispatch]
  BY <1>1 DEF FailedWith
<1>3. /\ dispatch \in Dispatches
      /\ dispatch = "recorded" => r.dispatch = "recorded"
      /\ r.dispatch \notin {"none", "pending"} => dispatch \notin {"none", "pending"}
  BY DEF Dispatches, Failures, DeliveryRows
<1>4. v \in Statuses /\ v \notin {"sent", "delivered", "replied"}
  BY DEF Statuses, TerminalStatuses, Failures
<1> HIDE DEF dispatch
<1>5. /\ d \in DeliveryRows /\ d.status = v /\ d.token = 0 /\ d.dispatch = dispatch
      /\ d.record = r.record /\ d.attempt = r.attempt
  BY <1>2, <1>3, <1>4 DEF Statuses, Dispatches, DeliveryRows
<1> QED BY <1>1, <1>3, <1>4, <1>5 DEF Tells

LEMMA AcceptedRow ==
  ASSUME NEW r \in DeliveryRows, NEW n \in Nat, n > 0
  PROVE  /\ Accepted(r) \in DeliveryRows /\ Tells(Accepted(r), n)
         /\ Accepted(r).status = "sent" /\ Accepted(r).token = 0
         /\ Accepted(r).dispatch = "recorded" /\ Accepted(r).attempt = r.attempt
         /\ Accepted(r).record = "sent"
  BY DEF Accepted, DeliveryRows, Tells

Reported == {"sent", "delivered", "failed", "suppressed"}

MappedWith(r, t) == [r EXCEPT !.status = MappedStatus(r.record), !.token = t]

LEMMA MappedRow ==
  ASSUME NEW r \in DeliveryRows, NEW n \in Nat, Tells(r, n), r.record \in Reported, NEW t \in Nat
  PROVE  LET d == MappedWith(r, t)
         IN /\ d \in DeliveryRows /\ Tells(d, n) /\ d.token = t /\ d.attempt = r.attempt
            /\ d.status \in {"sent", "delivered", "failed_terminal", "suppressed"}
            /\ d.dispatch = r.dispatch /\ d.record = r.record
<1> DEFINE x == MappedStatus(r.record)
<1>1. x \in {"sent", "delivered", "failed_terminal", "suppressed"}
  BY DEF MappedStatus, Reported
<1>2. x \in Statuses
  BY <1>1 DEF Statuses, TerminalStatuses, Failures
<1>3. r.record # "none"
  BY DEF Reported
<1>4. PICK d : d = MappedWith(r, t)
  OBVIOUS
<1>5. d = [r EXCEPT !.status = x, !.token = t]
  BY <1>4 DEF MappedWith
<1> HIDE DEF x
<1>6. /\ d \in DeliveryRows /\ d.status = x /\ d.token = t /\ d.dispatch = r.dispatch
      /\ d.record = r.record /\ d.attempt = r.attempt
  BY <1>2, <1>5 DEF Statuses, DeliveryRows
<1> QED BY <1>1, <1>3, <1>4, <1>6 DEF Tells

LEMMA PreflightIs ==
  ASSUME Instance, NEW m, NEW allowed, NEW v \in Preflight(m, allowed)
  PROVE  /\ v = "ok" => delivery[m].status \in allowed /\ revision \in Active
         /\ v # "ok" => v \in Failures
  BY DEF Preflight, Instance, Failures

-----------------------------------------------------------------------------
(* What a worker's step is, after its claim. *)

(* The provider may take the message on: the worker is past its preflight. *)
CanSend(w, m) ==
  /\ revision \in Active /\ Works(w, m)
  /\ \/ m \in Emails /\ worker[w].at = "prepared" /\ delivery[m].status = "claimed"
     \/ Armed(w, m)

FaultOrNot == UNCHANGED faults \/ (faults < MaxFaults /\ faults' = faults + 1)

Refused(w) ==
  /\ worker[w].at # "failing" /\ UNCHANGED <<delivery, revision, version>> /\ FaultOrNot
  /\ \E v \in Failures :
       /\ Failing(w, v)
       /\ \/ UNCHANGED copies
          \/ v = "delivery_unknown" /\ CanSend(w, worker[w].on) /\ TakenOn(worker[w].on)

LetsGo(w) ==
  /\ Turn(w, Idle) /\ UNCHANGED <<delivery, revision, version>> /\ FaultOrNot
  /\ UNCHANGED copies \/ (CanSend(w, worker[w].on) /\ TakenOn(worker[w].on))

GivesUp(w) ==
  /\ worker[w].at = "failing" /\ Turn(w, Idle) /\ UNCHANGED <<version, copies, faults>>
  /\ Write(worker[w].on, FailedWith(delivery[worker[w].on], worker[w].verdict))

Delivers(w) ==
  /\ CanSend(w, worker[w].on) /\ TakenOn(worker[w].on)
  /\ Write(worker[w].on, Accepted(delivery[worker[w].on]))
  /\ Turn(w, Idle) /\ UNCHANGED <<version, faults>>

FindsRecorded(w) ==
  /\ worker[w].at = "claimed" /\ delivery[worker[w].on].status = "claimed"
  /\ delivery[worker[w].on].dispatch = "recorded"
  /\ Write(worker[w].on, MappedWith(delivery[worker[w].on], 0))
  /\ Turn(w, Idle) /\ UNCHANGED <<version, copies, faults>>

PutsBack(w) ==
  /\ worker[w].at \in {"prepared", "marked"} /\ revision \notin Active
  /\ delivery' = [delivery EXCEPT ![worker[w].on] = DeferredDelivery(@)]
  /\ Turn(w, Idle) /\ UNCHANGED <<revision, version, copies, faults>>

Prepares(w) ==
  /\ worker[w].at = "claimed" /\ delivery[worker[w].on].status = "claimed" /\ revision \in Active
  /\ delivery[worker[w].on].dispatch \in {"none", "pending"}
  /\ delivery' = [delivery EXCEPT ![worker[w].on].dispatch = "pending"]
  /\ Turn(w, [worker[w] EXCEPT !.at = "prepared"])
  /\ UNCHANGED <<revision, version, copies, faults>>

Marks(w) ==
  /\ worker[w].at = "prepared" /\ worker[w].on \in Texts /\ revision \in Active
  /\ delivery[worker[w].on].status = "claimed"
  /\ MarkUncertain(w, worker[w].on) /\ UNCHANGED <<version, faults>>

AfterClaim(w) ==
  \/ Refused(w) \/ LetsGo(w) \/ GivesUp(w) \/ Delivers(w) \/ FindsRecorded(w)
  \/ PutsBack(w) \/ Prepares(w) \/ Marks(w)

LEMMA VerdictKnown ==
  ASSUME IInv, NEW w \in Workers, worker[w].at = "failing"
  PROVE  worker[w].verdict \in Failures
  BY DEF IInv, OnTurn

LEMMA SubmitIs ==
  ASSUME NEW w, NEW m, CanSend(w, m), m = worker[w].on, SubmitDelivery(w, m),
         UNCHANGED <<version, faults>>, worker[w].at # "failing"
  PROVE  Refused(w) \/ Delivers(w)
<1>1. PICK a \in Answers(m) :
        /\ IF a[1] THEN TakenOn(m) ELSE UNCHANGED copies
        /\ IF a[2] = "ok"
           THEN Write(m, Accepted(delivery[m])) /\ Turn(w, Idle)
           ELSE Failing(w, a[2]) /\ UNCHANGED <<delivery, revision>>
  BY DEF SubmitDelivery
<1>2. /\ a[2] = "ok" => a[1]
      /\ a[2] # "ok" => a[2] \in Failures
      /\ a[1] /\ a[2] # "ok" => a[2] = "delivery_unknown"
  <2>1. \/ a = <<TRUE, "ok">> \/ a = <<TRUE, "delivery_unknown">>
        \/ a = <<FALSE, "delivery_unknown">> \/ a = <<FALSE, "failed_terminal">>
        \/ a = <<FALSE, "failed_retryable">>
    BY DEF Answers
  <2>2. CASE a = <<TRUE, "ok">>
    <3>1. a[1] = TRUE /\ a[2] = "ok"
      BY <2>2
    <3> QED BY <3>1
  <2>3. CASE a = <<TRUE, "delivery_unknown">>
    <3>1. a[1] = TRUE /\ a[2] = "delivery_unknown"
      BY <2>3
    <3> QED BY <3>1 DEF Failures
  <2>4. CASE a = <<FALSE, "delivery_unknown">>
    <3>1. a[1] = FALSE /\ a[2] = "delivery_unknown"
      BY <2>4
    <3> QED BY <3>1 DEF Failures
  <2>5. CASE a = <<FALSE, "failed_terminal">>
    <3>1. a[1] = FALSE /\ a[2] = "failed_terminal"
      BY <2>5
    <3> QED BY <3>1 DEF Failures
  <2>6. CASE a = <<FALSE, "failed_retryable">>
    <3>1. a[1] = FALSE /\ a[2] = "failed_retryable"
      BY <2>6
    <3> QED BY <3>1 DEF Failures
  <2> QED BY <2>1, <2>2, <2>3, <2>4, <2>5, <2>6
<1>3. CASE a[2] = "ok"
  BY <1>1, <1>2, <1>3 DEF Delivers
<1>4. CASE a[2] # "ok"
  <2>1. \/ UNCHANGED copies
        \/ a[2] = "delivery_unknown" /\ CanSend(w, worker[w].on) /\ TakenOn(worker[w].on)
    BY <1>1, <1>2, <1>4
  <2>2. Failing(w, a[2]) /\ UNCHANGED <<delivery, revision, version>> /\ a[2] \in Failures
    BY <1>1, <1>2, <1>4
  <2> QED BY <2>1, <2>2 DEF Refused, FaultOrNot
<1> QED BY <1>3, <1>4

LEMMA PrepareIs ==
  ASSUME Instance, NEW w, Prepare(w)
  PROVE  Refused(w) \/ FindsRecorded(w) \/ Prepares(w)
<1> DEFINE m == worker[w].on
           d == delivery[m]
<1>1. worker[w].at = "claimed" /\ UNCHANGED <<version, copies, faults>>
  BY DEF Prepare
<1>2. PICK v \in Preflight(m, {"claimed"}) :
       \/ /\ v # "ok" /\ Failing(w, v) /\ UNCHANGED <<delivery, revision>>
       \/ /\ v = "ok" /\ d.dispatch = "recorded"
          /\ Write(m, [d EXCEPT !.status = MappedStatus(d.record), !.token = 0])
          /\ Turn(w, Idle)
       \/ /\ v = "ok" /\ d.dispatch \notin {"none", "pending", "recorded"}
          /\ Failing(w, "delivery_unknown") /\ UNCHANGED <<delivery, revision>>
       \/ /\ v = "ok" /\ d.dispatch \in {"none", "pending"}
          /\ delivery' = [delivery EXCEPT ![m].dispatch = "pending"]
          /\ Turn(w, [worker[w] EXCEPT !.at = "prepared"])
          /\ UNCHANGED revision
  BY DEF Prepare
<1>3. /\ v = "ok" => d.status = "claimed" /\ revision \in Active
      /\ v # "ok" => v \in Failures
      /\ "delivery_unknown" \in Failures
  BY PreflightIs DEF Failures
<1>4. CASE v # "ok" /\ Failing(w, v) /\ UNCHANGED <<delivery, revision>>
  BY <1>1, <1>3, <1>4 DEF Refused, FaultOrNot
<1>5. CASE /\ v = "ok" /\ d.dispatch = "recorded"
           /\ Write(m, [d EXCEPT !.status = MappedStatus(d.record), !.token = 0])
           /\ Turn(w, Idle)
  BY <1>1, <1>3, <1>5 DEF FindsRecorded, MappedWith
<1>6. CASE v = "ok" /\ Failing(w, "delivery_unknown") /\ UNCHANGED <<delivery, revision>>
  BY <1>1, <1>3, <1>6 DEF Refused, FaultOrNot
<1>7. CASE /\ v = "ok" /\ d.dispatch \in {"none", "pending"}
           /\ delivery' = [delivery EXCEPT ![m].dispatch = "pending"]
           /\ Turn(w, [worker[w] EXCEPT !.at = "prepared"])
           /\ UNCHANGED revision
  BY <1>1, <1>3, <1>7 DEF Prepares
<1> QED BY <1>2, <1>4, <1>5, <1>6, <1>7

(* A boundary is crossed by the preflight, or the row is put back. *)
LEMMA BoundaryIs ==
  ASSUME Instance, NEW w, NEW m, m = worker[w].on, NEW allowed,
         worker[w].at \in {"prepared", "marked"}, UNCHANGED <<version, faults>>,
         \/ /\ revision \notin Active
            /\ delivery' = [delivery EXCEPT ![m] = DeferredDelivery(@)]
            /\ Turn(w, Idle) /\ UNCHANGED <<revision, copies>>
         \/ \E v \in Preflight(m, allowed) :
              v # "ok" /\ Failing(w, v) /\ UNCHANGED <<delivery, revision, copies>>
  PROVE  PutsBack(w) \/ Refused(w)
<1>1. CASE revision \notin Active /\ delivery' = [delivery EXCEPT ![m] = DeferredDelivery(@)]
             /\ Turn(w, Idle) /\ UNCHANGED <<revision, copies>>
  BY <1>1 DEF PutsBack
<1>2. CASE \E v \in Preflight(m, allowed) :
             v # "ok" /\ Failing(w, v) /\ UNCHANGED <<delivery, revision, copies>>
  <2>1. PICK v \in Preflight(m, allowed) :
          v # "ok" /\ Failing(w, v) /\ UNCHANGED <<delivery, revision, copies>>
    BY <1>2
  <2>2. v \in Failures
    BY <2>1, PreflightIs
  <2> QED BY <2>1, <2>2 DEF Refused, FaultOrNot
<1> QED BY <1>1, <1>2

LEMMA SendEmailIs ==
  ASSUME Instance, NEW w, SendEmail(w)
  PROVE  PutsBack(w) \/ Refused(w) \/ Delivers(w)
<1>1. PICK m : m = worker[w].on
  OBVIOUS
<1>2. worker[w].at = "prepared" /\ m \in Emails /\ UNCHANGED <<version, faults>>
  BY <1>1 DEF SendEmail
<1>3. CASE revision \in Active /\ delivery[m].status = "claimed" /\ SubmitDelivery(w, m)
  <2>1. CanSend(w, m)
    BY <1>1, <1>2, <1>3 DEF CanSend, Works
  <2> QED BY <1>1, <1>2, <1>3, <2>1, SubmitIs
<1>4. CASE ~(revision \in Active /\ delivery[m].status = "claimed" /\ SubmitDelivery(w, m))
  <2>1. \/ /\ revision \notin Active
           /\ delivery' = [delivery EXCEPT ![m] = DeferredDelivery(@)]
           /\ Turn(w, Idle) /\ UNCHANGED <<revision, copies>>
        \/ \E v \in Preflight(m, {"claimed"}) :
             v # "ok" /\ Failing(w, v) /\ UNCHANGED <<delivery, revision, copies>>
    BY <1>1, <1>4, PreflightIs DEF SendEmail, Cross
  <2> QED BY <1>1, <1>2, <2>1, BoundaryIs
<1> QED BY <1>3, <1>4

LEMMA MarkTextIs ==
  ASSUME Instance, NEW w, MarkText(w)
  PROVE  PutsBack(w) \/ Refused(w) \/ Marks(w)
<1>1. PICK m : m = worker[w].on
  OBVIOUS
<1>2. worker[w].at = "prepared" /\ m \in Texts /\ UNCHANGED <<version, faults>>
  BY <1>1 DEF MarkText
<1>3. CASE revision \in Active /\ delivery[m].status = "claimed" /\ MarkUncertain(w, m)
  BY <1>1, <1>2, <1>3 DEF Marks
<1>4. CASE ~(revision \in Active /\ delivery[m].status = "claimed" /\ MarkUncertain(w, m))
  <2>1. \/ /\ revision \notin Active
           /\ delivery' = [delivery EXCEPT ![m] = DeferredDelivery(@)]
           /\ Turn(w, Idle) /\ UNCHANGED <<revision, copies>>
        \/ \E v \in Preflight(m, {"claimed"}) :
             v # "ok" /\ Failing(w, v) /\ UNCHANGED <<delivery, revision, copies>>
    BY <1>1, <1>4, PreflightIs DEF MarkText, Cross
  <2> QED BY <1>1, <1>2, <2>1, BoundaryIs
<1> QED BY <1>3, <1>4

LEMMA SendTextIs ==
  ASSUME Instance, NEW w, SendText(w)
  PROVE  PutsBack(w) \/ Refused(w) \/ Delivers(w) \/ LetsGo(w)
<1>1. PICK m : m = worker[w].on
  OBVIOUS
<1>2. worker[w].at = "marked" /\ UNCHANGED <<version, faults>>
  BY <1>1 DEF SendText
<1>3. CASE delivery[m].token # worker[w].token
  BY <1>1, <1>2, <1>3 DEF SendText, LetsGo, FaultOrNot
<1>4. CASE /\ delivery[m].token = worker[w].token
           /\ revision \in Active /\ delivery[m].status = "delivery_unknown" /\ SubmitDelivery(w, m)
  <2>1. CanSend(w, m)
    BY <1>1, <1>2, <1>4 DEF CanSend, Armed, Marking, Works
  <2> QED BY <1>1, <1>2, <1>4, <2>1, SubmitIs
<1>5. CASE /\ delivery[m].token = worker[w].token
           /\ ~(revision \in Active /\ delivery[m].status = "delivery_unknown"
                /\ SubmitDelivery(w, m))
  <2>1. \/ /\ revision \notin Active
           /\ delivery' = [delivery EXCEPT ![m] = DeferredDelivery(@)]
           /\ Turn(w, Idle) /\ UNCHANGED <<revision, copies>>
        \/ \E v \in Preflight(m, {"delivery_unknown"}) :
             v # "ok" /\ Failing(w, v) /\ UNCHANGED <<delivery, revision, copies>>
    BY <1>1, <1>5, PreflightIs DEF SendText, Cross
  <2> QED BY <1>1, <1>2, <2>1, BoundaryIs
<1> QED BY <1>3, <1>4, <1>5

LEMMA TurnIs ==
  ASSUME Instance, IInv, NEW w \in Workers,
         Prepare(w) \/ SendEmail(w) \/ MarkText(w) \/ SendText(w) \/ FailDelivery(w)
           \/ Trouble(w) \/ Crash(w)
  PROVE  AfterClaim(w)
<1>1. CASE Prepare(w)
  BY <1>1, PrepareIs DEF AfterClaim
<1>2. CASE SendEmail(w)
  BY <1>2, SendEmailIs DEF AfterClaim
<1>3. CASE MarkText(w)
  BY <1>3, MarkTextIs DEF AfterClaim
<1>4. CASE SendText(w)
  BY <1>4, SendTextIs DEF AfterClaim
<1>5. CASE FailDelivery(w)
  <2>1. GivesUp(w)
    BY <1>5 DEF FailDelivery, GivesUp, FailedWith
  <2> QED BY <2>1 DEF AfterClaim
<1>6. CASE Trouble(w)
  <2>1. Refused(w)
    BY <1>6 DEF Trouble, Refused, FaultOrNot, Failures
  <2> QED BY <2>1 DEF AfterClaim
<1>7. CASE Crash(w)
  <2>1. LetsGo(w)
    BY <1>7 DEF Crash, LetsGo, FaultOrNot, CanSend, Armed, Marking, Works
  <2> QED BY <2>1 DEF AfterClaim
<1> QED BY <1>1, <1>2, <1>3, <1>4, <1>5, <1>6, <1>7

-----------------------------------------------------------------------------
(* A worker's step keeps the invariant of every revision. *)

LEMMA AtWorkHas ==
  ASSUME Instance, IInv, NEW w \in Workers, NEW m, m = worker[w].on, worker[w].at # "idle"
  PROVE  m \in Messages /\ Works(w, m)
  BY AtWork

LEMMA CanSendHas ==
  ASSUME Instance, IInv, NEW w \in Workers, NEW m, m = worker[w].on, CanSend(w, m)
  PROVE  m \in Messages /\ worker[w].at \in {"prepared", "marked"}
  BY AtWork DEF CanSend, Armed, Marking, Works

LEMMA FaultsKept ==
  ASSUME Instance, IInv, FaultOrNot
  PROVE  faults' \in 0..MaxFaults
  BY Counters, FaultCounted DEF FaultOrNot

(* A message taken on has one copy at least, and a text one more.          *)
LEMMA TakenIs ==
  ASSUME IInv, NEW m \in Messages, TakenOn(m)
  PROVE  \E n \in Nat : /\ copies' = [copies EXCEPT ![m] = n] /\ n > 0
                        /\ m \notin Emails => n = copies[m] + 1
<1> DEFINE n == IF m \in Emails THEN 1 ELSE copies[m] + 1
<1>1. copies' = [copies EXCEPT ![m] = n]
  BY DEF TakenOn
<1>2. n \in Nat /\ n > 0 /\ (m \notin Emails => n = copies[m] + 1)
  BY Typed
<1> HIDE DEF n
<1> QED BY <1>1, <1>2

(* The copies after a step that may have submitted the message. *)
LEMMA CopiesAre ==
  ASSUME IInv, NEW m \in Messages, UNCHANGED copies \/ TakenOn(m)
  PROVE  \E n \in Nat : copies' = [copies EXCEPT ![m] = n] /\ (n > 0 \/ n = copies[m])
<1>1. CASE UNCHANGED copies
  <2>1. copies[m] \in Nat /\ copies' = [copies EXCEPT ![m] = copies[m]]
    BY <1>1, Typed
  <2> QED BY <2>1
<1>2. CASE TakenOn(m)
  BY <1>2, TakenIs
<1> QED BY <1>1, <1>2

LEMMA RefusedStep ==
  ASSUME Instance, IInv, NEW w \in Workers, worker[w].at # "idle", Refused(w)
  PROVE  IInv'
<1>1. PICK m \in Messages : m = worker[w].on
  BY AtWork
<1>2. PICK v \in Failures : Failing(w, v) /\ (UNCHANGED copies \/ TakenOn(m))
  BY <1>1 DEF Refused
<1>3. PICK n \in Nat : copies' = [copies EXCEPT ![m] = n] /\ (n > 0 \/ n = copies[m])
  BY <1>2, CopiesAre
<1>4. UNCHANGED <<delivery, revision, version>> /\ faults' \in 0..MaxFaults
  BY FaultsKept DEF Refused
<1> QED BY <1>2, <1>3, <1>4, RefusedKeeps

LEMMA LetsGoStep ==
  ASSUME Instance, IInv, NEW w \in Workers, worker[w].at # "idle", LetsGo(w)
  PROVE  IInv'
<1>1. PICK m \in Messages : m = worker[w].on
  BY AtWork
<1>2. PICK n \in Nat : copies' = [copies EXCEPT ![m] = n] /\ (n > 0 \/ n = copies[m])
  BY <1>1, CopiesAre DEF LetsGo
<1>3. /\ UNCHANGED <<delivery, revision, version>> /\ faults' \in 0..MaxFaults
      /\ Turn(w, Idle)
  BY FaultsKept DEF LetsGo
<1> QED BY <1>2, <1>3, RowsRest, IdleKeeps, Counters, Typing DEF IInv

LEMMA GivesUpStep ==
  ASSUME Instance, IInv, NEW w \in Workers, GivesUp(w)
  PROVE  IInv'
<1>1. PICK m \in Messages : m = worker[w].on
  BY AtWork DEF GivesUp
<1>2. PICK v \in Failures : v = worker[w].verdict
  BY VerdictKnown DEF GivesUp
<1>3. PICK d : d = FailedWith(delivery[m], v)
  OBVIOUS
<1>4. d \in DeliveryRows /\ d.status = v /\ Tells(d, copies[m])
  BY <1>3, FailedRow, Typed DEF IInv, Telling
<1>5. d.status \notin {"prepared", "approved"}
  BY <1>4 DEF Failures
<1>6. Write(m, d) /\ Turn(w, Idle) /\ UNCHANGED <<version, copies, faults>>
  BY <1>1, <1>2, <1>3 DEF GivesUp
<1>7. copies' = [copies EXCEPT ![m] = copies[m]] /\ copies[m] \in Nat
  BY <1>6, Typed
<1> QED BY <1>4, <1>5, <1>6, <1>7, ClosingKeeps

LEMMA DeliversStep ==
  ASSUME Instance, IInv, NEW w \in Workers, Delivers(w)
  PROVE  IInv'
<1>1. PICK m \in Messages : m = worker[w].on
  BY CanSendHas DEF Delivers
<1>2. PICK n \in Nat : copies' = [copies EXCEPT ![m] = n] /\ n > 0
  BY <1>1, TakenIs DEF Delivers
<1>3. PICK d : d = Accepted(delivery[m])
  OBVIOUS
<1>4. d \in DeliveryRows /\ d.status = "sent" /\ Tells(d, n)
  BY <1>2, <1>3, AcceptedRow, Typed
<1>5. Write(m, d) /\ Turn(w, Idle) /\ UNCHANGED <<version, faults>>
  BY <1>1, <1>3 DEF Delivers
<1> QED BY <1>2, <1>4, <1>5, ClosingKeeps

LEMMA RecordKnown ==
  ASSUME IInv, NEW m \in Messages, delivery[m].record # "none"
  PROVE  delivery[m].record \in Reported
  BY Typed DEF DeliveryRows, Reported

LEMMA FindsRecordedStep ==
  ASSUME Instance, IInv, NEW w \in Workers, FindsRecorded(w)
  PROVE  IInv'
<1>1. PICK m \in Messages : m = worker[w].on
  BY AtWork DEF FindsRecorded
<1>2. delivery[m].record \in Reported /\ Tells(delivery[m], copies[m])
  BY <1>1, RecordKnown DEF IInv, Telling, Tells, FindsRecorded
<1>3. PICK d : d = MappedWith(delivery[m], 0)
  OBVIOUS
<1>4. /\ d \in DeliveryRows /\ Tells(d, copies[m])
      /\ d.status \in {"sent", "delivered", "failed_terminal", "suppressed"}
  BY <1>2, <1>3, MappedRow, Typed
<1>5. Write(m, d) /\ Turn(w, Idle) /\ UNCHANGED <<version, copies, faults>>
  BY <1>1, <1>3 DEF FindsRecorded
<1>6. copies' = [copies EXCEPT ![m] = copies[m]] /\ copies[m] \in Nat
  BY <1>5, Typed
<1> QED BY <1>4, <1>5, <1>6, ClosingKeeps

LEMMA PutsBackStep ==
  ASSUME Instance, IInv, NEW w \in Workers, PutsBack(w)
  PROVE  IInv'
<1>1. PICK m \in Messages : m = worker[w].on
  BY AtWork DEF PutsBack
<1>2. PICK d : d = DeferredDelivery(delivery[m])
  OBVIOUS
<1>3. /\ d \in DeliveryRows /\ Tells(d, copies[m])
      /\ d.status = IF revision = "paused" THEN "queued" ELSE "cancelled"
  BY <1>2, PutBackRow, Typed DEF IInv, Telling
<1>4. /\ delivery' = [delivery EXCEPT ![m] = d] /\ Turn(w, Idle)
      /\ UNCHANGED <<revision, version, copies, faults>>
  BY <1>1, <1>2 DEF PutsBack
<1>5. revision = "completed" => d.status \in Succeeded
  BY <1>3 DEF Succeeded
<1> QED BY <1>3, <1>4, <1>5, AsideKeeps, IdleKeeps, Counters

LEMMA PreparesStep ==
  ASSUME Instance, IInv, NEW w \in Workers, Prepares(w)
  PROVE  IInv'
<1>1. PICK m \in Messages : m = worker[w].on
  BY AtWork DEF Prepares
<1>2. PICK d : d = [delivery[m] EXCEPT !.dispatch = "pending"]
  OBVIOUS
<1>3. d \in DeliveryRows /\ Tells(d, copies[m])
  BY <1>2, Typed DEF DeliveryRows, Tells, IInv, Telling
<1>4. PICK x : x = [worker[w] EXCEPT !.at = "prepared"]
  OBVIOUS
<1>5. x \in WorkerRows /\ x.at = "prepared" /\ x.on = m
  BY <1>1, <1>4, Typed DEF WorkerRows
<1>6. /\ delivery' = [delivery EXCEPT ![m] = d] /\ Turn(w, x)
      /\ UNCHANGED <<revision, version, copies, faults>> /\ revision \in Active
  BY <1>1, <1>2, <1>4 DEF Prepares
<1>7. worker' \in [Workers -> WorkerRows] /\ OnTurn'
  BY <1>5, <1>6, TurnKeeps DEF Instance
<1>8. revision # "completed"
  BY <1>6 DEF Active
<1> QED BY <1>3, <1>6, <1>7, <1>8, AsideKeeps, Counters

LEMMA MarksStep ==
  ASSUME Instance, IInv, NEW w \in Workers, Marks(w)
  PROVE  IInv'
<1>1. PICK m \in Messages : m = worker[w].on
  BY AtWork DEF Marks
<1>2. PICK d : d = [delivery[m] EXCEPT !.status = "delivery_unknown",
                                       !.dispatch = "delivery_unknown"]
  OBVIOUS
<1>3. d \in DeliveryRows /\ Tells(d, copies[m])
  BY <1>2, Typed DEF DeliveryRows, Tells, IInv, Telling, TerminalStatuses, Failures
<1>4. PICK x : x = [worker[w] EXCEPT !.at = "marked", !.token = delivery[m].token]
  OBVIOUS
<1>5. x \in WorkerRows /\ x.at = "marked" /\ x.on = m
  <2>1. delivery[m].token \in Nat
    BY Typed DEF DeliveryRows
  <2> QED BY <1>1, <1>4, <2>1, Typed DEF WorkerRows
<1>6. /\ delivery' = [delivery EXCEPT ![m] = d] /\ Turn(w, x)
      /\ UNCHANGED <<revision, version, copies, faults>> /\ revision \in Active
  BY <1>1, <1>2, <1>4 DEF Marks, MarkUncertain
<1>7. worker' \in [Workers -> WorkerRows] /\ OnTurn'
  BY <1>5, <1>6, TurnKeeps DEF Instance
<1>8. revision # "completed"
  BY <1>6 DEF Active
<1> QED BY <1>3, <1>6, <1>7, <1>8, AsideKeeps, Counters

-----------------------------------------------------------------------------
(* Steps on one row, and the operators' commands. *)

(* What time, the provider, the reconciliation and the buyer do to a row. *)
Touched(m, d) ==
  /\ d.attempt = delivery[m].attempt /\ d.token = delivery[m].token
  /\ d.dispatch = delivery[m].dispatch
  /\ d.record = "none" <=> delivery[m].record = "none"
  /\ \/ d.status = delivery[m].status /\ (d.stale = delivery[m].stale \/ d.status = "claimed")
     \/ /\ delivery[m].status \in {"sent", "delivered"}
        /\ d.status \in {"sent", "delivered", "failed_terminal", "suppressed", "replied", "opted_out"}

LEMMA ClaimExpiresIs ==
  ASSUME IInv, NEW m \in Messages, ClaimExpires(m)
  PROVE  \E d \in DeliveryRows : /\ delivery' = [delivery EXCEPT ![m] = d] /\ Touched(m, d)
                                 /\ Tells(d, copies[m]) /\ d.status = delivery[m].status
                                 /\ d.record = delivery[m].record
                                 /\ delivery[m].status = "claimed"
<1>1. PICK d : d = [delivery[m] EXCEPT !.stale = TRUE]
  OBVIOUS
<1>2. delivery' = [delivery EXCEPT ![m] = d] /\ delivery[m].status = "claimed"
  BY <1>1 DEF ClaimExpires
<1>3. /\ d \in DeliveryRows /\ d.status = delivery[m].status /\ d.record = delivery[m].record
      /\ d.dispatch = delivery[m].dispatch /\ d.attempt = delivery[m].attempt
      /\ d.token = delivery[m].token
  BY <1>1, Typed DEF DeliveryRows
<1> QED BY <1>2, <1>3 DEF Touched, Tells, IInv, Telling

LEMMA ProviderReportsIs ==
  ASSUME IInv, NEW m \in Messages, ProviderReports(m)
  PROVE  \E d \in DeliveryRows : /\ delivery' = [delivery EXCEPT ![m] = d] /\ Touched(m, d)
                                 /\ Tells(d, copies[m]) /\ d.status = delivery[m].status
<1>1. PICK r \in {"delivered", "failed", "suppressed"} :
        delivery' = [delivery EXCEPT ![m].record = r]
  BY DEF ProviderReports
<1>2. PICK d : d = [delivery[m] EXCEPT !.record = r]
  OBVIOUS
<1>3. delivery' = [delivery EXCEPT ![m] = d] /\ delivery[m].record # "none"
  BY <1>1, <1>2 DEF ProviderReports
<1>4. /\ d \in DeliveryRows /\ d.status = delivery[m].status /\ d.record = r
      /\ d.dispatch = delivery[m].dispatch /\ d.attempt = delivery[m].attempt
      /\ d.token = delivery[m].token /\ d.stale = delivery[m].stale
  BY <1>2, Typed DEF DeliveryRows
<1> QED BY <1>3, <1>4 DEF Touched, Tells, IInv, Telling

LEMMA ReconcileIs ==
  ASSUME IInv, NEW m \in Messages, Reconcile(m)
  PROVE  \E d \in DeliveryRows : Write(m, d) /\ Touched(m, d) /\ Tells(d, copies[m])
<1>1. PICK t \in Nat : t = delivery[m].token
  BY Typed DEF DeliveryRows
<1>2. PICK d : d = [delivery[m] EXCEPT !.status = MappedStatus(delivery[m].record)]
  OBVIOUS
<1>3. /\ delivery[m].record \in Reported /\ delivery[m].status = "sent"
      /\ Tells(delivery[m], copies[m])
  BY RecordKnown DEF IInv, Telling, Reconcile
<1>4. PICK x : x = MappedStatus(delivery[m].record)
  OBVIOUS
<1>5. x \in {"sent", "delivered", "failed_terminal", "suppressed"} /\ x \in Statuses
  BY <1>3, <1>4 DEF MappedStatus, Reported, Statuses, TerminalStatuses, Failures
<1>6. d = [delivery[m] EXCEPT !.status = x]
  BY <1>2, <1>4
<1>7. /\ d \in DeliveryRows /\ d.status = x /\ d.record = delivery[m].record
      /\ d.dispatch = delivery[m].dispatch /\ d.attempt = delivery[m].attempt
      /\ d.token = delivery[m].token
  BY <1>5, <1>6, Typed DEF DeliveryRows, Statuses
<1>8. Write(m, d)
  BY <1>2 DEF Reconcile
<1>9. Touched(m, d) /\ Tells(d, copies[m])
  BY <1>3, <1>5, <1>7 DEF Touched, Tells, Reported
<1> QED BY <1>7, <1>8, <1>9

LEMMA ReplyIs ==
  ASSUME IInv, NEW m \in Messages, Reply(m)
  PROVE  \E d \in DeliveryRows : Write(m, d) /\ Touched(m, d) /\ Tells(d, copies[m])
<1>1. PICK x \in {"replied", "opted_out"} :
        Write(m, [delivery[m] EXCEPT !.status = x, !.replied = TRUE])
  BY DEF Reply
<1>2. PICK d : d = [delivery[m] EXCEPT !.status = x, !.replied = TRUE]
  OBVIOUS
<1>3. x \in Statuses /\ delivery[m].status \in {"sent", "delivered"}
  BY DEF Reply, Statuses, TerminalStatuses, Failures
<1>4. /\ d \in DeliveryRows /\ d.status = x /\ d.record = delivery[m].record
      /\ d.dispatch = delivery[m].dispatch /\ d.attempt = delivery[m].attempt
      /\ d.token = delivery[m].token
  BY <1>2, <1>3, Typed DEF DeliveryRows, Statuses
<1> QED BY <1>1, <1>2, <1>3, <1>4 DEF Touched, Tells, IInv, Telling

(* A row under a command: left alone, or one of an unsent message, of      *)
(* which a claimed one is only ever cancelled.                             *)
Commanded(m, d) ==
  \/ d = delivery[m]
  \/ /\ delivery[m].status \in Unsent
     /\ d.status \in {"approved", "queued", "failed_retryable", "ineligible", "suppressed",
                      "opted_out", "cancelled"}
     /\ delivery[m].status = "claimed" => d.status = "cancelled"
     /\ d.attempt = delivery[m].attempt /\ d.token \in {0, delivery[m].token}
     /\ d.dispatch = delivery[m].dispatch /\ d.record = delivery[m].record

CommandedRows ==
  /\ delivery' \in [Messages -> DeliveryRows]
  /\ \A m \in Messages : Commanded(m, delivery'[m])

LEMMA RestIsCommanded ==
  ASSUME IInv, UNCHANGED delivery
  PROVE  CommandedRows
  BY Typed DEF CommandedRows, Commanded

LEMMA ApproveRows ==
  ASSUME IInv, Approve
  PROVE  CommandedRows
<1>1. ASSUME NEW m \in Messages
      PROVE  delivery'[m] \in DeliveryRows /\ Commanded(m, delivery'[m])
  <2>1. CASE delivery[m].status = "prepared"
    <3>1. PICK d : d = [delivery[m] EXCEPT !.status = "approved"]
      OBVIOUS
    <3>2. delivery'[m] = d
      BY <2>1, <3>1 DEF Approve
    <3>3. /\ d \in DeliveryRows /\ d.status = "approved" /\ d.record = delivery[m].record
          /\ d.dispatch = delivery[m].dispatch /\ d.attempt = delivery[m].attempt
          /\ d.token = delivery[m].token
      BY <3>1, Typed DEF DeliveryRows, Unsent
    <3> QED BY <2>1, <3>2, <3>3 DEF Commanded, Unsent
  <2>2. CASE delivery[m].status # "prepared"
    <3>1. delivery'[m] = delivery[m]
      BY <2>2 DEF Approve
    <3> QED BY <3>1, Typed DEF Commanded
  <2> QED BY <2>1, <2>2
<1>2. delivery' = [m \in Messages |-> delivery'[m]]
  BY DEF Approve
<1> QED BY <1>1, <1>2 DEF CommandedRows

LEMMA CancelUnsentRows ==
  ASSUME IInv, CancelUnsent
  PROVE  CommandedRows
<1>1. ASSUME NEW m \in Messages
      PROVE  delivery'[m] \in DeliveryRows /\ Commanded(m, delivery'[m])
  <2>1. CASE delivery[m].status \in Unsent
    <3>1. PICK d : d = [delivery[m] EXCEPT !.status = "cancelled"]
      OBVIOUS
    <3>2. delivery'[m] = d
      BY <2>1, <3>1 DEF CancelUnsent
    <3>3. /\ d \in DeliveryRows /\ d.status = "cancelled" /\ d.record = delivery[m].record
          /\ d.dispatch = delivery[m].dispatch /\ d.attempt = delivery[m].attempt
          /\ d.token = delivery[m].token
      BY <3>1, Typed DEF DeliveryRows, TerminalStatuses
    <3> QED BY <2>1, <3>2, <3>3 DEF Commanded
  <2>2. CASE delivery[m].status \notin Unsent
    <3>1. delivery'[m] = delivery[m]
      BY <2>2 DEF CancelUnsent
    <3> QED BY <3>1, Typed DEF Commanded
  <2> QED BY <2>1, <2>2
<1>2. delivery' = [m \in Messages |-> delivery'[m]]
  BY DEF CancelUnsent
<1> QED BY <1>1, <1>2 DEF CommandedRows

LEMMA QueueRows ==
  ASSUME Instance, IInv, NEW C \in SUBSET Messages, Queue(C),
         \A m \in C : delivery[m].status \in {"approved", "queued", "failed_retryable"}
  PROVE  /\ CommandedRows
         /\ revision' \in {"queued", "provider_degraded", "completed_with_failures"}
<1> DEFINE After(v, m) ==
             IF v[m] = "ok"
             THEN [delivery[m] EXCEPT !.status = "queued", !.token = 0, !.stale = FALSE]
             ELSE IF v[m] = "transient"
             THEN [delivery[m] EXCEPT !.status = IF @ = "queued" THEN "approved" ELSE @]
             ELSE [delivery[m] EXCEPT !.status = v[m]]
<1>1. PICK v \in [C -> Blocks \cup {"ok"}] :
        /\ delivery' = [m \in Messages |-> IF m \in C THEN After(v, m) ELSE delivery[m]]
        /\ revision' \in {"queued", "provider_degraded", "completed_with_failures"}
  BY DEF Queue
<1>2. ASSUME NEW m \in Messages
      PROVE  delivery'[m] \in DeliveryRows /\ Commanded(m, delivery'[m])
  <2>1. CASE m \in C
    <3>1. delivery'[m] = After(v, m)
      BY <1>1, <2>1
    <3>2. /\ delivery[m].status \in {"approved", "queued", "failed_retryable"}
          /\ delivery[m] \in DeliveryRows
      BY <2>1, Typed
    <3>3. CASE v[m] = "ok"
      <4>1. PICK d : d = [delivery[m] EXCEPT !.status = "queued", !.token = 0, !.stale = FALSE]
        OBVIOUS
      <4>2. delivery'[m] = d
        BY <3>1, <3>3, <4>1
      <4>3. /\ d \in DeliveryRows /\ d.status = "queued" /\ d.record = delivery[m].record
            /\ d.dispatch = delivery[m].dispatch /\ d.attempt = delivery[m].attempt
            /\ d.token = 0
        BY <3>2, <4>1 DEF DeliveryRows, Unsent
      <4> QED BY <3>2, <4>2, <4>3 DEF Commanded, Unsent
    <3>4. CASE v[m] # "ok"
      <4>1. PICK x : x = IF v[m] # "transient" THEN v[m]
                         ELSE IF delivery[m].status = "queued" THEN "approved"
                         ELSE delivery[m].status
        OBVIOUS
      <4>2. PICK d : d = [delivery[m] EXCEPT !.status = x]
        OBVIOUS
      <4>3. delivery'[m] = d
        BY <3>1, <3>2, <3>4, <4>1, <4>2 DEF DeliveryRows
      <4>4. x \in {"approved", "failed_retryable", "ineligible", "suppressed", "opted_out"}
        BY <2>1, <3>2, <3>4, <4>1 DEF Instance
      <4>5. x \in Statuses
        BY <4>4 DEF Statuses, Unsent, TerminalStatuses, Failures
      <4>6. /\ d \in DeliveryRows /\ d.status = x /\ d.record = delivery[m].record
            /\ d.dispatch = delivery[m].dispatch /\ d.attempt = delivery[m].attempt
            /\ d.token = delivery[m].token
        BY <3>2, <4>2, <4>5 DEF DeliveryRows, Statuses
      <4> QED BY <3>2, <4>3, <4>4, <4>6 DEF Commanded, Unsent
    <3> QED BY <3>3, <3>4
  <2>2. CASE m \notin C
    <3>1. delivery'[m] = delivery[m]
      BY <1>1, <2>2
    <3> QED BY <3>1, Typed DEF Commanded
  <2> QED BY <2>1, <2>2
<1>3. delivery' = [m \in Messages |-> delivery'[m]]
  BY <1>1
<1> QED BY <1>1, <1>2, <1>3 DEF CommandedRows

(* What every command is: it starts from a revision that may still change, *)
(* counts itself, and works on rows alone.                                 *)
LEMMA OperatorIs ==
  ASSUME Instance, IInv, Operator
  PROVE  /\ CommandedRows /\ UNCHANGED <<worker, copies, faults>>
         /\ version' \in 1..MaxVersion
         /\ revision' \in RevisionStatuses \ {"completed"}
         /\ revision' = "paused" => "pause" \in Controls
         /\ revision \notin {"cancelled", "invalidated"}
<1>1. ASSUME NEW c, Command(c)
      PROVE  version' \in 1..MaxVersion /\ UNCHANGED <<worker, copies, faults>> /\ c \in Controls
  BY <1>1, Counters DEF Command, Instance
<1>2. /\ Waiting \in SUBSET Messages /\ Retryable \in SUBSET Messages
      /\ \A m \in Waiting \cup Retryable :
           delivery[m].status \in {"approved", "queued", "failed_retryable"}
  BY DEF Waiting, Retryable
<1>3. CASE Approve
  BY <1>1, <1>3, ApproveRows DEF Approve, RevisionStatuses
<1>4. CASE Redraft
  BY <1>1, <1>4, RestIsCommanded DEF Redraft, RevisionStatuses
<1>5. CASE Release
  <2>1. Queue(Waiting) /\ Command("release") /\ revision \in {"approved", "provider_degraded"}
    BY <1>5 DEF Release
  <2> QED BY <1>1, <1>2, <2>1, QueueRows DEF RevisionStatuses
<1>6. CASE Pause
  BY <1>1, <1>6, RestIsCommanded DEF Pause, RevisionStatuses
<1>7. CASE Resume
  <2>1. Queue(Waiting) /\ Command("resume") /\ revision \in {"paused", "provider_degraded"}
    BY <1>7 DEF Resume
  <2> QED BY <1>1, <1>2, <2>1, QueueRows DEF RevisionStatuses
<1>8. CASE CancelUnsent
  BY <1>1, <1>8, CancelUnsentRows DEF CancelUnsent, RevisionStatuses
<1>9. CASE RetryFailed
  <2>1. /\ Queue(Retryable) /\ Command("retry")
        /\ revision \in {"completed_with_failures", "provider_degraded", "paused"}
    BY <1>9 DEF RetryFailed
  <2> QED BY <1>1, <1>2, <2>1, QueueRows DEF RevisionStatuses
<1> QED BY <1>3, <1>4, <1>5, <1>6, <1>7, <1>8, <1>9 DEF Operator

LEMMA OperatorStep ==
  ASSUME Instance, IInv, Operator
  PROVE  IInv'
<1>1. /\ CommandedRows /\ UNCHANGED <<worker, copies, faults>>
      /\ version' \in 1..MaxVersion /\ revision' \in RevisionStatuses \ {"completed"}
  BY OperatorIs
<1>2. ASSUME NEW m \in Messages
      PROVE  Tells(delivery'[m], copies'[m])
  BY <1>1, Typed DEF CommandedRows, Commanded, Tells, IInv, Telling
<1>3. Telling' /\ Completed' /\ OnTurn'
  BY <1>1, <1>2 DEF Telling, Completed, IInv, OnTurn
<1> QED BY <1>1, <1>3, Typed, Counters, Typing DEF IInv, CommandedRows

(* A row written by the provider's side, with the summary of the revision. *)
LEMMA WrittenKeeps ==
  ASSUME IInv, NEW m \in Messages, NEW d \in DeliveryRows, Write(m, d), Tells(d, copies[m]),
         UNCHANGED <<version, worker, copies, faults>>, d.status \notin {"prepared", "approved"}
  PROVE  IInv'
<1>1. /\ delivery' = [delivery EXCEPT ![m] = d]
      /\ copies' = [copies EXCEPT ![m] = copies[m]] /\ copies[m] \in Nat
  BY Typed DEF Write
<1>2. /\ delivery' \in [Messages -> DeliveryRows] /\ copies' \in [Messages -> Nat] /\ Telling'
  BY <1>1, RowKeeps
<1>3. OnTurn'
  BY DEF IInv, OnTurn
<1> QED BY <1>2, <1>3, WriteCompletes, Typed, Counters, Typing DEF IInv

LEMMA RowStep ==
  ASSUME Instance, IInv, NEW m \in Messages,
         ClaimExpires(m) \/ ProviderReports(m) \/ Reconcile(m) \/ Reply(m)
  PROVE  IInv'
<1>1. OnTurn' /\ worker' \in [Workers -> WorkerRows]
  BY Typed DEF IInv, OnTurn, ClaimExpires, ProviderReports, Reconcile, Reply
<1>2. CASE ClaimExpires(m)
  <2>1. PICK d \in DeliveryRows : /\ delivery' = [delivery EXCEPT ![m] = d]
                                  /\ Tells(d, copies[m]) /\ delivery[m].status = "claimed"
    BY <1>2, ClaimExpiresIs
  <2>2. revision # "completed"
    BY <2>1 DEF IInv, Completed, Succeeded
  <2>3. UNCHANGED <<revision, copies, version>> /\ faults' \in 0..MaxFaults
    BY <1>2, Counters, FaultCounted DEF ClaimExpires
  <2> QED BY <1>1, <2>1, <2>2, <2>3, AsideKeeps
<1>3. CASE ProviderReports(m)
  <2>1. PICK d \in DeliveryRows : /\ delivery' = [delivery EXCEPT ![m] = d]
                                  /\ Tells(d, copies[m]) /\ d.status = delivery[m].status
    BY <1>3, ProviderReportsIs
  <2>2. UNCHANGED <<revision, copies, version, faults>>
    BY <1>3 DEF ProviderReports
  <2> QED BY <1>1, <2>1, <2>2, AsideKeeps, Counters DEF IInv, Completed
<1>4. CASE Reconcile(m)
  <2>1. PICK d \in DeliveryRows : Write(m, d) /\ Touched(m, d) /\ Tells(d, copies[m])
    BY <1>4, ReconcileIs
  <2>2. d.status \notin {"prepared", "approved"}
    BY <1>4, <2>1 DEF Touched, Reconcile
  <2> QED BY <1>4, <2>1, <2>2, WrittenKeeps DEF Reconcile
<1>5. CASE Reply(m)
  <2>1. PICK d \in DeliveryRows : Write(m, d) /\ Touched(m, d) /\ Tells(d, copies[m])
    BY <1>5, ReplyIs
  <2>2. d.status \notin {"prepared", "approved"}
    BY <1>5, <2>1 DEF Touched, Reply
  <2> QED BY <1>5, <2>1, <2>2, WrittenKeeps DEF Reply
<1> QED BY <1>2, <1>3, <1>4, <1>5

(* The steps there are: a claim, the rest of a worker's turn, a step on    *)
(* one row, a command.                                                     *)
LEMMA NextIs ==
  ASSUME Instance, IInv, OutreachNext
  PROVE  \/ \E w \in Workers, m \in Messages : ClaimDelivery(w, m)
         \/ \E w \in Workers : worker[w].at # "idle" /\ AfterClaim(w)
         \/ \E m \in Messages :
              ClaimExpires(m) \/ ProviderReports(m) \/ Reconcile(m) \/ Reply(m)
         \/ Operator
<1>1. ASSUME NEW w \in Workers,
             Prepare(w) \/ SendEmail(w) \/ MarkText(w) \/ SendText(w) \/ FailDelivery(w)
               \/ Trouble(w) \/ Crash(w)
      PROVE  worker[w].at # "idle" /\ AfterClaim(w)
  <2>1. worker[w].at # "idle"
    BY <1>1 DEF Prepare, SendEmail, MarkText, SendText, FailDelivery, Trouble, Crash
  <2> QED BY <1>1, <2>1, TurnIs
<1> QED BY <1>1 DEF OutreachNext, Turns

LEMMA AfterClaimStep ==
  ASSUME Instance, IInv, NEW w \in Workers, worker[w].at # "idle", AfterClaim(w)
  PROVE  IInv'
  BY RefusedStep, LetsGoStep, GivesUpStep, DeliversStep, FindsRecordedStep, PutsBackStep,
     PreparesStep, MarksStep DEF AfterClaim

LEMMA StutterStep ==
  ASSUME IInv, UNCHANGED outreachVars
  PROVE  IInv'
  BY DEF IInv, OutreachTypeOK, OnTurn, Telling, Completed, outreachVars

LEMMA InvariantSteps ==
  ASSUME Instance, IInv, [OutreachNext]_outreachVars
  PROVE  IInv'
<1>1. CASE OutreachNext
  BY <1>1, NextIs, ClaimDeliveryStep, AfterClaimStep, RowStep, OperatorStep
<1> QED BY <1>1, StutterStep

LEMMA InvariantStarts ==
  ASSUME Instance, OutreachInit
  PROVE  IInv
<1>1. PICK r : r = [status |-> "prepared", attempt |-> 0, token |-> 0, stale |-> FALSE,
                    dispatch |-> "none", record |-> "none", replied |-> FALSE]
  OBVIOUS
<1>2. r \in DeliveryRows /\ Tells(r, 0)
  BY <1>1 DEF DeliveryRows, Tells, Unsent
<1>3. delivery = [m \in Messages |-> r] /\ copies = [m \in Messages |-> 0]
  BY <1>1 DEF OutreachInit
<1>4. worker \in [Workers -> WorkerRows] /\ OnTurn
  BY IdleRow DEF OutreachInit, OnTurn
<1>5. /\ revision \in RevisionStatuses /\ version \in 1..MaxVersion /\ faults \in 0..MaxFaults
      /\ Completed
  BY DEF OutreachInit, RevisionStatuses, Instance, Completed
<1>6. Telling
  BY <1>2, <1>3 DEF Telling
<1> QED BY <1>2, <1>3, <1>4, <1>5, <1>6 DEF IInv, OutreachTypeOK, WorkerRows

LEMMA Invariance == ASSUME Instance PROVE OutreachSpec => []IInv
<1>1. OutreachInit => IInv
  BY InvariantStarts
<1>2. IInv /\ [OutreachNext]_outreachVars => IInv'
  BY InvariantSteps
<1> QED BY <1>1, <1>2, PTL DEF OutreachSpec

-----------------------------------------------------------------------------
(* What an operator sees and decides. *)

(* Operators, workers and provider reports leave well-formed rows, within  *)
(* the bounds.                                                             *)
THEOREM OutreachTypes == ASSUME Instance PROVE OutreachSpec => []OutreachTypeOK
<1>1. IInv => OutreachTypeOK
  BY DEF IInv
<1> QED BY <1>1, Invariance, PTL

Closed == revision \in {"cancelled", "invalidated"}

LEMMA WriteUnderControl ==
  ASSUME IInv, Closed, NEW m, NEW d, Write(m, d)
  PROVE  revision' = revision
  BY Typed DEF Write, Synced, Controlled, Closed

LEMMA ClosedRests ==
  ASSUME Instance, IInv, Closed, OutreachNext
  PROVE  revision' = revision /\ copies' = copies
<1>1. revision \notin Active
  BY DEF Closed, Active
<1>2. CASE \E w \in Workers, m \in Messages : ClaimDelivery(w, m)
  BY <1>1, <1>2 DEF ClaimDelivery, Claimable
<1>3. ASSUME NEW w \in Workers, AfterClaim(w)
      PROVE  revision' = revision /\ copies' = copies
  <2>1. ~CanSend(w, worker[w].on)
    BY <1>1 DEF CanSend
  <2>2. CASE Refused(w) \/ LetsGo(w)
    BY <2>1, <2>2 DEF Refused, LetsGo
  <2>3. CASE GivesUp(w) \/ FindsRecorded(w)
    BY <2>3, WriteUnderControl DEF GivesUp, FindsRecorded
  <2>4. CASE Delivers(w)
    BY <2>1, <2>4 DEF Delivers
  <2>5. CASE PutsBack(w)
    BY <2>5 DEF PutsBack
  <2>6. CASE Prepares(w) \/ Marks(w)
    BY <1>1, <2>6 DEF Prepares, Marks
  <2> QED BY <1>3, <2>2, <2>3, <2>4, <2>5, <2>6 DEF AfterClaim
<1>4. CASE \E m \in Messages :
             ClaimExpires(m) \/ ProviderReports(m) \/ Reconcile(m) \/ Reply(m)
  BY <1>4, WriteUnderControl DEF ClaimExpires, ProviderReports, Reconcile, Reply
<1>5. ~Operator
  BY OperatorIs DEF Closed
<1> QED BY <1>2, <1>3, <1>4, <1>5, NextIs

(* An operator who has cancelled a revision sees no further message leave, *)
(* and nothing reopens it: a worker that claimed, prepared or marked a     *)
(* message before crosses no boundary, and no summary overrides the word.  *)
THEOREM CancellationIsFinal == ASSUME Instance PROVE OutreachSpec => CancelIsFinal
<1>1. IInv /\ [OutreachNext]_outreachVars =>
        [Closed => revision' = revision /\ copies' = copies]_outreachVars
  BY ClosedRests
<1>2. OutreachSpec => [][Closed => revision' = revision /\ copies' = copies]_outreachVars
  BY <1>1, Invariance, PTL DEF OutreachSpec
<1> QED BY <1>2 DEF CancelIsFinal, Closed

-----------------------------------------------------------------------------
(* What a worker's step leaves of its message and of itself. *)

(* Nothing but the worker's own turn and its message is touched.           *)
Moves(w, m) ==
  /\ m \in Messages /\ Works(w, m)
  /\ \A v \in Workers : v # w => worker'[v] = worker[v]
  /\ \A k \in Messages : k # m => delivery'[k] = delivery[k] /\ copies'[k] = copies[k]

Sends(w, m) ==
  CanSend(w, m) /\ copies'[m] > 0 /\ (m \notin Emails => copies'[m] = copies[m] + 1)

FailsNext(w, m) ==
  /\ worker[w].at # "failing" /\ delivery'[m] = delivery[m]
  /\ worker'[w].at = "failing" /\ worker'[w].on = m
  /\ copies'[m] = copies[m] \/ (Sends(w, m) /\ worker'[w].verdict = "delivery_unknown")

EndsBare(w, m) ==
  /\ delivery'[m] = delivery[m] /\ worker'[w] = Idle
  /\ copies'[m] = copies[m] \/ Sends(w, m)

EndsWritten(w, m) ==
  /\ worker'[w] = Idle
  /\ delivery'[m].token = 0 /\ delivery'[m].attempt = delivery[m].attempt
  /\ revision # "paused" /\ delivery[m].dispatch \notin {"none", "pending"} =>
       delivery'[m].dispatch \notin {"none", "pending"}
  /\ \/ /\ worker[w].at = "failing" /\ delivery'[m].status = worker[w].verdict
        /\ worker[w].verdict \in Failures
        /\ delivery'[m].record = delivery[m].record /\ copies'[m] = copies[m]
     \/ /\ Sends(w, m) /\ delivery'[m].status = "sent"
     \/ /\ worker[w].at = "claimed" /\ delivery[m].record # "none" /\ copies'[m] = copies[m]
        /\ delivery'[m].status \in {"sent", "delivered", "failed_terminal", "suppressed"}
     \/ /\ worker[w].at \in {"prepared", "marked"} /\ copies'[m] = copies[m]
        /\ delivery'[m].status = IF revision = "paused" THEN "queued" ELSE "cancelled"
        /\ delivery'[m].record = delivery[m].record

GoesOn(w, m) ==
  /\ delivery[m].status = "claimed" /\ copies'[m] = copies[m]
  /\ delivery'[m].attempt = delivery[m].attempt /\ delivery'[m].token = delivery[m].token
  /\ delivery'[m].record = delivery[m].record /\ delivery'[m].stale = delivery[m].stale
  /\ worker'[w].on = m
  /\ \/ /\ worker[w].at = "claimed" /\ worker'[w].at = "prepared"
        /\ delivery[m].dispatch \in {"none", "pending"} /\ delivery'[m].status = "claimed"
     \/ /\ worker[w].at = "prepared" /\ m \in Texts
        /\ worker'[w].at = "marked" /\ worker'[w].token = delivery[m].token
        /\ delivery'[m].status = "delivery_unknown" /\ delivery'[m].dispatch = "delivery_unknown"

LEMMA SendsIs ==
  ASSUME IInv, NEW w, NEW m \in Messages, CanSend(w, m), TakenOn(m)
  PROVE  Sends(w, m) /\ \A k \in Messages : k # m => copies'[k] = copies[k]
<1>1. PICK n \in Nat : /\ copies' = [copies EXCEPT ![m] = n] /\ n > 0
                       /\ m \notin Emails => n = copies[m] + 1
  BY TakenIs
<1> QED BY <1>1, Typed DEF Sends

LEMMA RefusedIs ==
  ASSUME Instance, IInv, NEW w \in Workers, NEW m \in Messages, m = worker[w].on,
         worker[w].at # "idle", Refused(w)
  PROVE  Moves(w, m) /\ FailsNext(w, m)
<1>1. PICK v \in Failures :
        /\ Failing(w, v)
        /\ UNCHANGED copies \/ (v = "delivery_unknown" /\ CanSend(w, m) /\ TakenOn(m))
  BY DEF Refused
<1>2. /\ worker'[w].at = "failing" /\ worker'[w].on = m /\ worker'[w].verdict = v
      /\ \A u \in Workers : u # w => worker'[u] = worker[u]
  BY <1>1, FailingSet
<1>3. UNCHANGED delivery /\ worker[w].at # "failing"
  BY DEF Refused
<1> QED BY <1>1, <1>2, <1>3, SendsIs DEF Moves, FailsNext, Works

LEMMA IdleSet ==
  ASSUME Instance, IInv, NEW w \in Workers, Turn(w, Idle)
  PROVE  worker'[w] = Idle /\ \A u \in Workers : u # w => worker'[u] = worker[u]
  BY Typed, TurnSet, IdleRow

LEMMA LetsGoIs ==
  ASSUME Instance, IInv, NEW w \in Workers, NEW m \in Messages, m = worker[w].on, LetsGo(w)
  PROVE  Moves(w, m) /\ EndsBare(w, m)
<1>1. worker'[w] = Idle /\ \A u \in Workers : u # w => worker'[u] = worker[u]
  BY IdleSet DEF LetsGo
<1>2. UNCHANGED delivery /\ (UNCHANGED copies \/ (CanSend(w, m) /\ TakenOn(m)))
  BY DEF LetsGo
<1> QED BY <1>1, <1>2, SendsIs DEF Moves, EndsBare, Works

LEMMA GivesUpIs ==
  ASSUME Instance, IInv, NEW w \in Workers, NEW m \in Messages, m = worker[w].on, GivesUp(w)
  PROVE  Moves(w, m) /\ EndsWritten(w, m)
<1>1. PICK v \in Failures : v = worker[w].verdict
  BY VerdictKnown DEF GivesUp
<1>2. PICK d : d = FailedWith(delivery[m], v)
  OBVIOUS
<1>3. /\ d \in DeliveryRows /\ d.status = v /\ d.token = 0
      /\ d.record = delivery[m].record /\ d.attempt = delivery[m].attempt
      /\ delivery[m].dispatch \notin {"none", "pending"} => d.dispatch \notin {"none", "pending"}
  BY <1>2, FailedRow, Typed DEF IInv, Telling
<1>4. /\ delivery' = [delivery EXCEPT ![m] = d] /\ UNCHANGED copies
      /\ Turn(w, Idle) /\ worker[w].at = "failing"
  BY <1>1, <1>2 DEF GivesUp, Write
<1>5. delivery'[m] = d /\ \A k \in Messages : k # m => delivery'[k] = delivery[k]
  BY <1>3, <1>4, RowSet, Typed
<1> QED BY <1>1, <1>3, <1>4, <1>5, IdleSet DEF Moves, EndsWritten, Works

LEMMA DeliversIs ==
  ASSUME Instance, IInv, NEW w \in Workers, NEW m \in Messages, m = worker[w].on, Delivers(w)
  PROVE  Moves(w, m) /\ EndsWritten(w, m)
<1>1. Sends(w, m) /\ \A k \in Messages : k # m => copies'[k] = copies[k]
  BY SendsIs DEF Delivers
<1>2. PICK d : d = Accepted(delivery[m])
  OBVIOUS
<1>3. /\ d \in DeliveryRows /\ d.status = "sent" /\ d.token = 0
      /\ d.dispatch = "recorded" /\ d.attempt = delivery[m].attempt
  BY <1>2, AcceptedRow, Typed
<1>4. delivery' = [delivery EXCEPT ![m] = d] /\ Turn(w, Idle)
  BY <1>2 DEF Delivers, Write
<1>5. delivery'[m] = d /\ \A k \in Messages : k # m => delivery'[k] = delivery[k]
  BY <1>3, <1>4, RowSet, Typed
<1> QED BY <1>1, <1>3, <1>4, <1>5, IdleSet DEF Moves, EndsWritten, Works

LEMMA FindsRecordedIs ==
  ASSUME Instance, IInv, NEW w \in Workers, NEW m \in Messages, m = worker[w].on,
         FindsRecorded(w)
  PROVE  Moves(w, m) /\ EndsWritten(w, m)
<1>1. /\ delivery[m].record # "none" /\ delivery[m].record \in Reported
      /\ Tells(delivery[m], copies[m])
  BY RecordKnown DEF IInv, Telling, Tells, FindsRecorded
<1>2. PICK d : d = MappedWith(delivery[m], 0)
  OBVIOUS
<1>3. /\ d \in DeliveryRows /\ d.token = 0 /\ d.attempt = delivery[m].attempt
      /\ d.status \in {"sent", "delivered", "failed_terminal", "suppressed"}
      /\ d.dispatch = delivery[m].dispatch
  BY <1>1, <1>2, MappedRow, Typed
<1>4. /\ delivery' = [delivery EXCEPT ![m] = d] /\ UNCHANGED copies
      /\ Turn(w, Idle) /\ worker[w].at = "claimed"
  BY <1>2 DEF FindsRecorded, Write
<1>5. delivery'[m] = d /\ \A k \in Messages : k # m => delivery'[k] = delivery[k]
  BY <1>3, <1>4, RowSet, Typed
<1> QED BY <1>1, <1>3, <1>4, <1>5, IdleSet DEF Moves, EndsWritten, Works

LEMMA PutsBackIs ==
  ASSUME Instance, IInv, NEW w \in Workers, NEW m \in Messages, m = worker[w].on, PutsBack(w)
  PROVE  Moves(w, m) /\ EndsWritten(w, m)
<1>1. PICK d : d = DeferredDelivery(delivery[m])
  OBVIOUS
<1>2. /\ d \in DeliveryRows /\ d.token = 0 /\ d.attempt = delivery[m].attempt
      /\ d.record = delivery[m].record
      /\ d.status = IF revision = "paused" THEN "queued" ELSE "cancelled"
      /\ revision # "paused" /\ delivery[m].dispatch \notin {"none", "pending"} =>
           d.dispatch \notin {"none", "pending"}
  BY <1>1, PutBackRow, Typed DEF IInv, Telling
<1>3. /\ delivery' = [delivery EXCEPT ![m] = d] /\ UNCHANGED copies
      /\ Turn(w, Idle) /\ worker[w].at \in {"prepared", "marked"}
  BY <1>1 DEF PutsBack
<1>4. delivery'[m] = d /\ \A k \in Messages : k # m => delivery'[k] = delivery[k]
  BY <1>2, <1>3, RowSet, Typed
<1> QED BY <1>2, <1>3, <1>4, IdleSet DEF Moves, EndsWritten, Works

LEMMA PreparesIs ==
  ASSUME Instance, IInv, NEW w \in Workers, NEW m \in Messages, m = worker[w].on, Prepares(w)
  PROVE  Moves(w, m) /\ GoesOn(w, m)
<1>1. PICK d : d = [delivery[m] EXCEPT !.dispatch = "pending"]
  OBVIOUS
<1>2. PICK x : x = [worker[w] EXCEPT !.at = "prepared"]
  OBVIOUS
<1>3. /\ d \in DeliveryRows /\ d.status = delivery[m].status /\ d.stale = delivery[m].stale
      /\ d.attempt = delivery[m].attempt /\ d.token = delivery[m].token
      /\ d.record = delivery[m].record
  BY <1>1, Typed DEF DeliveryRows
<1>4. x \in WorkerRows /\ x.at = "prepared" /\ x.on = m
  BY <1>2, Typed DEF WorkerRows
<1>5. delivery' = [delivery EXCEPT ![m] = d] /\ Turn(w, x) /\ UNCHANGED copies
  BY <1>1, <1>2 DEF Prepares
<1>6. delivery'[m] = d /\ \A k \in Messages : k # m => delivery'[k] = delivery[k]
  BY <1>3, <1>5, RowSet, Typed
<1>7. worker'[w] = x /\ \A u \in Workers : u # w => worker'[u] = worker[u]
  BY <1>4, <1>5, TurnSet, Typed
<1> QED BY <1>3, <1>4, <1>5, <1>6, <1>7 DEF Moves, GoesOn, Works, Prepares

LEMMA MarksIs ==
  ASSUME Instance, IInv, NEW w \in Workers, NEW m \in Messages, m = worker[w].on, Marks(w)
  PROVE  Moves(w, m) /\ GoesOn(w, m)
<1>1. PICK d : d = [delivery[m] EXCEPT !.status = "delivery_unknown",
                                       !.dispatch = "delivery_unknown"]
  OBVIOUS
<1>2. PICK x : x = [worker[w] EXCEPT !.at = "marked", !.token = delivery[m].token]
  OBVIOUS
<1>3. /\ d \in DeliveryRows /\ d.status = "delivery_unknown" /\ d.dispatch = "delivery_unknown"
      /\ d.attempt = delivery[m].attempt /\ d.token = delivery[m].token
      /\ d.record = delivery[m].record /\ d.stale = delivery[m].stale
  BY <1>1, Typed DEF DeliveryRows, TerminalStatuses, Failures
<1>4. delivery[m].token \in Nat
  BY Typed DEF DeliveryRows
<1>5. x \in WorkerRows /\ x.at = "marked" /\ x.on = m /\ x.token = delivery[m].token
  BY <1>2, <1>4, Typed DEF WorkerRows
<1>6. delivery' = [delivery EXCEPT ![m] = d] /\ Turn(w, x) /\ UNCHANGED copies
  BY <1>1, <1>2 DEF Marks, MarkUncertain
<1>7. delivery'[m] = d /\ \A k \in Messages : k # m => delivery'[k] = delivery[k]
  BY <1>3, <1>6, RowSet, Typed
<1>8. worker'[w] = x /\ \A u \in Workers : u # w => worker'[u] = worker[u]
  BY <1>5, <1>6, TurnSet, Typed
<1> QED BY <1>3, <1>5, <1>6, <1>7, <1>8 DEF Moves, GoesOn, Works, Marks

LEMMA Outcomes ==
  ASSUME Instance, IInv, NEW w \in Workers, worker[w].at # "idle", AfterClaim(w)
  PROVE  \E m \in Messages :
           Moves(w, m) /\ (FailsNext(w, m) \/ EndsBare(w, m) \/ EndsWritten(w, m) \/ GoesOn(w, m))
<1>1. PICK m \in Messages : m = worker[w].on
  BY AtWork
<1> QED BY <1>1, RefusedIs, LetsGoIs, GivesUpIs, DeliversIs, FindsRecordedIs, PutsBackIs,
           PreparesIs, MarksIs DEF AfterClaim

(* The claim: a new number, for a message no one else may take.            *)
Claims(w, m) ==
  /\ worker[w].on = NoDelivery /\ worker'[w].at = "claimed" /\ worker'[w].on = m
  /\ \A v \in Workers : v # w => worker'[v] = worker[v]
  /\ \A k \in Messages : k # m => delivery'[k] = delivery[k]
  /\ delivery[m].status = "queued" \/ (delivery[m].status = "claimed" /\ delivery[m].stale)
  /\ delivery'[m].status = "claimed" /\ delivery'[m].stale = FALSE
  /\ delivery'[m].attempt = delivery[m].attempt + 1
  /\ delivery'[m].token = delivery'[m].attempt /\ delivery'[m].record = delivery[m].record
  /\ delivery'[m].dispatch = delivery[m].dispatch /\ UNCHANGED copies

LEMMA ClaimIs ==
  ASSUME Instance, IInv, NEW w \in Workers, NEW m \in Messages, ClaimDelivery(w, m)
  PROVE  Claims(w, m)
<1>1. PICK n \in Nat : n = delivery[m].attempt + 1
  BY Typed DEF DeliveryRows
<1>2. PICK d : d = [delivery[m] EXCEPT !.status = "claimed", !.attempt = n, !.token = n,
                                       !.stale = FALSE]
  OBVIOUS
<1>3. PICK x : x = [Idle EXCEPT !.at = "claimed", !.on = m]
  OBVIOUS
<1>4. /\ d \in DeliveryRows /\ d.status = "claimed" /\ d.attempt = n /\ d.token = n
      /\ d.stale = FALSE /\ d.record = delivery[m].record /\ d.dispatch = delivery[m].dispatch
  BY <1>2, Typed DEF DeliveryRows, Unsent
<1>5. x \in WorkerRows /\ x.at = "claimed" /\ x.on = m
  BY <1>3 DEF Idle, WorkerRows, Failures
<1>6. /\ delivery' = [delivery EXCEPT ![m] = d] /\ Turn(w, x) /\ UNCHANGED copies
      /\ Claimable(m) /\ worker[w].at = "idle"
  BY <1>1, <1>2, <1>3 DEF ClaimDelivery, Turn
<1>7. delivery'[m] = d /\ \A k \in Messages : k # m => delivery'[k] = delivery[k]
  BY <1>4, <1>6, RowSet, Typed
<1>8. worker'[w] = x /\ \A u \in Workers : u # w => worker'[u] = worker[u]
  BY <1>5, <1>6, TurnSet, Typed
<1> QED BY <1>1, <1>4, <1>5, <1>6, <1>7, <1>8 DEF Claims, Claimable, IInv, OnTurn

(* What time, the provider and the buyer change: one row.                  *)
Touches(m) ==
  /\ UNCHANGED <<worker, copies>> /\ Touched(m, delivery'[m])
  /\ \A k \in Messages : k # m => delivery'[k] = delivery[k]

LEMMA TouchesIs ==
  ASSUME IInv, NEW m \in Messages,
         ClaimExpires(m) \/ ProviderReports(m) \/ Reconcile(m) \/ Reply(m)
  PROVE  Touches(m)
<1>1. PICK d \in DeliveryRows : delivery' = [delivery EXCEPT ![m] = d] /\ Touched(m, d)
  BY ClaimExpiresIs, ProviderReportsIs, ReconcileIs, ReplyIs DEF Write
<1>2. delivery'[m] = d /\ \A k \in Messages : k # m => delivery'[k] = delivery[k]
  BY <1>1, RowSet, Typed
<1>3. UNCHANGED <<worker, copies>>
  BY DEF ClaimExpires, ProviderReports, Reconcile, Reply
<1> QED BY <1>1, <1>2, <1>3 DEF Touches

-----------------------------------------------------------------------------
(* While leases outlast turns, what was recorded stays shown. *)

(* The part of InHand about one worker and its message, and what a worker  *)
(* that leaves a message leaves behind.                                    *)
Holds(w, m) ==
  /\ delivery[m].record = "none" /\ ~(delivery[m].status = "claimed" /\ delivery[m].stale)
  /\ delivery[m].status \in {"claimed", "delivery_unknown", "cancelled"}
  /\ \A v \in Workers : Works(v, m) => v = w

ShownRow(d) == d.record # "none" => d.status \in Shown

LEMMA InHandIs ==
  /\ InHand <=> \A w \in Workers, m \in Messages : Works(w, m) => Holds(w, m)
  /\ ShownRows <=> \A m \in Messages : ShownRow(delivery[m])
  BY DEF InHand, Holds, ShownRows, ShownRow, Shown

LEMMA ClaimKeepsRecord ==
  ASSUME Instance, RecordInv, NEW w \in Workers, NEW m \in Messages, Claims(w, m)
  PROVE  InHand' /\ ShownRows'
<1>1. \A v \in Workers : ~Works(v, m)
  BY DEF RecordInv, InHand, Claims
<1>2. delivery[m].record = "none"
  BY DEF RecordInv, ShownRows, Shown, Claims
<1>3. \A k \in Messages : ShownRow(delivery'[k])
  BY <1>2, InHandIs DEF RecordInv, Claims, ShownRow
<1>4. ASSUME NEW v \in Workers, NEW k \in Messages, Works(v, k)'
      PROVE  Holds(v, k)'
  <2>1. CASE k = m
    BY <1>1, <1>2, <1>4, <2>1 DEF Claims, Works, Holds
  <2>2. CASE k # m
    BY <1>4, <2>2 DEF Claims, Works, Holds, RecordInv, InHand
  <2> QED BY <2>1, <2>2
<1> QED BY <1>3, <1>4 DEF InHand, Holds, ShownRows, ShownRow, Shown

LEMMA TurnKeepsRecord ==
  ASSUME Instance, RecordInv, NEW w \in Workers, NEW m \in Messages, Moves(w, m),
         FailsNext(w, m) \/ EndsBare(w, m) \/ EndsWritten(w, m) \/ GoesOn(w, m)
  PROVE  InHand' /\ ShownRows'
<1>1. Holds(w, m)
  BY InHandIs DEF RecordInv, Moves
<1>2. ShownRow(delivery'[m])
  BY <1>1 DEF FailsNext, EndsBare, EndsWritten, GoesOn, ShownRow, Shown, Holds
<1>3. \A k \in Messages : ShownRow(delivery'[k])
  BY <1>2, InHandIs DEF RecordInv, Moves
<1>4. \/ worker'[w].on = NoDelivery
      \/ /\ worker'[w].on = m /\ delivery'[m].record = "none"
         /\ ~(delivery'[m].status = "claimed" /\ delivery'[m].stale)
         /\ delivery'[m].status \in {"claimed", "delivery_unknown", "cancelled"}
  BY <1>1 DEF FailsNext, EndsBare, EndsWritten, GoesOn, Holds, Idle
<1>5. ASSUME NEW v \in Workers, NEW k \in Messages, Works(v, k)'
      PROVE  Holds(v, k)'
  <2>1. CASE k = m
    BY <1>1, <1>4, <1>5, <2>1 DEF Moves, Works, Holds, Instance
  <2>2. CASE k # m
    BY <1>4, <1>5, <2>2 DEF Moves, Works, Holds, RecordInv, InHand, Instance
  <2> QED BY <2>1, <2>2
<1> QED BY <1>3, <1>5 DEF InHand, Holds, ShownRows, ShownRow, Shown

LEMMA RowKeepsRecord ==
  ASSUME Instance, RecordInv, NEW m \in Messages, Touches(m),
         ~(\E w \in Workers : Works(w, m))
  PROVE  InHand' /\ ShownRows'
<1>1. \A k \in Messages : ShownRow(delivery'[k])
  BY InHandIs DEF RecordInv, Touches, Touched, ShownRow, Shown
<1>2. ASSUME NEW v \in Workers, NEW k \in Messages, Works(v, k)'
      PROVE  Holds(v, k)'
  BY <1>2 DEF Touches, Works, Holds, RecordInv, InHand
<1> QED BY <1>1, <1>2 DEF InHand, Holds, ShownRows, ShownRow, Shown

LEMMA RowStepLeaves ==
  ASSUME Instance, RecordInv, faults' = 0, NEW m \in Messages,
         ClaimExpires(m) \/ ProviderReports(m) \/ Reconcile(m) \/ Reply(m)
  PROVE  ~(\E w \in Workers : Works(w, m))
<1>1. faults' # faults + 1
  BY Counters DEF RecordInv, Instance
<1>2. CASE ClaimExpires(m)
  BY <1>1, <1>2 DEF ClaimExpires, Works
<1>3. CASE ProviderReports(m)
  BY <1>3 DEF ProviderReports, RecordInv, InHand
<1>4. CASE Reconcile(m) \/ Reply(m)
  BY <1>4 DEF Reconcile, Reply, RecordInv, InHand
<1> QED BY <1>2, <1>3, <1>4

LEMMA OperatorKeepsRecord ==
  ASSUME Instance, RecordInv, Operator
  PROVE  InHand' /\ ShownRows'
<1>1. UNCHANGED worker /\ \A m \in Messages : Commanded(m, delivery'[m])
  BY OperatorIs DEF CommandedRows, RecordInv
<1>2. ASSUME NEW m \in Messages
      PROVE  ShownRow(delivery'[m])
  <2>1. ShownRow(delivery[m])
    BY InHandIs DEF RecordInv
  <2> QED BY <1>1, <2>1 DEF Commanded, ShownRow, Shown, Unsent
<1>3. ASSUME NEW v \in Workers, NEW k \in Messages, Works(v, k)'
      PROVE  Holds(v, k)'
  <2>1. Works(v, k) /\ Holds(v, k)
    BY <1>1, <1>3, InHandIs DEF RecordInv, Works
  <2>2. Commanded(k, delivery'[k])
    BY <1>1
  <2> QED BY <1>1, <2>1, <2>2 DEF Commanded, Holds, Works, Unsent
<1> QED BY <1>2, <1>3 DEF InHand, Holds, ShownRows, ShownRow, Shown

LEMMA RecordInvSteps ==
  ASSUME Instance, faults' = 0, RecordInv, [OutreachNext]_outreachVars
  PROVE  RecordInv'
<1>1. IInv /\ IInv'
  BY InvariantSteps DEF RecordInv
<1>2. CASE UNCHANGED outreachVars
  BY <1>1, <1>2 DEF RecordInv, InHand, Works, ShownRows, outreachVars
<1>3. CASE \E w \in Workers, m \in Messages : ClaimDelivery(w, m)
  BY <1>1, <1>3, ClaimIs, ClaimKeepsRecord DEF RecordInv
<1>4. CASE \E w \in Workers : worker[w].at # "idle" /\ AfterClaim(w)
  BY <1>1, <1>4, Outcomes, TurnKeepsRecord DEF RecordInv
<1>5. CASE \E m \in Messages :
             ClaimExpires(m) \/ ProviderReports(m) \/ Reconcile(m) \/ Reply(m)
  BY <1>1, <1>5, TouchesIs, RowStepLeaves, RowKeepsRecord DEF RecordInv
<1>6. CASE Operator
  BY <1>1, <1>6, OperatorKeepsRecord DEF RecordInv
<1> QED BY <1>1, <1>2, <1>3, <1>4, <1>5, <1>6, NextIs

(* Faults are never forgotten. *)
LEMMA FaultsRemain ==
  ASSUME Instance, IInv, [OutreachNext]_outreachVars, faults' = 0
  PROVE  faults = 0
<1>1. faults \in Nat
  BY Counters DEF Instance
<1>2. SUFFICES UNCHANGED faults \/ faults' = faults + 1
  BY <1>1
<1>3. CASE UNCHANGED outreachVars
  BY <1>3 DEF outreachVars
<1>4. CASE OutreachNext
  BY <1>4 DEF OutreachNext, Turns, ClaimDelivery, Prepare, SendEmail, MarkText, SendText,
              FailDelivery, Trouble, Crash, ClaimExpires, ProviderReports, Reconcile, Reply,
              Operator, Approve, Redraft, Release, Pause, Resume, CancelUnsent, RetryFailed, Command
<1> QED BY <1>3, <1>4

(* A delivery shown as sent, delivered or answered was taken on by the     *)
(* provider, and a completed revision hides no message that is still to be *)
(* sent or that failed, whatever workers, operators and faults do; and     *)
(* until the first worker dies or overruns its lease, a claim belongs to   *)
(* one worker, so that what the provider's acceptance was recorded for is  *)
(* never shown as unsent, excluded or in doubt again.                      *)
THEOREM ShownAreTrue == ASSUME Instance PROVE OutreachSpec => []ShownIsTrue
<1>1. OutreachInit => IInv /\ (faults = 0 => RecordInv)
  BY InvariantStarts DEF OutreachInit, RecordInv, InHand, ShownRows, Works, Idle, Instance
<1>2. /\ IInv /\ (faults = 0 => RecordInv)
      /\ [OutreachNext]_outreachVars
      => (IInv /\ (faults = 0 => RecordInv))'
  BY InvariantSteps, RecordInvSteps, FaultsRemain
<1>3. ASSUME IInv, faults = 0 => RecordInv PROVE ShownIsTrue
  <2>1. DOMAIN delivery = Messages
    BY <1>3, Typed
  <2>2. \A m \in Messages : delivery[m].status \in {"sent", "delivered", "replied"} => copies[m] > 0
    BY <1>3 DEF IInv, Telling, Tells
  <2>3. faults = 0 => RecordedIsShown
    BY <1>3, <2>1 DEF RecordInv, ShownRows, Shown, RecordedIsShown
  <2> QED BY <1>3, <2>1, <2>2, <2>3 DEF IInv, Completed, Succeeded, ShownIsTrue
<1> QED BY <1>1, <1>2, <1>3, PTL DEF OutreachSpec

-----------------------------------------------------------------------------
(* A text leaves once. *)

(* A step that makes no mark and takes no claim on this row.               *)
RowCalm(k) ==
  /\ delivery'[k].attempt = delivery[k].attempt
  /\ delivery'[k].status = "claimed" => delivery[k].status = "claimed"
  /\ delivery[k].dispatch \notin {"none", "pending"} =>
       delivery'[k].dispatch \notin {"none", "pending"}
  /\ delivery'[k].status = "delivery_unknown" /\ delivery'[k].token # 0 =>
       delivery[k].status = "delivery_unknown" /\ delivery'[k].token = delivery[k].token

MarksCalm(k) ==
  \A w \in Workers : Marking(w, k)' => Marking(w, k) /\ worker'[w].token = worker[w].token

Preparing(w, m) == Works(w, m) /\ worker[w].at = "prepared"

(* A worker that prepared the message before still meets a row out of play *)
(* and no one new beside it.                                               *)
PreparedCalm(k) ==
  \A w \in Workers : Preparing(w, k)' =>
    /\ Preparing(w, k) /\ delivery'[k].status \notin Unsent
    /\ \A v \in Workers : v # w /\ Works(v, k)' => Works(v, k) /\ worker'[v] = worker[v]

NumberedRow(d) ==
  d.token <= d.attempt /\ (d.status = "claimed" => d.token = d.attempt /\ d.attempt > 0)

LEMMA Rows ==
  ASSUME IInv, NEW m \in Messages
  PROVE  delivery[m].attempt \in Nat /\ delivery[m].token \in Nat /\ copies[m] \in Nat
  BY Typed DEF DeliveryRows

LEMMA MarkedKept ==
  ASSUME TextInv, \A k \in Messages : RowCalm(k) /\ MarksCalm(k)
  PROVE  Marked'
<1>1. ASSUME NEW w \in Workers, NEW m \in Messages, Marking(w, m)'
      PROVE  /\ m \in Texts /\ worker'[w].token \in 1..delivery'[m].attempt
             /\ delivery'[m].status = "claimed" => worker'[w].token < delivery'[m].attempt
             /\ Armed(w, m)' => delivery'[m].dispatch \notin {"none", "pending"}
             /\ \A v \in Workers : v # w /\ Marking(v, m)' => worker'[v].token # worker'[w].token
  <2>1. RowCalm(m) /\ Marking(w, m) /\ worker'[w].token = worker[w].token
    BY <1>1 DEF MarksCalm
  <2>2. /\ m \in Texts /\ worker[w].token \in 1..delivery[m].attempt
        /\ delivery[m].status = "claimed" => worker[w].token < delivery[m].attempt
        /\ Armed(w, m) => delivery[m].dispatch \notin {"none", "pending"}
        /\ \A v \in Workers : v # w /\ Marking(v, m) => worker[v].token # worker[w].token
    BY <2>1 DEF TextInv, Marked
  <2>3. Armed(w, m)' => Armed(w, m)
    <3>1. worker[w].token # 0
      BY <2>2, Rows DEF TextInv
    <3> QED BY <2>1, <3>1 DEF Armed, RowCalm
  <2>4. ASSUME NEW v \in Workers, v # w, Marking(v, m)'
        PROVE  worker'[v].token # worker'[w].token
    BY <2>1, <2>2, <2>4 DEF MarksCalm
  <2> QED BY <2>1, <2>2, <2>3, <2>4 DEF RowCalm
<1> QED BY <1>1 DEF Marked

LEMMA SpentKept ==
  ASSUME TextInv, NEW k \in Texts, Spent(k), RowCalm(k), MarksCalm(k), PreparedCalm(k)
  PROVE  Spent(k)'
<1>1. delivery'[k].dispatch \notin {"none", "pending"}
  BY DEF Spent, RowCalm
<1>2. ASSUME NEW w \in Workers
      PROVE  ~Armed(w, k)'
  <2>1. SUFFICES ASSUME Armed(w, k)' PROVE FALSE
    OBVIOUS
  <2>2. Marking(w, k) /\ worker'[w].token = worker[w].token
    BY <2>1 DEF Armed, MarksCalm
  <2>3. worker[w].token # 0
    BY <2>2, Rows DEF TextInv, Marked, Messages
  <2>4. Armed(w, k)
    BY <2>1, <2>2, <2>3 DEF Armed, RowCalm
  <2> QED BY <2>4 DEF Spent
<1>3. ASSUME NEW w \in Workers, (Works(w, k) /\ worker[w].at = "prepared")'
      PROVE  /\ delivery'[k].status \notin Unsent
             /\ \A v \in Workers : v # w /\ Works(v, k)' =>
                  worker'[v].at = "failing" /\ worker'[v].verdict # "failed_retryable"
  <2>1. /\ Preparing(w, k) /\ delivery'[k].status \notin Unsent
        /\ \A v \in Workers : v # w /\ Works(v, k)' => Works(v, k) /\ worker'[v] = worker[v]
    BY <1>3 DEF PreparedCalm, Preparing
  <2>2. \A v \in Workers : v # w /\ Works(v, k) =>
          worker[v].at = "failing" /\ worker[v].verdict # "failed_retryable"
    BY <2>1 DEF Preparing, Spent
  <2> QED BY <2>1, <2>2
<1> QED BY <1>1, <1>2, <1>3 DEF Spent

(* Two workers at most, as a deploy overlaps them.                         *)
Pair == \A a, b, c \in Workers : a = b \/ b = c \/ a = c

TextParts == Numbered /\ Marked /\ SpentTexts /\ TextSentOnce

LEMMA ClaimKeepsTexts ==
  ASSUME Instance, TextInv, NEW w \in Workers, NEW m \in Messages, Claims(w, m)
  PROVE  TextParts'
<1>1. /\ delivery[m].attempt \in Nat /\ delivery[m].token \in Nat
      /\ delivery'[m].attempt = delivery[m].attempt + 1
  BY Rows DEF TextInv, Claims
<1>2. Numbered'
  BY <1>1 DEF Claims, TextInv, Numbered
<1>3. ASSUME NEW v \in Workers, NEW k \in Messages, Marking(v, k)'
      PROVE  Marking(v, k) /\ v # w /\ worker'[v] = worker[v]
  BY <1>3 DEF Claims, Marking, Works
<1>4. ASSUME NEW v \in Workers, NEW k \in Messages, Marking(v, k)'
      PROVE  /\ k \in Texts /\ worker'[v].token \in 1..delivery'[k].attempt
             /\ delivery'[k].status = "claimed" => worker'[v].token < delivery'[k].attempt
             /\ Armed(v, k)' => delivery'[k].dispatch \notin {"none", "pending"}
             /\ \A u \in Workers : u # v /\ Marking(u, k)' => worker'[u].token # worker'[v].token
  <2>1. /\ k \in Texts /\ worker[v].token \in 1..delivery[k].attempt
        /\ delivery[k].status = "claimed" => worker[v].token < delivery[k].attempt
        /\ Armed(v, k) => delivery[k].dispatch \notin {"none", "pending"}
        /\ \A u \in Workers : u # v /\ Marking(u, k) => worker[u].token # worker[v].token
    BY <1>3, <1>4 DEF TextInv, Marked
  <2>2. \A u \in Workers : u # v /\ Marking(u, k)' => worker'[u].token # worker'[v].token
    BY <1>3, <1>4, <2>1
  <2>3. CASE k = m
    <3>1. ~Armed(v, k)'
      BY <2>3 DEF Claims, Armed
    <3>2. worker'[v].token = worker[v].token
      BY <1>3, <1>4
    <3> QED BY <1>1, <2>1, <2>2, <2>3, <3>1, <3>2
  <2>4. CASE k # m
    <3>1. delivery'[k] = delivery[k] /\ worker'[v] = worker[v] /\ Marking(v, k)
      BY <1>3, <1>4, <2>4 DEF Claims
    <3>2. Armed(v, k)' => Armed(v, k)
      BY <3>1 DEF Armed
    <3> QED BY <2>1, <2>2, <3>1, <3>2
  <2> QED BY <2>3, <2>4
<1>5. Marked'
  BY <1>4 DEF Marked
<1>6. ASSUME NEW k \in Texts, Spent(k)
      PROVE  Spent(k)'
  <2>1. CASE k = m
    <3>1. delivery[m].status \in Unsent
      BY DEF Claims, Unsent
    <3>2. \A v \in Workers : ~Preparing(v, k)
      BY <1>6, <2>1, <3>1 DEF Spent, Preparing
    <3>3. \A v \in Workers : ~Preparing(v, k)'
      BY <3>2 DEF Preparing, Works, Claims
    <3>4. delivery'[k].dispatch \notin {"none", "pending"} /\ \A v \in Workers : ~Armed(v, k)'
      BY <1>6, <2>1 DEF Claims, Spent, Armed
    <3> QED BY <3>3, <3>4 DEF Spent, Preparing
  <2>2. CASE k # m
    <3>1. delivery'[k] = delivery[k]
      BY <2>2 DEF Claims, Messages
    <3>2. RowCalm(k) /\ MarksCalm(k)
      BY <1>3, <3>1 DEF RowCalm, MarksCalm, Messages
    <3>3. \A v \in Workers : Works(v, k)' => v # w /\ Works(v, k) /\ worker'[v] = worker[v]
      BY <2>2 DEF Claims, Works
    <3>4. PreparedCalm(k)
      BY <1>6, <3>1, <3>3 DEF PreparedCalm, Preparing, Spent
    <3> QED BY <1>6, <3>2, <3>4, SpentKept
  <2> QED BY <2>1, <2>2
<1>7. UNCHANGED copies
  BY DEF Claims
<1> QED BY <1>2, <1>5, <1>6, <1>7 DEF TextParts, TextInv, SpentTexts, TextSentOnce

(* What a step does that writes rows and leaves the workers alone.         *)
LEMMA RowsKeepTexts ==
  ASSUME TextInv, UNCHANGED <<worker, copies>>,
         \A k \in Messages :
           /\ RowCalm(k) /\ NumberedRow(delivery'[k])
           /\ delivery[k].status \notin Unsent => delivery'[k].status \notin Unsent
  PROVE  TextParts'
<1>1. \A k \in Messages : MarksCalm(k)
  BY DEF MarksCalm, Marking, Works
<1>2. Marked'
  BY <1>1, MarkedKept
<1>3. ASSUME NEW k \in Texts, Spent(k)
      PROVE  Spent(k)'
  <2>1. PreparedCalm(k)
    BY <1>3 DEF PreparedCalm, Preparing, Works, Spent, Messages
  <2> QED BY <1>1, <1>3, <2>1, SpentKept DEF Messages
<1>4. Numbered'
  BY DEF Numbered, NumberedRow
<1> QED BY <1>2, <1>3, <1>4 DEF TextParts, TextInv, SpentTexts, TextSentOnce

LEMMA TouchKeepsTexts ==
  ASSUME TextInv, NEW m \in Messages, Touches(m)
  PROVE  TextParts'
<1>1. ASSUME NEW k \in Messages
      PROVE  /\ RowCalm(k) /\ NumberedRow(delivery'[k])
             /\ delivery[k].status \notin Unsent => delivery'[k].status \notin Unsent
  BY DEF Touches, Touched, RowCalm, NumberedRow, TextInv, Numbered, Unsent
<1> QED BY <1>1, RowsKeepTexts DEF Touches

LEMMA OperatorKeepsTexts ==
  ASSUME Instance, TextInv, Operator
  PROVE  TextParts'
<1>1. UNCHANGED <<worker, copies>> /\ \A m \in Messages : Commanded(m, delivery'[m])
  BY OperatorIs DEF CommandedRows, TextInv
<1>2. ASSUME NEW k \in Messages
      PROVE  /\ RowCalm(k) /\ NumberedRow(delivery'[k])
             /\ delivery[k].status \notin Unsent => delivery'[k].status \notin Unsent
  <2>1. NumberedRow(delivery[k]) /\ Commanded(k, delivery'[k])
    BY <1>1 DEF TextInv, Numbered, NumberedRow
  <2> QED BY <2>1, Rows DEF Commanded, RowCalm, NumberedRow, TextInv
<1> QED BY <1>1, <1>2, RowsKeepTexts

(* The worker's own row is calm unless it marks it.                        *)
LEMMA TurnCalm ==
  ASSUME Instance, TextInv, NEW w \in Workers, NEW m \in Messages, Moves(w, m),
         \/ FailsNext(w, m) \/ EndsBare(w, m) \/ EndsWritten(w, m)
         \/ GoesOn(w, m) /\ worker'[w].at = "prepared"
  PROVE  \A k \in Messages : RowCalm(k) /\ MarksCalm(k)
<1>1. ASSUME NEW k \in Messages
      PROVE  RowCalm(k)
  BY DEF Moves, FailsNext, EndsBare, EndsWritten, GoesOn, RowCalm, Failures, TextInv
<1>2. worker'[w].at # "marked"
  BY DEF FailsNext, EndsBare, EndsWritten, GoesOn, Idle
<1>3. ASSUME NEW k \in Messages
      PROVE  MarksCalm(k)
  BY <1>2 DEF Moves, MarksCalm, Marking, Works
<1> QED BY <1>1, <1>3

LEMMA MarkKeepsMarked ==
  ASSUME Instance, TextInv, NEW w \in Workers, NEW m \in Messages, Moves(w, m),
         GoesOn(w, m), worker'[w].at = "marked"
  PROVE  Marked'
<1>1. /\ delivery[m].status = "claimed" /\ m \in Texts
      /\ delivery'[m].attempt = delivery[m].attempt
      /\ worker'[w].token = delivery[m].attempt /\ delivery[m].attempt > 0
      /\ delivery'[m].status = "delivery_unknown" /\ delivery'[m].dispatch = "delivery_unknown"
      /\ worker[w].at = "prepared" /\ worker'[w].on = m
  BY DEF GoesOn, TextInv, Numbered
<1>2. ASSUME NEW v \in Workers, NEW k \in Messages, v # w, Marking(v, k)'
      PROVE  /\ Marking(v, k) /\ worker'[v] = worker[v]
             /\ k \in Texts /\ worker[v].token \in 1..delivery[k].attempt
             /\ delivery[k].status = "claimed" => worker[v].token < delivery[k].attempt
             /\ Armed(v, k) => delivery[k].dispatch \notin {"none", "pending"}
             /\ \A u \in Workers : u # v /\ Marking(u, k) => worker[u].token # worker[v].token
  BY <1>2 DEF Moves, Marking, Works, TextInv, Marked
<1>3. ASSUME NEW k \in Messages, Marking(w, k)'
      PROVE  k = m
  BY <1>1, <1>3 DEF Marking, Works
<1>4. ASSUME NEW v \in Workers, v # w, Marking(v, m)'
      PROVE  worker'[v].token # worker'[w].token
  <2>1. worker[v].token \in 1..delivery[m].attempt /\ worker[v].token < delivery[m].attempt
    BY <1>1, <1>2, <1>4
  <2>2. worker'[v].token = worker[v].token
    BY <1>2, <1>4
  <2> QED BY <1>1, <2>1, <2>2, Rows DEF TextInv
<1>5. ASSUME NEW v \in Workers, NEW k \in Messages, Marking(v, k)'
      PROVE  /\ k \in Texts /\ worker'[v].token \in 1..delivery'[k].attempt
             /\ delivery'[k].status = "claimed" => worker'[v].token < delivery'[k].attempt
             /\ Armed(v, k)' => delivery'[k].dispatch \notin {"none", "pending"}
             /\ \A u \in Workers : u # v /\ Marking(u, k)' => worker'[u].token # worker'[v].token
  <2>1. CASE v = w
    <3>1. k = m
      BY <1>3, <1>5, <2>1
    <3>2. \A u \in Workers : u # v /\ Marking(u, k)' => worker'[u].token # worker'[v].token
      BY <1>4, <2>1, <3>1
    <3>3. worker'[w].token \in 1..delivery'[m].attempt
      BY <1>1, Rows DEF TextInv
    <3> QED BY <1>1, <2>1, <3>1, <3>2, <3>3
  <2>2. CASE v # w /\ k = m
    <3>1. \A u \in Workers : u # v /\ Marking(u, k)' => worker'[u].token # worker'[v].token
      <4>1. ASSUME NEW u \in Workers, u # v, Marking(u, k)'
            PROVE  worker'[u].token # worker'[v].token
        <5>1. CASE u = w
          BY <1>4, <1>5, <2>2, <5>1
        <5>2. CASE u # w
          BY <1>2, <1>5, <2>2, <4>1, <5>2
        <5> QED BY <5>1, <5>2
      <4> QED BY <4>1
    <3>2. worker'[v] = worker[v] /\ worker[v].token \in 1..delivery[m].attempt
      BY <1>2, <1>5, <2>2
    <3> QED BY <1>1, <2>2, <3>1, <3>2
  <2>3. CASE v # w /\ k # m
    <3>1. delivery'[k] = delivery[k] /\ worker'[v] = worker[v]
      BY <1>2, <1>5, <2>3 DEF Moves
    <3>2. \A u \in Workers : u # v /\ Marking(u, k)' =>
            u # w /\ Marking(u, k) /\ worker'[u] = worker[u]
      BY <1>2, <1>3, <2>3
    <3>3. Armed(v, k)' => Armed(v, k)
      BY <1>2, <1>5, <2>3, <3>1 DEF Armed
    <3> QED BY <1>2, <1>5, <2>3, <3>1, <3>2, <3>3
  <2> QED BY <2>1, <2>2, <2>3
<1> QED BY <1>5 DEF Marked

LEMMA MarkedHolds ==
  ASSUME Instance, TextInv, NEW w \in Workers, NEW m \in Messages, Moves(w, m),
         FailsNext(w, m) \/ EndsBare(w, m) \/ EndsWritten(w, m) \/ GoesOn(w, m)
  PROVE  Marked'
<1>1. CASE GoesOn(w, m) /\ worker'[w].at = "marked"
  BY <1>1, MarkKeepsMarked
<1>2. CASE ~(GoesOn(w, m) /\ worker'[w].at = "marked")
  <2>1. \/ FailsNext(w, m) \/ EndsBare(w, m) \/ EndsWritten(w, m)
        \/ GoesOn(w, m) /\ worker'[w].at = "prepared"
    BY <1>2 DEF GoesOn
  <2> QED BY <2>1, TurnCalm, MarkedKept
<1> QED BY <1>1, <1>2

LEMMA NumberedHolds ==
  ASSUME Instance, TextInv, NEW w \in Workers, NEW m \in Messages, Moves(w, m),
         FailsNext(w, m) \/ EndsBare(w, m) \/ EndsWritten(w, m) \/ GoesOn(w, m)
  PROVE  Numbered'
<1>1. ASSUME NEW k \in Messages
      PROVE  NumberedRow(delivery'[k])
  <2>1. NumberedRow(delivery[k])
    BY DEF TextInv, Numbered, NumberedRow
  <2>2. CASE k # m
    BY <2>1, <2>2 DEF Moves
  <2>3. CASE k = m /\ (FailsNext(w, m) \/ EndsBare(w, m))
    BY <2>1, <2>3 DEF FailsNext, EndsBare
  <2>4. CASE k = m /\ EndsWritten(w, m)
    <3>1. /\ delivery'[k].token = 0 /\ delivery'[k].attempt = delivery[k].attempt
          /\ delivery'[k].status # "claimed"
      BY <2>4 DEF EndsWritten, Failures
    <3> QED BY <3>1, Rows DEF NumberedRow, TextInv
  <2>5. CASE k = m /\ GoesOn(w, m)
    BY <2>1, <2>5 DEF GoesOn, NumberedRow
  <2> QED BY <2>2, <2>3, <2>4, <2>5
<1> QED BY <1>1 DEF Numbered, NumberedRow

(* A text that left stays spent: the one other worker that still has it    *)
(* prepared can only be told to give it up.                                *)
LEMMA SpentHolds ==
  ASSUME Instance, TextInv, NEW w \in Workers, NEW m \in Messages, Moves(w, m),
         FailsNext(w, m) \/ EndsBare(w, m) \/ EndsWritten(w, m) \/ GoesOn(w, m),
         NEW k \in Texts, Spent(k)
  PROVE  Spent(k)' /\ copies'[k] = copies[k]
<1>1. CASE k # m
  <2>1. /\ delivery'[k] = delivery[k] /\ copies'[k] = copies[k]
        /\ k \in Messages
    BY <1>1 DEF Moves, Messages
  <2>2. worker'[w].on \in {m, NoDelivery}
    BY DEF FailsNext, EndsBare, EndsWritten, GoesOn, Idle
  <2>3. \A v \in Workers : Works(v, k)' => Works(v, k) /\ worker'[v] = worker[v]
    BY <1>1, <2>1, <2>2 DEF Moves, Works, Instance
  <2>4. RowCalm(k) /\ MarksCalm(k)
    BY <2>1, <2>3 DEF RowCalm, MarksCalm, Marking
  <2>5. PreparedCalm(k)
    BY <2>1, <2>3 DEF PreparedCalm, Preparing, Spent
  <2> QED BY <2>1, <2>4, <2>5, SpentKept
<1>2. CASE k = m
  <2>1. ~GoesOn(w, m)
    <3>1. ~(worker[w].at = "prepared" /\ delivery[m].status = "claimed")
      BY <1>2 DEF Spent, Moves, Unsent
    <3>2. delivery[m].dispatch \notin {"none", "pending"}
      BY <1>2 DEF Spent
    <3> QED BY <3>1, <3>2 DEF GoesOn
  <2>2. ~Sends(w, m)
    BY <1>2 DEF Sends, CanSend, Spent, Instance
  <2>3. copies'[m] = copies[m]
    BY <2>1, <2>2 DEF FailsNext, EndsBare, EndsWritten
  <2>4. RowCalm(k) /\ MarksCalm(k)
    BY <1>2, <2>1, TurnCalm
  <2>5. ASSUME NEW v \in Workers, Preparing(v, k)'
        PROVE  /\ Preparing(v, k) /\ delivery'[k].status \notin Unsent
               /\ \A u \in Workers : u # v /\ Works(u, k)' => Works(u, k) /\ worker'[u] = worker[u]
    <3>1. v # w
      BY <2>1, <2>5 DEF FailsNext, EndsBare, EndsWritten, Preparing, Idle
    <3>2. Preparing(v, k)
      BY <2>5, <3>1 DEF Moves, Preparing, Works
    <3>3. /\ worker[w].at = "failing" /\ worker[w].verdict # "failed_retryable"
          /\ delivery[k].status \notin Unsent
      BY <1>2, <3>1, <3>2 DEF Spent, Preparing, Moves
    <3>4. ~FailsNext(w, m)
      BY <3>3 DEF FailsNext
    <3>5. worker'[w] = Idle
      BY <2>1, <3>4 DEF EndsBare, EndsWritten
    <3>6. delivery'[k].status \notin Unsent
      BY <1>2, <2>1, <2>2, <3>3, <3>4 DEF EndsBare, EndsWritten, Failures, Unsent
    <3>7. \A u \in Workers : u # v /\ Works(u, k)' => Works(u, k) /\ worker'[u] = worker[u]
      BY <1>2, <3>5 DEF Moves, Works, Idle, Instance
    <3> QED BY <3>2, <3>6, <3>7
  <2>6. PreparedCalm(k)
    BY <2>5 DEF PreparedCalm
  <2> QED BY <1>2, <2>3, <2>4, <2>6, SpentKept
<1> QED BY <1>1, <1>2

(* The submission of a text spends it: with two workers at most, there is  *)
(* no third to fail it while the second still has it prepared.             *)
LEMMA SendingSpends ==
  ASSUME Instance, Pair, TextInv, NEW w \in Workers, NEW m \in Messages, Moves(w, m),
         FailsNext(w, m) \/ EndsBare(w, m) \/ EndsWritten(w, m) \/ GoesOn(w, m),
         m \in Texts, copies'[m] # copies[m]
  PROVE  copies[m] = 0 /\ copies'[m] = 1 /\ Spent(m)'
<1>1. Sends(w, m)
  BY DEF FailsNext, EndsBare, EndsWritten, GoesOn
<1>2. Armed(w, m) /\ copies'[m] = copies[m] + 1
  BY <1>1 DEF Sends, CanSend, Instance
<1>3. copies[m] = 0
  BY <1>2, Rows DEF TextInv, SpentTexts, Spent
<1>4. /\ worker[w].at = "marked" /\ delivery[m].dispatch \notin {"none", "pending"}
      /\ \A v \in Workers : v # w /\ Marking(v, m) => worker[v].token # worker[w].token
  BY <1>2 DEF Armed, Marking, TextInv, Marked
<1>5. /\ worker'[w] = Idle \/ (worker'[w].at = "failing" /\ worker'[w].verdict = "delivery_unknown")
      /\ delivery'[m] = delivery[m] \/ delivery'[m].status = "sent"
      /\ worker'[w] = Idle \/ delivery'[m] = delivery[m]
  BY <1>2, <1>4, Rows DEF FailsNext, EndsBare, EndsWritten, GoesOn, TextInv
<1>6. delivery'[m].dispatch \notin {"none", "pending"}
  <2>1. ~GoesOn(w, m)
    BY <1>4 DEF GoesOn
  <2>2. RowCalm(m)
    BY <2>1, TurnCalm
  <2> QED BY <1>4, <2>2 DEF RowCalm
<1>7. ASSUME NEW v \in Workers
      PROVE  ~Armed(v, m)'
  <2>1. SUFFICES ASSUME Armed(v, m)' PROVE FALSE
    OBVIOUS
  <2>2. v # w
    BY <1>5, <2>1 DEF Armed, Marking, Idle
  <2>3. Marking(v, m) /\ worker'[v] = worker[v]
    BY <2>1, <2>2 DEF Armed, Marking, Works, Moves
  <2>4. delivery'[m] = delivery[m]
    BY <1>5, <2>1 DEF Armed
  <2>5. worker[v].token = worker[w].token
    BY <1>2, <2>1, <2>3, <2>4 DEF Armed
  <2> QED BY <1>4, <2>2, <2>3, <2>5
<1>8. ASSUME NEW v \in Workers, (Works(v, m) /\ worker[v].at = "prepared")'
      PROVE  /\ delivery'[m].status \notin Unsent
             /\ \A u \in Workers : u # v /\ Works(u, m)' =>
                  worker'[u].at = "failing" /\ worker'[u].verdict # "failed_retryable"
  <2>1. v # w
    BY <1>5, <1>8 DEF Idle
  <2>2. \A u \in Workers : u # v => u = w
    BY <2>1 DEF Pair
  <2>3. Works(w, m)' => worker'[w].at = "failing" /\ worker'[w].verdict # "failed_retryable"
    BY <1>5 DEF Works, Idle, Instance
  <2>4. delivery'[m].status \notin Unsent
    BY <1>2, <1>5 DEF Armed, Unsent
  <2> QED BY <2>2, <2>3, <2>4
<1>9. Spent(m)'
  BY <1>6, <1>7, <1>8 DEF Spent
<1> QED BY <1>2, <1>3, <1>9

LEMMA TurnKeepsTexts ==
  ASSUME Instance, Pair, TextInv, NEW w \in Workers, NEW m \in Messages, Moves(w, m),
         FailsNext(w, m) \/ EndsBare(w, m) \/ EndsWritten(w, m) \/ GoesOn(w, m)
  PROVE  TextParts'
<1>1. Numbered' /\ Marked'
  BY NumberedHolds, MarkedHolds
<1>2. ASSUME NEW k \in Texts
      PROVE  (copies'[k] > 0 => Spent(k)') /\ copies'[k] <= 1
  <2>1. CASE copies'[k] = copies[k]
    <3>1. k \in DOMAIN copies
      BY Typed DEF TextInv, Messages
    <3> QED BY <1>2, <2>1, <3>1, SpentHolds DEF TextInv, SpentTexts, TextSentOnce
  <2>2. CASE copies'[k] # copies[k]
    <3>1. k = m
      BY <2>2 DEF Moves, Messages
    <3> QED BY <2>2, <3>1, SendingSpends
  <2> QED BY <2>1, <2>2
<1> QED BY <1>1, <1>2 DEF TextParts, SpentTexts, TextSentOnce

LEMMA NeverPaused ==
  ASSUME Instance, "pause" \notin Controls, TextInv, OutreachNext
  PROVE  revision' # "paused"
<1>1. ASSUME NEW m, NEW d, Write(m, d)
      PROVE  revision' # "paused"
  BY <1>1 DEF Write, Synced, Controlled, TextInv
<1>2. CASE \E w \in Workers, m \in Messages : ClaimDelivery(w, m)
  BY <1>2 DEF ClaimDelivery
<1>3. ASSUME NEW w \in Workers, AfterClaim(w)
      PROVE  revision' # "paused"
  <2>1. CASE GivesUp(w) \/ Delivers(w) \/ FindsRecorded(w)
    BY <1>1, <2>1 DEF GivesUp, Delivers, FindsRecorded
  <2>2. CASE Refused(w) \/ LetsGo(w) \/ PutsBack(w) \/ Prepares(w) \/ Marks(w)
    BY <2>2 DEF Refused, LetsGo, PutsBack, Prepares, Marks, MarkUncertain, TextInv
  <2> QED BY <1>3, <2>1, <2>2 DEF AfterClaim
<1>4. CASE \E m \in Messages :
             ClaimExpires(m) \/ ProviderReports(m) \/ Reconcile(m) \/ Reply(m)
  BY <1>1, <1>4 DEF ClaimExpires, ProviderReports, Reconcile, Reply, TextInv
<1>5. CASE Operator
  BY <1>5, OperatorIs DEF TextInv
<1> QED BY <1>2, <1>3, <1>4, <1>5, NextIs DEF TextInv

LEMMA TextInvSteps ==
  ASSUME Instance, Pair, "pause" \notin Controls, TextInv, [OutreachNext]_outreachVars
  PROVE  TextInv'
<1>1. IInv /\ IInv'
  BY InvariantSteps DEF TextInv
<1>2. CASE UNCHANGED outreachVars
  BY <1>1, <1>2 DEF TextInv, Numbered, Marked, Marking, Armed, Works, SpentTexts, Spent,
                    TextSentOnce, outreachVars
<1>3. CASE OutreachNext
  <2>1. TextParts'
    BY <1>1, <1>3, NextIs, ClaimIs, ClaimKeepsTexts, Outcomes, TurnKeepsTexts, TouchesIs,
       TouchKeepsTexts, OperatorKeepsTexts
  <2> QED BY <1>1, <1>3, <2>1, NeverPaused DEF TextInv, TextParts
<1> QED BY <1>2, <1>3

LEMMA TextInvStarts ==
  ASSUME Instance, OutreachInit
  PROVE  TextInv
<1>1. IInv
  BY InvariantStarts
<1>2. /\ \A w \in Workers : worker[w].at = "idle"
      /\ \A m \in Messages : delivery[m].token = 0 /\ delivery[m].attempt = 0
                             /\ delivery[m].status = "prepared" /\ copies[m] = 0
      /\ revision = "review_required"
  BY DEF OutreachInit, Idle
<1> QED BY <1>1, <1>2 DEF TextInv, Numbered, Marked, Marking, SpentTexts, TextSentOnce, Messages

(* While no one pauses it, a revision sends each text at most once, over   *)
(* crashes, expired claims, retries and the two workers of a deploy.       *)
THEOREM TextsLeaveOnce ==
  ASSUME Instance, Pair, "pause" \notin Controls PROVE OutreachSpec => []TextSentOnce
<1>1. TextInv => TextSentOnce
  BY DEF TextInv
<1> QED BY <1>1, TextInvStarts, TextInvSteps, PTL DEF OutreachSpec
=============================================================================
