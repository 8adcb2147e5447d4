----------------------------- MODULE WorkerLoop -----------------------------
(***************************************************************************)
(* The worker process: one loop that gives every operation a turn, records *)
(* and backs off the ones that fail, and reports its progress in one       *)
(* heartbeat row, which a second thread keeps fresh.  Operations are their *)
(* positions in WORKER_OPERATIONS; time is counted in ticks.               *)
(***************************************************************************)
EXTENDS Naturals

CONSTANTS
  Lanes,        \* number of operations
  Errors,       \* types of exception
  RetryBase,    \* worker_retry_base_seconds
  RetryMax,     \* worker_retry_max_seconds
  StaleAfter,   \* worker_stale_after_seconds
  StallAfter,   \* worker_operation_stall_seconds
  MaxRecorded   \* bound: attempt_count saturates, with the backoff

ASSUME LanesAssumption == Lanes \in Nat \ {0} /\ MaxRecorded \in Nat \ {0}

ASSUME SecondsAssumption ==
  RetryBase \in Nat /\ RetryMax \in Nat /\ StaleAfter \in Nat /\ StallAfter \in Nat

VARIABLES
  loop,      \* where the main loop is and, history, how long it hangs or is down
  failure,   \* the open OperationalFailure rows of each operation
  heartbeat  \* the WorkerHeartbeat row

loopVars == <<loop, failure, heartbeat>>

Operations == 1..Lanes

Down == [at |-> "down", op |-> 1, erred |-> FALSE, busy |-> FALSE, silent |-> 0]

NoFailure == [attempts |-> [x \in Errors |-> 0], wait |-> 0]

LoopInit ==
  /\ loop = Down
  /\ failure = [op \in Operations |-> NoFailure]
  /\ heartbeat = [status |-> "starting", age |-> 0, progress |-> 0, current |-> 0]

To(at) == loop' = [loop EXCEPT !.at = at]

(* main_loop_progress_at and heartbeat_at are now. *)
Progress(current) == [heartbeat EXCEPT !.age = 0, !.progress = 0, !.current = current]

-----------------------------------------------------------------------------
Register ==
  /\ loop.at = "down"
  /\ loop' = [Down EXCEPT !.at = "next"]
  /\ heartbeat' = [Progress(0) EXCEPT !.status = "starting"]
  /\ UNCHANGED failure

MarkStarted ==
  /\ loop.at = "next"
  /\ heartbeat' = Progress(loop.op)
  /\ To("due") /\ UNCHANGED failure

(* operation_retry_due: only the failure that occurred last is looked at.  *)
Due(op) == failure[op].wait = 0

CheckDue ==
  /\ loop.at = "due"
  /\ To(IF Due(loop.op) THEN "running" ELSE "finishing")
  /\ UNCHANGED <<failure, heartbeat>>

(* touch_worker_operation_progress *)
Touch ==
  /\ loop.at = "running" /\ heartbeat.current = loop.op
  /\ heartbeat' = Progress(loop.op)
  /\ UNCHANGED <<loop, failure>>

(* The operation returns: a record it processed, or nothing to do. *)
Return ==
  /\ loop.at = "running"
  /\ \E result \in BOOLEAN :
       loop' = [loop EXCEPT !.at = "resolving", !.busy = @ \/ result]
  /\ UNCHANGED <<failure, heartbeat>>

(* The operation never returns: a provider call without an answer. *)
Hang ==
  /\ loop.at = "running" /\ To("hung")
  /\ UNCHANGED <<failure, heartbeat>>

(* resolve_operation_failures *)
Resolve ==
  /\ loop.at = "resolving"
  /\ failure' = [failure EXCEPT ![loop.op] = NoFailure]
  /\ To("finishing") /\ UNCHANGED heartbeat

(* Any statement of the turn may raise. *)
Raise ==
  /\ loop.at \in {"next", "due", "running", "resolving"}
  /\ loop' = [loop EXCEPT !.at = "failing", !.erred = TRUE]
  /\ UNCHANGED <<failure, heartbeat>>

(* Faulty: the delay is not capped. *)
UncappedDelay(n) == RetryBase * 2 ^ (n - 1)

RetryDelay(n) ==
  LET seconds == RetryBase * 2 ^ (n - 1) IN IF seconds > RetryMax THEN RetryMax ELSE seconds

(* record_operation_failure: failures are grouped by the exception's type. *)
RecordFailure(x) ==
  /\ loop.at = "failing"
  /\ LET n == failure[loop.op].attempts[x]
         attempts == IF n = MaxRecorded THEN n ELSE n + 1
     IN failure' = [failure EXCEPT ![loop.op] =
          [attempts |-> [@.attempts EXCEPT ![x] = attempts], wait |-> RetryDelay(attempts)]]
  /\ heartbeat' = [heartbeat EXCEPT !.status = "degraded", !.age = 0]
  /\ To("finishing")

(* The database refuses even the failure's record. *)
RecordFailureFails ==
  /\ loop.at = "failing" /\ To("finishing")
  /\ UNCHANGED <<failure, heartbeat>>

Advanced == IF loop.op = Lanes THEN "beat" ELSE "next"
NextOp == IF loop.op = Lanes THEN 1 ELSE loop.op + 1

(* Faulty: a lane that had work starts the sweep again. *)
MarkFinishedRestarting ==
  /\ loop.at = "finishing"
  /\ heartbeat' = Progress(IF heartbeat.current = loop.op THEN 0 ELSE heartbeat.current)
  /\ loop' = IF loop.busy THEN [loop EXCEPT !.at = "next", !.op = 1, !.busy = FALSE]
             ELSE [loop EXCEPT !.at = Advanced, !.op = NextOp]
  /\ UNCHANGED failure

(* The turn's end; a mark the database refuses is only logged. *)
MarkFinished ==
  /\ loop.at = "finishing"
  /\ heartbeat' \in
       {heartbeat, Progress(IF heartbeat.current = loop.op THEN 0 ELSE heartbeat.current)}
  /\ loop' = [loop EXCEPT !.at = Advanced, !.op = NextOp]
  /\ UNCHANGED failure

(* record_worker_heartbeat at the sweep's end, which may fail; then the    *)
(* next one, at once or after a pause.                                     *)
Beat ==
  /\ loop.at = "beat"
  /\ heartbeat' \in
       {heartbeat, [Progress(0) EXCEPT !.status = IF loop.erred THEN "degraded" ELSE "healthy"]}
  /\ loop' = [Down EXCEPT !.at = IF loop.busy THEN "next" ELSE "sleeping"]
  /\ UNCHANGED failure

Wake ==
  /\ loop.at = "sleeping" /\ To("next")
  /\ UNCHANGED <<failure, heartbeat>>

ProcessDies ==
  /\ loop.at # "down" /\ loop' = [Down EXCEPT !.silent = loop.silent]
  /\ UNCHANGED <<failure, heartbeat>>

(* Faulty: the thread reports progress it knows nothing of. *)
ThreadProgresses ==
  /\ loop.at # "down"
  /\ heartbeat' = Progress(heartbeat.current)
  /\ UNCHANGED <<loop, failure>>

(* run_heartbeat, the second thread: touch_worker_heartbeat. *)
HeartbeatThread ==
  /\ loop.at # "down"
  /\ heartbeat' = [heartbeat EXCEPT !.age = 0]
  /\ UNCHANGED <<loop, failure>>

Aged(n, limit) == IF n > limit THEN n ELSE n + 1

Tick ==
  /\ failure' = [op \in Operations |->
       [failure[op] EXCEPT !.wait = IF @ = 0 THEN 0 ELSE @ - 1]]
  /\ heartbeat' = [heartbeat EXCEPT !.age = Aged(@, StaleAfter),
                                    !.progress = Aged(@, StallAfter)]
  /\ loop' = [loop EXCEPT !.silent =
       IF loop.at \in {"hung", "down"} THEN Aged(@, StallAfter) ELSE @]

(* The main thread's own steps. *)
Steps ==
  \/ Register \/ MarkStarted \/ CheckDue \/ Return \/ Raise \/ Resolve
  \/ (\E x \in Errors : RecordFailure(x)) \/ RecordFailureFails
  \/ MarkFinished \/ Beat \/ Wake

(* The loop and the clock go on; errors and crashes are not promised.      *)
LoopFairness == WF_loopVars(Steps /\ ~Raise) /\ WF_loopVars(Tick)

LoopNext == Steps \/ Touch \/ Hang \/ ProcessDies \/ HeartbeatThread \/ Tick

LoopSpec == LoopInit /\ [][LoopNext]_loopVars

-----------------------------------------------------------------------------
(* worker_readiness_from_heartbeat *)
Readiness ==
  IF heartbeat.age > StaleAfter THEN "stale"
  ELSE IF heartbeat.progress > StallAfter THEN "stalled"
  ELSE heartbeat.status

(* The heartbeat row and the failure rows keep their types, and no backoff *)
(* outlasts worker_retry_max_seconds.                                      *)
LoopTyped ==
  /\ loop \in [at : {"down", "next", "due", "running", "hung", "resolving", "failing",
                     "finishing", "beat", "sleeping"},
               op : Operations, erred : BOOLEAN, busy : BOOLEAN, silent : 0..StallAfter + 1]
  /\ failure \in [Operations ->
       [attempts : [Errors -> 0..MaxRecorded], wait : 0..RetryMax]]
  /\ heartbeat \in [status : {"starting", "healthy", "degraded"}, age : 0..StaleAfter + 1,
                    progress : 0..StallAfter + 1, current : 0..Lanes]

(* A process that has been gone, or hanging in an operation, for longer    *)
(* than worker_operation_stall_seconds is never shown as starting, healthy *)
(* or degraded, although a hanging one's heartbeat thread keeps the row    *)
(* fresh and writes of the main loop may have failed; and the row names the*)
(* operation that hangs.                                                   *)
SilenceShows ==
  /\ loop.silent > StallAfter => Readiness \in {"stale", "stalled"}
  /\ loop.at = "hung" => heartbeat.current = loop.op

(* A lane that is busy, fails every time or backs off does not keep the    *)
(* lanes behind it from their turns, and is itself tried again; only a turn*)
(* that never returns, or a process that keeps dying, stops them.          *)
EveryLaneHasItsTurn ==
  \A op \in Operations :
    []<>(loop.op = op /\ loop.at \in {"running", "failing"})
      \/ []<>(loop.at \in {"hung", "down"})

(* A process that is gone, or hangs inside an operation, is reported so,   *)
(* although the heartbeat thread of a hanging process goes on.             *)
SilenceIsReported ==
  \A silent \in {"hung", "down"} :
    loop.at = silent ~> loop.at # silent \/ Readiness \in {"stale", "stalled"}
=============================================================================
