-------------------------- MODULE DialReservations --------------------------
(***************************************************************************)
(* The coordinator implements the reservation contract: an attempt's row,  *)
(* its leg and its call evidence give its stage, attempt_count the tally.  *)
(***************************************************************************)
EXTENDS DialCoordinator

(* Where an attempt in progress is, by its leg and its call evidence. *)
WorkStage(r) ==
  IF r.leg = "none" THEN "manual"
  ELSE IF r.leg \in TerminalStatuses THEN "finished"
  ELSE IF r.call \in {"dispatching", "placed"} THEN "calling"
  ELSE "reserved"

RowStage(r) ==
  CASE r.status = "free"        -> "unused"
    [] r.status = "seller"      -> "decided"
    [] r.status = "technical"   -> "failed"
    [] r.status = "cancelled"   -> "returned"
    [] r.status = "in_progress" -> WorkStage(r)

Contract == INSTANCE ReservationContract WITH
  Records <- Entries, NoRecord <- None,
  stage  <- [a \in Attempts |-> RowStage(attempt[a])],
  record <- [a \in Attempts |-> attempt[a].entry],
  tally  <- [e \in Entries |-> entry[e].count]

(* Every transaction of the coordinator is a step of the contract or       *)
(* changes nothing the contract speaks of.                                 *)
ImplementsContract == Contract!Spec
=============================================================================
