---------------------------- MODULE DialRecovery ----------------------------
(***************************************************************************)
(* What the recovery worker must eventually do for a caller whose browser  *)
(* is gone for good, under the scheduling the worker loop provides.        *)
(***************************************************************************)
EXTENDS DialCoordinator

(* The worker loop polls for ever and each pass takes the stale session    *)
(* whose lease ran out first; a pass makes its session ineligible or ends  *)
(* it, so no stale session waits for ever.  Leases, heartbeats and grace   *)
(* periods are compared with the clock.  The start of a call whose         *)
(* confirmation is awaited is preserved at most as long as its window, so  *)
(* among endless passes over it one finds the window closed.               *)
WorkerFairness(s) ==
  /\ WF_vars(WorkerPass(s))
  /\ WF_vars(LeaseExpires(s))
  /\ WF_vars(HeartbeatAges(s))
  /\ WF_vars(GraceElapses(s))
  /\ SF_vars(\E a \in Attempts : WorkerFailsStart(s, a))

FairSpec == Spec /\ \A s \in Sessions : WorkerFairness(s)

(* The call is in the provider's hands, or is over and waits for a human   *)
(* disposition: the worker deliberately leaves both alone.                 *)
LeftToOthers(s) ==
  /\ session[s].cur # None
  /\ \/ attempt[session[s].cur].call = "placed"
     \/ attempt[session[s].cur].leg \in TerminalStatuses

(* A shift whose caller disappears does not keep its record and its line:  *)
(* it ends, unless a call really went out or has to be dispositioned.      *)
AbandonedShiftSettles ==
  \A s \in Sessions :
    Live(s) /\ CallerOf[s] \in gone ~> ~Live(s) \/ LeftToOthers(s)
=============================================================================
