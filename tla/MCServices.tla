----------------------------- MODULE MCServices -----------------------------
(***************************************************************************)
(* The service's own machinery and its entry of leads for TLC: the request *)
(* rate limiter, the worker's loop with its failure records, the intake of *)
(* sellers, the texts about them to the staff and the work on a lead.      *)
(* Here they share nothing, so a behaviour is one of one of them (unit)    *)
(* while the others rest in their initial states.  The module extends      *)
(* them, and the configuration gives their constants, so that they are     *)
(* checked on the very definitions the proofs use; an instance is the same *)
(* component with other constants.                                         *)
(*                                                                         *)
(* The configuration: three clients and room for two, windows of two       *)
(* seconds (limiter); two operations, two types of exception, backoff 1, 2,*)
(* 2, ... (lanes); one seller, two visits to the website and a Facebook    *)
(* form, two places and no overlapping transactions (intake); the two texts*)
(* of a website journey to one recipient, two workers (website); a lead    *)
(* that is closed, marked and taken up again while two calls of the seller *)
(* are missed (desk).                                                      *)
(***************************************************************************)
EXTENDS LeadWork, SellerIntake, StaffAlerts, RateLimiter, WorkerLoop, TLC

CONSTANTS
  p1, p2, p3   \* two or three of a kind: clients, exceptions, workers ...

VARIABLES unit

services == <<limiterVars, loopVars, intakeVars, alertVars, vars>>

(* One place and two transactions at a time;                               *)
Rush == INSTANCE SellerIntake WITH Places <- {"old"}, Leads <- {1, 2}, Requests <- {p1, p2}

(* and one place that is taken for a house or for land, by one visitor and *)
(* a form.                                                                 *)
Land == INSTANCE SellerIntake WITH
  Places <- {"old"}, Journeys <- {p1}, AssetClasses <- {"house", "land"}

(* The texts about a Facebook lead, more than a text is attempted.         *)
Facebook == INSTANCE StaffAlerts WITH Kinds <- {"facebook"}, MaxTexts <- AlertAttempts + 2

(* A lead that is pursued up to its deal, with a call missed on the way;   *)
Pursuit == INSTANCE LeadWork WITH
  Contacts <- {p3}, Calls <- {p3}, Workers <- {}, MaxCrashes <- 0,
  Controls <- {"close", "reopen", "archive", "stage", "task", "meet", "plan", "deal"}

(* and one of which two workers write a brief, with a text of the seller.  *)
Brief == INSTANCE LeadWork WITH
  Contacts <- {p3}, Calls <- {}, Workers <- {p1, p2}, MaxCrashes <- 1,
  Controls <- {"close", "mark", "reopen", "archive", "review"}

-----------------------------------------------------------------------------
ServicesInit ==
  /\ unit \in {"limiter", "lanes", "intake", "rush", "land", "website", "facebook",
               "desk", "pursuit", "brief"}
  /\ LimiterInit /\ LoopInit
  /\ CASE unit = "rush" -> Rush!IntakeInit
       [] unit = "land" -> Land!IntakeInit
       [] OTHER -> IntakeInit
  /\ \/ unit = "facebook" /\ Facebook!AlertsInit
     \/ unit # "facebook" /\ AlertsInit
  /\ CASE unit = "pursuit" -> Pursuit!Init
       [] unit = "brief" -> Brief!Init
       [] OTHER -> Init

InLimiter == LimiterNext /\ UNCHANGED <<loopVars, intakeVars, alertVars, vars>>
InLanes == LoopNext /\ UNCHANGED <<limiterVars, intakeVars, alertVars, vars>>
InIntake ==
  /\ \/ unit = "intake" /\ IntakeNext
     \/ unit = "rush" /\ Rush!IntakeNext
     \/ unit = "land" /\ Land!IntakeNext
  /\ UNCHANGED <<limiterVars, loopVars, alertVars, vars>>
InAlerts ==
  /\ (unit = "website" /\ AlertsNext) \/ (unit = "facebook" /\ Facebook!AlertsNext)
  /\ UNCHANGED <<limiterVars, loopVars, intakeVars, vars>>
OnLead ==
  /\ \/ unit = "desk" /\ Next
     \/ unit = "pursuit" /\ Pursuit!Next
     \/ unit = "brief" /\ Brief!Next
  /\ UNCHANGED <<limiterVars, loopVars, intakeVars, alertVars>>

ServicesNext ==
  /\ \/ unit = "limiter" /\ InLimiter
     \/ unit = "lanes" /\ InLanes
     \/ unit \in {"intake", "rush", "land"} /\ InIntake
     \/ unit \in {"website", "facebook"} /\ InAlerts
     \/ unit \in {"desk", "pursuit", "brief"} /\ OnLead
  /\ UNCHANGED unit

ServicesSpec == ServicesInit /\ [][ServicesNext]_<<unit, services>>

Symmetry == Permutations({p1, p2})

-----------------------------------------------------------------------------
(* Every row has its type, and no backoff of the worker outlasts its       *)
(* maximum (WorkerLoop, SellerIntake, StaffAlerts, LeadWork).              *)
RowsTyped ==
  /\ LoopTyped
  /\ unit = "intake" => IntakeTyped
  /\ unit = "rush" => Rush!IntakeTyped
  /\ unit = "land" => Land!IntakeTyped
  /\ unit = "website" => AlertsTyped
  /\ unit = "facebook" => Facebook!AlertsTyped
  /\ unit = "desk" => TypeOK
  /\ unit = "pursuit" => Pursuit!TypeOK
  /\ unit = "brief" => Brief!TypeOK
=============================================================================
