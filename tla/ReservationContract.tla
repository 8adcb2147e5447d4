------------------------ MODULE ReservationContract ------------------------
(***************************************************************************)
(* What the dialer promises about calling records, without sessions,       *)
(* leases, switches or workers.  An attempt holds one record from the      *)
(* moment it is opened until it is given back or decided; it is given back *)
(* only while no call can exist; a record is held by one attempt at a      *)
(* time; and its tally counts each seller decision exactly once.           *)
(***************************************************************************)
EXTENDS Naturals, FiniteSets

CONSTANTS Attempts, Records, NoRecord

VARIABLES
  stage,    \* where each attempt is
  record,   \* the record each attempt was opened on
  tally     \* seller decisions per record

vars == <<stage, record, tally>>

Stages == {"unused", "reserved", "calling", "finished", "manual",
           "returned", "decided", "failed"}

Holding == {"reserved", "calling", "finished", "manual"}

(* The one way forward of an attempt. *)
MovesTo ==
  [unused   |-> {"reserved", "manual"},
   reserved |-> {"returned", "calling", "finished"},
   calling  |-> {"finished"},
   finished |-> {"decided", "failed"},
   manual   |-> {"decided"},
   returned |-> {}, decided |-> {}, failed |-> {}]

Init ==
  /\ stage = [a \in Attempts |-> "unused"]
  /\ record = [a \in Attempts |-> NoRecord]
  /\ tally = [r \in Records |-> 0]

NewlyDecided(r) ==
  {a \in Attempts : stage[a] # "decided" /\ stage'[a] = "decided" /\ record'[a] = r}

(* One transaction moves any number of attempts, each by one stage. *)
Step ==
  /\ \A a \in Attempts : stage'[a] # stage[a] => stage'[a] \in MovesTo[stage[a]]
  /\ \A a \in Attempts : stage[a] # "unused" => record'[a] = record[a]
  /\ \A a, b \in Attempts :
       stage'[a] \in Holding /\ stage'[b] \in Holding /\ record'[a] = record'[b] => a = b
  /\ tally' = [r \in Records |-> tally[r] + Cardinality(NewlyDecided(r))]

Spec == Init /\ [][Step]_vars
=============================================================================
