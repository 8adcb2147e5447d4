------------------------------- MODULE MCDeals -------------------------------
(***************************************************************************)
(* The deal's paperwork for TLC: the contract with its signature requests, *)
(* and the offer room of its disposition.  They share nothing here, so a   *)
(* behaviour is one of one of them (unit) while the other rests in its     *)
(* initial state.  The module extends both, whose constants the            *)
(* configuration gives, so that each is checked on the very definitions    *)
(* the proofs about it use.                                                *)
(***************************************************************************)
EXTENDS ContractEnvelope, OfferRoom, TLC

CONSTANTS s1, s2, o1, o2

VARIABLE unit

all == <<unit, contractVars, roomVars>>

(* The contract of the configuration has two members of staff and two      *)
(* signature requests of one package; the provider completes or declines.  *)
(* Another has two packages, a new offer authority, and the provider       *)
(* cancels.                                                                *)
Varied == INSTANCE ContractEnvelope WITH
  Packages <- {1, 2}, Envelopes <- {1}, Staff <- {s1}, MaxAuthority <- 2,
  Emitted <- {"viewed", "cancelled"}

(* One package, one request, every report of the provider.                 *)
Reported == INSTANCE ContractEnvelope WITH
  Packages <- {1}, Envelopes <- {1}, Staff <- {s1}, MaxAuthority <- 2,
  Emitted <- {"created", "viewed", "bounced", "completed", "declined", "expired",
              "cancelled", "error"}

(* In the offer room of the configuration two buyers compete for an        *)
(* assignment and one falls out.  In another the only one selected asks    *)
(* for another price.                                                      *)
Retraded == INSTANCE OfferRoom WITH Reasons <- {"retrade"}, MaxSelections <- 1

(* Two buyers of a double closing, with or without earnest money.          *)
Doubled == INSTANCE OfferRoom WITH
  Strategies <- {"double_close"}, Terms <- {"due", "zero"}

-----------------------------------------------------------------------------
DealsInit ==
  /\ unit \in {"racing", "varied", "reported", "assigned", "retraded", "doubled"}
  /\ CASE unit = "varied" -> Varied!Init
       [] unit = "reported" -> Reported!Init
       [] OTHER -> Init
  /\ IF unit = "doubled" THEN Doubled!RoomInit ELSE RoomInit

DealsNext ==
  \/ unit = "racing" /\ Next /\ UNCHANGED <<unit, roomVars>>
  \/ unit = "varied" /\ Varied!Next /\ UNCHANGED <<unit, roomVars>>
  \/ unit = "reported" /\ Reported!Next /\ UNCHANGED <<unit, roomVars>>
  \/ unit = "assigned" /\ RoomNext /\ UNCHANGED <<unit, contractVars>>
  \/ unit = "retraded" /\ Retraded!RoomNext /\ UNCHANGED <<unit, contractVars>>
  \/ unit = "doubled" /\ Doubled!RoomNext /\ UNCHANGED <<unit, contractVars>>

DealsSpec == DealsInit /\ [][DealsNext]_all

Symmetry == Permutations({s1, s2}) \cup Permutations({o1, o2})

-----------------------------------------------------------------------------
(* Every row has its type, and every event recorded was emitted. *)
RowsTyped ==
  /\ unit = "racing" => TypeOK
  /\ unit = "varied" => Varied!TypeOK
  /\ unit = "reported" => Reported!TypeOK
  /\ unit = "assigned" => RoomTypeOK
  /\ unit = "retraded" => Retraded!RoomTypeOK
  /\ unit = "doubled" => Doubled!RoomTypeOK
=============================================================================
