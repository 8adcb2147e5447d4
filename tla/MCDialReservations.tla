------------------------- MODULE MCDialReservations -------------------------
(* One caller, one session slot, one record worked again and again. *)
EXTENDS DialReservations, TLC

CONSTANTS c1, s1, e1

LoneCallerOf == [s \in {s1} |-> c1]
LoneOwnerOf == [e \in {e1} |-> c1]

AttemptSymmetry == Permutations(Attempts)
=============================================================================
