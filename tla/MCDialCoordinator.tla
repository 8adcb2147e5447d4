------------------------- MODULE MCDialCoordinator -------------------------
(* Instances of the coordinator for TLC. *)
EXTENDS DialRecovery, DialClaims, TLC

CONSTANTS c1, c2, s1, s2, s3, e1, e2, a1, a2, a3

(* One caller over two sessions and two records. *)
SoloCallerOf == [s \in {s1, s2} |-> c1]
SoloOwnerOf == [e \in {e1, e2} |-> c1]

(* One caller, one session, one record worked again and again. *)
LoneCallerOf == [s \in {s1} |-> c1]
LoneOwnerOf == [e \in {e1} |-> c1]

(* Two callers, a session each, two records each their own. *)
PairCallerOf == [s \in {s1, s2} |-> IF s = s1 THEN c1 ELSE c2]
PairOwnerOf == [e \in {e1, e2} |-> IF e = e1 THEN c1 ELSE c2]

(* Sessions, records and attempts of one caller are interchangeable. *)
SoloSymmetry == Permutations(Attempts) \cup Permutations(Entries) \cup Permutations(Sessions)

PairSymmetry ==
  Permutations(Attempts) \cup
    {(c1 :> c2) @@ (c2 :> c1) @@ (s1 :> s2) @@ (s2 :> s1) @@ (e1 :> e2) @@ (e2 :> e1)}
=============================================================================
