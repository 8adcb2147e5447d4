--------------------------- MODULE OutreachClaims ---------------------------
(***************************************************************************)
(* What the repository says of outreach delivery and the code does not     *)
(* keep; a run shows the shortest way.                                     *)
(***************************************************************************)
EXTENDS OutreachDelivery

(* "Persist the uncertain state before crossing the provider boundary so a *)
(* worker crash can never turn into an automatic duplicate SMS."           *)
NoDuplicateText == \A m \in Texts : copies[m] <= 1
=============================================================================
