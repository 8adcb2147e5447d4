----------------------------- MODULE DialClaims -----------------------------
(***************************************************************************)
(* What the repository says of the dialer and the code does not keep: the  *)
(* property is a sentence of a document, and a run shows the shortest way  *)
(* the code departs from it.                                               *)
(***************************************************************************)
EXTENDS DialCoordinator

(* "Every terminal call enters wrap-up", a "durable wrap-up lock": a native*)
(* attempt waits for its disposition on a live session, the only place     *)
(* complete_attempt and complete_technical_failure accept one.             *)
DispositionReachable ==
  \A a \in Attempts :
    attempt[a].status = "in_progress" /\ attempt[a].by # None =>
      Live(attempt[a].by) /\ session[attempt[a].by].cur = a
=============================================================================
