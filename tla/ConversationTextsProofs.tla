----------------------- MODULE ConversationTextsProofs -----------------------
(***************************************************************************)
(* Proofs about the texts of the inbox, for any number of requests, keys,  *)
(* webhooks and workers, any reports in any order, and any texts of the    *)
(* seller.                                                                 *)
(***************************************************************************)
EXTENDS ConversationTexts, TLAPS

(* Twilio's vocabulary, and an absent value that is none of the others.    *)
Instance ==
  /\ Reports \subseteq Terminal \cup {"queued", "sending", "sent"}
  /\ None \notin Keys /\ None \notin Event

ReportRows ==
  [status : {"none", "unmatched", "processing", "retry", "processed", "orphaned"},
   attempts : Nat, holder : Clerks \cup {None}, stale : BOOLEAN]

Typed ==
  /\ dispatch \in [Keys -> Statuses \cup {"failed", "cancelled"}]
  /\ record \in [Keys -> Statuses]
  /\ sent \in [Keys -> Nat]
  /\ sender \in [Senders -> [at : {"idle", "submitting", "recording"}, key : Keys \cup {None}]]
  /\ report \in [Event -> ReportRows]
  /\ clerk \in [Clerks -> [at : {"idle", "webhook", "claimed", "recovery"},
                           on : Event \cup {None}, saw : Statuses]]

(* A request under way has its key to itself, and has submitted nothing    *)
(* before it submits.                                                      *)
OwnKey ==
  /\ \A s \in Senders : sender[s].at # "idle" =>
       /\ sender[s].key \in Keys
       /\ dispatch[sender[s].key] = "pending" /\ record[sender[s].key] = "none"
  /\ \A s \in Senders : sender[s].at = "submitting" => sent[sender[s].key] = 0
  /\ \A s, t \in Senders :
       sender[s].at # "idle" /\ sender[t].at # "idle" /\ sender[s].key = sender[t].key => s = t
  /\ \A k \in Keys : dispatch[k] = "none" => sent[k] = 0
  /\ \A k \in Keys : sent[k] <= 1
  /\ \A k \in Keys : record[k] # "none" => dispatch[k] \notin {"none", "pending", "cancelled"}

(* A transaction that applies a report holds it alone: a webhook by the    *)
(* unique index, a worker by the row lock.                                 *)
OwnReport ==
  \A c \in Clerks :
    /\ clerk[c].at # "idle" => clerk[c].on \in Event
    /\ clerk[c].at = "idle" => clerk[c].on = None
    /\ clerk[c].saw # "none" => clerk[c].at # "idle" /\ record[clerk[c].on[1]] # "none"
    /\ clerk[c].at = "webhook" =>
         /\ report[clerk[c].on].status = "none"
         /\ \A d \in Clerks : clerk[d].on = clerk[c].on => d = c
    /\ clerk[c].at = "recovery" =>
         report[clerk[c].on].status = "processing" /\ report[clerk[c].on].holder = c

Touched(e) == report[e].status # "none" \/ \E c \in Clerks : clerk[c].on = e

(* A text has one terminal report, and its dispatch shows one only when it *)
(* has been applied.                                                       *)
OneEnd ==
  /\ \A k \in Keys : \A t, u \in Reports \cap Terminal :
       Touched(<<k, t>>) /\ Touched(<<k, u>>) => t = u
  /\ \A k \in Keys : record[k] # "none" /\ dispatch[k] \in Terminal =>
       dispatch[k] \in Reports /\ report[<<k, dispatch[k]>>].status = "processed"
  /\ \A e \in Event : report[e].status = "processed" => record[e[1]] # "none"

TextsInv == Typed /\ OwnKey /\ OwnReport /\ OneEnd /\ ReportsKept

-----------------------------------------------------------------------------
LEMMA Ranks ==
  /\ Rank["pending"] = 0 /\ Rank["queued"] = 20 /\ Rank["sending"] = 30 /\ Rank["sent"] = 40
  BY DEF Rank

LEMMA StatusTypes ==
  ASSUME Instance
  PROVE  /\ Reports \subseteq Statuses /\ "none" \notin Reports /\ "pending" \notin Reports
         /\ {"none", "pending", "queued"} \subseteq Statuses
         /\ {"none", "pending", "queued"} \cap Terminal = {}
  BY DEF Instance, Statuses, Terminal

LEMMA InitInv ==
  ASSUME Instance, Init
  PROVE  TextsInv
<1> USE StatusTypes DEF Init, Nowhere, AtRest
<1>1. Typed  BY DEF Typed, ReportRows
<1>2. OwnKey  BY DEF OwnKey
<1>3. OwnReport  BY DEF OwnReport
<1>4. \A e \in Event : ~Touched(e)  BY DEF Touched, Instance
<1>5. OneEnd  BY <1>4 DEF OneEnd, Event
<1>6. ReportsKept  BY DEF ReportsKept
<1> QED  BY <1>1, <1>2, <1>3, <1>5, <1>6 DEF TextsInv

-----------------------------------------------------------------------------
(* The requests.                                                           *)

LEMMA BeginKeeps ==
  ASSUME Instance, TextsInv, NEW s \in Senders, NEW k \in Keys, Begin(s, k)
  PROVE  TextsInv'
<1> USE StatusTypes DEF TextsInv, Begin, reporting, hearing
<1>1. Typed'  BY DEF Typed
<1>2. OwnKey'  BY DEF OwnKey, Typed
<1>3. OwnReport'  BY DEF OwnReport
<1>4. record[k] = "none"  BY DEF OwnKey, Typed
<1>5. OneEnd'  BY <1>4 DEF OneEnd, Touched, Typed
<1>6. ReportsKept'  BY <1>4 DEF ReportsKept, OneEnd, Typed, Event
<1> QED  BY <1>1, <1>2, <1>3, <1>5, <1>6

LEMMA SubmitKeeps ==
  ASSUME Instance, TextsInv, NEW s \in Senders, Submit(s)
  PROVE  TextsInv'
<1> USE DEF TextsInv, Submit, reporting, hearing
<1>1. Typed'  BY DEF Typed, OwnKey
<1>2. OwnKey'  BY DEF OwnKey, Typed
<1>3. OwnReport' /\ OneEnd' /\ ReportsKept'  BY DEF OwnReport, OneEnd, Touched, ReportsKept
<1> QED  BY <1>1, <1>2, <1>3

LEMMA CancelClosedKeeps ==
  ASSUME Instance, TextsInv, NEW s \in Senders, CancelClosed(s)
  PROVE  TextsInv'
<1> USE StatusTypes DEF TextsInv, CancelClosed, reporting, hearing, Nowhere
<1> DEFINE k == sender[s].key
<1>1. Typed'  BY DEF Typed, OwnKey
<1>2. OwnKey'  BY DEF OwnKey, Typed
<1>3. OwnReport'  BY DEF OwnReport
<1>4. k \in Keys /\ record[k] = "none"  BY DEF OwnKey, Typed
<1>5. OneEnd'  BY <1>4 DEF OneEnd, Touched, Typed
<1>6. ReportsKept'  BY <1>4 DEF ReportsKept, OneEnd, Typed, Event
<1> QED  BY <1>1, <1>2, <1>3, <1>5, <1>6

LEMMA MarkFailedKeeps ==
  ASSUME Instance, TextsInv, NEW s \in Senders, MarkFailed(s)
  PROVE  TextsInv'
<1> USE StatusTypes DEF TextsInv, MarkFailed, reporting, hearing, Nowhere
<1> DEFINE k == sender[s].key
<1>1. Typed'  BY DEF Typed, OwnKey
<1>2. OwnKey'  BY DEF OwnKey, Typed
<1>3. OwnReport'  BY DEF OwnReport
<1>4. k \in Keys /\ record[k] = "none"  BY DEF OwnKey, Typed
<1>5. OneEnd'  BY <1>4 DEF OneEnd, Touched, Typed
<1>6. ReportsKept'  BY <1>4 DEF ReportsKept, OneEnd, Typed, Event
<1> QED  BY <1>1, <1>2, <1>3, <1>5, <1>6

LEMMA RecordKeeps ==
  ASSUME Instance, TextsInv, NEW s \in Senders, Record(s)
  PROVE  TextsInv'
<1> USE StatusTypes DEF TextsInv, Record, reporting, hearing, Nowhere
<1> DEFINE k == sender[s].key
<1>1. Typed'  BY DEF Typed, OwnKey
<1>2. OwnKey'  BY DEF OwnKey, Typed
<1>4. k \in Keys /\ record[k] = "none"  BY DEF OwnKey, Typed
<1>3. OwnReport'  BY <1>4 DEF OwnReport, Typed
<1>5. OneEnd'  BY <1>4 DEF OneEnd, Touched, Typed
<1>6. ReportsKept'  BY <1>4 DEF ReportsKept, OneEnd, Typed, Event
<1> QED  BY <1>1, <1>2, <1>3, <1>5, <1>6

LEMMA SenderDiesKeeps ==
  ASSUME Instance, TextsInv, NEW s \in Senders, SenderDies(s)
  PROVE  TextsInv'
<1> USE DEF TextsInv, SenderDies, reporting, hearing, Nowhere
<1>1. Typed'  BY DEF Typed, OwnKey
<1>2. OwnKey'  BY DEF OwnKey, Typed
<1>3. OwnReport' /\ OneEnd' /\ ReportsKept'  BY DEF OwnReport, OneEnd, Touched, ReportsKept
<1> QED  BY <1>1, <1>2, <1>3

-----------------------------------------------------------------------------
(* The reports.                                                            *)

LEMMA RowsClosed ==
  ASSUME NEW x \in ReportRows
  PROVE  /\ LET y == [x EXCEPT !.status = "processed", !.holder = None, !.stale = FALSE] IN
            y \in ReportRows /\ y.status = "processed"
         /\ [x EXCEPT !.status = "unmatched"] \in ReportRows
         /\ Deferred(x) \in ReportRows /\ Deferred(x).status \in {"retry", "orphaned"}
  BY DEF ReportRows, Deferred, Orphaned

(* Two transactions never apply the same report. *)
LEMMA AppliedAlone ==
  ASSUME OwnReport, NEW c \in Clerks, NEW d \in Clerks, c # d,
         clerk[c].at \in {"webhook", "recovery"}, clerk[d].at \in {"webhook", "recovery"}
  PROVE  clerk[c].on # clerk[d].on
  BY DEF OwnReport

(* A transaction that ends, having written only the report it applies,     *)
(* leaves every other one its own.                                         *)
LEMMA EndsAlone ==
  ASSUME Instance, Typed, OwnReport, NEW c \in Clerks,
         clerk' = [clerk EXCEPT ![c] = AtRest],
         \A f \in Event : record'[f[1]] = "none" => record[f[1]] = "none",
         \/ UNCHANGED report
         \/ /\ clerk[c].at \in {"webhook", "recovery"}
            /\ \A f \in Event : f # clerk[c].on => report'[f] = report[f]
  PROVE  OwnReport'
<1>1. /\ clerk'[c].at = "idle" /\ clerk'[c].on = None /\ clerk'[c].saw = "none"
      /\ \A d \in Clerks : d # c => clerk'[d] = clerk[d]
  BY DEF AtRest, Typed
<1>2. ASSUME NEW d \in Clerks, d # c
      PROVE  /\ clerk[d].at # "idle" => clerk[d].on \in Event
             /\ clerk[d].at = "idle" => clerk[d].on = None
             /\ clerk[d].saw # "none" => clerk[d].at # "idle" /\ record'[clerk[d].on[1]] # "none"
             /\ clerk[d].at \in {"webhook", "recovery"} =>
                  report'[clerk[d].on] = report[clerk[d].on]
  BY <1>2, AppliedAlone DEF OwnReport
<1>3. ASSUME NEW d \in Clerks, d # c, clerk[d].at = "webhook", NEW b \in Clerks,
             clerk'[b].on = clerk[d].on
      PROVE  b = d
  BY <1>1, <1>2, <1>3 DEF OwnReport, Instance
<1> QED  BY <1>1, <1>2, <1>3 DEF OwnReport

LEMMA WebhookKeeps ==
  ASSUME Instance, TextsInv, NEW c \in Clerks, NEW e \in Event, Webhook(c, e)
  PROVE  TextsInv'
<1> USE DEF TextsInv, Webhook, sending, hearing
<1>1. Typed'  BY DEF Typed, Event
<1>2. OwnKey'  BY DEF OwnKey
<1>3. OwnReport'  BY DEF OwnReport, Typed, Instance, Event
<1>4. ASSUME NEW k \in Keys, NEW t \in Reports \cap Terminal, NEW u \in Reports \cap Terminal,
             Touched(<<k, t>>)', Touched(<<k, u>>)'
      PROVE  t = u
  <2>1. \A f \in Event : Touched(f)' => Touched(f) \/ f = e
    BY DEF Touched, Typed
  <2>2. ~Touched(e)
    BY DEF Touched
  <2>3. ASSUME NEW v \in Reports \cap Terminal, NEW x \in Reports \cap Terminal, v # x,
               e = <<k, v>>, Touched(<<k, x>>)
        PROVE  FALSE
    BY <2>3 DEF Emitted, Touched
  <2>4. <<k, t>> \in Event /\ <<k, u>> \in Event
    BY DEF Event
  <2> QED  BY <1>4, <2>1, <2>2, <2>3, <2>4 DEF OneEnd
<1>5. OneEnd'  BY <1>4 DEF OneEnd
<1>6. ReportsKept'  BY DEF ReportsKept
<1> QED  BY <1>1, <1>2, <1>3, <1>5, <1>6

LEMMA ClaimKeeps ==
  ASSUME Instance, TextsInv, NEW c \in Clerks, NEW e \in Event, Claim(c, e)
  PROVE  TextsInv'
<1> USE DEF TextsInv, Claim, Recoverable, sending, hearing, AtRest
<1>1. Typed'
  <2>2. [status |-> "processing", attempts |-> report[e].attempts + 1, holder |-> c,
         stale |-> FALSE] \in ReportRows
    BY DEF Typed, ReportRows
  <2>3. report' \in [Event -> ReportRows]
    BY <2>2 DEF Typed
  <2>4. clerk' \in [Clerks -> [at : {"idle", "webhook", "claimed", "recovery"},
                               on : Event \cup {None}, saw : Statuses]]
    BY StatusTypes DEF Typed
  <2> QED  BY <2>3, <2>4 DEF Typed
<1>2. OwnKey'  BY DEF OwnKey
<1>3. OwnReport'  BY DEF OwnReport, Typed, Locked, Instance
<1>4. \A f \in Event : Touched(f)' => Touched(f)  BY DEF Touched, Typed
<1>5. OneEnd'  BY <1>4 DEF OneEnd, Typed, Event
<1>6. ReportsKept'  BY DEF ReportsKept, Typed
<1> QED  BY <1>1, <1>2, <1>3, <1>5, <1>6

LEMMA ClaimOrphanKeeps ==
  ASSUME Instance, TextsInv, NEW c \in Clerks, NEW e \in Event, ClaimOrphan(c, e)
  PROVE  TextsInv'
<1> USE DEF TextsInv, ClaimOrphan, Recoverable, Orphaned, sending, hearing
<1>1. Typed'  BY DEF Typed, ReportRows
<1>2. OwnKey'  BY DEF OwnKey
<1>3. OwnReport'  BY DEF OwnReport, Typed, Locked, Instance
<1>4. \A f \in Event : Touched(f)' => Touched(f)  BY DEF Touched, Typed
<1>5. OneEnd'  BY <1>4 DEF OneEnd, Typed, Event
<1>6. ReportsKept'  BY DEF ReportsKept, Typed
<1> QED  BY <1>1, <1>2, <1>3, <1>5, <1>6

LEMMA RecoverKeeps ==
  ASSUME Instance, TextsInv, NEW c \in Clerks, Recover(c)
  PROVE  TextsInv'
<1> USE DEF TextsInv, Recover, sending, hearing, AtRest
<1>1. Typed'  BY StatusTypes DEF Typed, OwnReport, Event
<1>2. OwnKey'  BY DEF OwnKey
<1>3. OwnReport'  BY DEF OwnReport, Typed, Instance
<1>4. \A f \in Event : Touched(f)' => Touched(f)  BY DEF Touched, Typed, OwnReport, Instance
<1>5. OneEnd'  BY <1>4 DEF OneEnd, Typed, Event
<1>6. ReportsKept'  BY DEF ReportsKept, Typed
<1> QED  BY <1>1, <1>2, <1>3, <1>5, <1>6

(* What a report makes of the dispatch: an end stays, an end is taken, and *)
(* otherwise the status moves on.                                          *)
LEMMA TakenFacts ==
  ASSUME Instance, NEW d \in Terminal \cup {"queued", "sending", "sent"}, NEW r \in Reports
  PROVE  /\ Taken(d, r) \in {d, r}
         /\ d \in Terminal => Taken(d, r) = d
         /\ r \in Terminal /\ d \notin Terminal => Taken(d, r) = r
         /\ d \notin Terminal /\ r \notin Terminal =>
              Rank[Taken(d, r)] >= Rank[d] /\ Rank[Taken(d, r)] >= Rank[r]
  BY Ranks DEF Taken, Applies, Instance, Terminal

LEMMA ApplyKeeps ==
  ASSUME Instance, TextsInv, NEW c \in Clerks, Apply(c)
  PROVE  TextsInv'
<1> USE DEF TextsInv
<1> DEFINE e == clerk[c].on  k == e[1]  r == e[2]
<1>1. /\ e \in Event /\ e = <<k, r>> /\ k \in Keys /\ r \in Reports
      /\ record[k] # "none" /\ record'[k] # "none"
  BY StatusTypes DEF Apply, OwnReport, Event, Typed
<1>2. /\ dispatch[k] \in Terminal \cup {"queued", "sending", "sent"}
      /\ dispatch' = [dispatch EXCEPT ![k] = Taken(dispatch[k], r)]
  BY <1>1 DEF Apply, OwnKey, Typed, Statuses, Instance, Terminal
<1>3. /\ Taken(dispatch[k], r) \in {dispatch[k], r}
      /\ dispatch[k] \in Terminal => Taken(dispatch[k], r) = dispatch[k]
      /\ r \in Terminal /\ dispatch[k] \notin Terminal => Taken(dispatch[k], r) = r
      /\ dispatch[k] \notin Terminal /\ r \notin Terminal =>
           /\ Rank[Taken(dispatch[k], r)] >= Rank[dispatch[k]]
           /\ Rank[Taken(dispatch[k], r)] >= Rank[r]
  BY <1>1, <1>2, TakenFacts
<1>4. /\ \A f \in Event \ {e} : report'[f] = report[f]
      /\ report'[e].status = "processed"
      /\ report' \in [Event -> ReportRows]
  <2> DEFINE new == [report[e] EXCEPT !.status = "processed", !.holder = None, !.stale = FALSE]
  <2>1. new \in ReportRows /\ new.status = "processed"
    <3>1. report[e] \in ReportRows  BY <1>1 DEF Typed
    <3> QED  BY <3>1, RowsClosed
  <2>2. report' = [report EXCEPT ![e] = new]  BY DEF Apply
  <2> HIDE DEF new
  <2> QED  BY <1>1, <2>1, <2>2 DEF Typed
<1>5. /\ \A l \in Keys \ {k} : record'[l] = record[l] /\ dispatch'[l] = dispatch[l]
      /\ \A l \in Keys : record'[l] = "none" <=> record[l] = "none"
      /\ record' \in [Keys -> Statuses]
  BY <1>1, <1>2, StatusTypes DEF Apply, Typed
<1>6. dispatch' \in [Keys -> Statuses \cup {"failed", "cancelled"}]
  BY <1>1, <1>2, <1>3, StatusTypes DEF Typed
<1>7. /\ clerk'[c].at = "idle" /\ clerk'[c].on = None /\ clerk'[c].saw = "none"
      /\ \A d \in Clerks \ {c} : clerk'[d] = clerk[d]
      /\ clerk' \in [Clerks -> [at : {"idle", "webhook", "claimed", "recovery"},
                                on : Event \cup {None}, saw : Statuses]]
  BY StatusTypes DEF Apply, AtRest, Typed
<1>8. UNCHANGED <<sent, sender>>
  BY DEF Apply
<1>9. Typed'  BY <1>4, <1>5, <1>6, <1>7, <1>8 DEF Typed
<1>10. OwnKey'
  <2>1. \A s \in Senders : sender[s].at # "idle" => sender[s].key \in Keys \ {k}
    BY <1>1 DEF OwnKey
  <2>2. dispatch'[k] \notin {"none", "pending", "cancelled"}
    <3>1. r \in Terminal \cup {"queued", "sending", "sent"}
      BY <1>1 DEF Instance
    <3> QED BY <1>1, <1>2, <1>3, <3>1, StatusTypes DEF Typed, Terminal
  <2> QED  BY <1>1, <1>5, <1>8, <2>1, <2>2 DEF OwnKey
<1>11. OwnReport'
  BY <1>1, <1>4, <1>5, EndsAlone DEF Apply, Event
<1>12. \A f \in Event : Touched(f)' => Touched(f)
  BY <1>1, <1>4, <1>7 DEF Touched, Instance
<1>13. Touched(e)
  BY <1>1 DEF Touched
<1>14. OneEnd'
  <2>1. ASSUME dispatch'[k] \in Terminal
        PROVE  dispatch'[k] \in Reports /\ report'[<<k, dispatch'[k]>>].status = "processed"
    <3>1. dispatch'[k] = Taken(dispatch[k], r)  BY <1>1, <1>2 DEF Typed
    <3>2. CASE dispatch[k] \in Terminal
      BY <1>1, <1>3, <1>4, <3>1, <3>2 DEF OneEnd, Event
    <3>3. CASE dispatch[k] \notin Terminal
      BY <1>1, <1>3, <1>4, <2>1, <3>1, <3>3
    <3> QED  BY <3>2, <3>3
  <2>2. ASSUME NEW l \in Keys, record'[l] # "none", dispatch'[l] \in Terminal
        PROVE  dispatch'[l] \in Reports /\ report'[<<l, dispatch'[l]>>].status = "processed"
    <3>1. CASE l = k  BY <2>1, <2>2, <3>1
    <3>2. CASE l # k
      BY <1>1, <1>4, <1>5, <2>2, <3>2 DEF OneEnd, Event
    <3> QED  BY <3>1, <3>2
  <2>3. \A f \in Event : report'[f].status = "processed" => record'[f[1]] # "none"
    BY <1>1, <1>4, <1>5 DEF OneEnd, Event
  <2> QED  BY <1>12, <2>2, <2>3 DEF OneEnd, Event
<1>15. ReportsKept'
  <2>1. ASSUME NEW f \in Event, report'[f].status = "processed"
        PROVE  IF f[2] \in Terminal THEN dispatch'[f[1]] = f[2]
               ELSE dispatch'[f[1]] \in Terminal \/ Rank[dispatch'[f[1]]] >= Rank[f[2]]
    <3> DEFINE l == f[1]  q == f[2]
    <3>1. l \in Keys /\ q \in Reports /\ f = <<l, q>>  BY DEF Event
    <3>2. CASE l # k
      <4>1. f # e /\ report[f].status = "processed"  BY <1>1, <1>4, <2>1, <3>2
      <4> QED  BY <1>5, <3>1, <3>2, <4>1 DEF ReportsKept
    <3>3. CASE l = k
      <4>1. dispatch'[l] = Taken(dispatch[k], r)  BY <1>1, <1>2, <3>3 DEF Typed
      <4>2. CASE f = e
        <5>1. q = r  BY <1>1, <3>1, <4>2
        <5>2. CASE r \in Terminal /\ dispatch[k] \in Terminal
          <6>1. /\ dispatch[k] \in Reports
                /\ report[<<k, dispatch[k]>>].status = "processed"
            BY <1>1, <5>2 DEF OneEnd
          <6>2. dispatch[k] = r
            BY <1>1, <1>13, <5>2, <6>1 DEF OneEnd, Touched
          <6> QED  BY <1>3, <4>1, <5>1, <5>2, <6>2
        <5>3. CASE ~(r \in Terminal /\ dispatch[k] \in Terminal)
          BY <1>3, <4>1, <5>1, <5>3
        <5> QED  BY <5>2, <5>3
      <4>3. CASE f # e
        <5>1. IF q \in Terminal THEN dispatch[k] = q
              ELSE dispatch[k] \in Terminal \/ Rank[dispatch[k]] >= Rank[q]
          BY <1>4, <2>1, <3>3, <4>3 DEF ReportsKept
        <5>2. CASE dispatch[k] \in Terminal  BY <1>3, <4>1, <5>1, <5>2
        <5>3. CASE dispatch[k] \notin Terminal /\ r \in Terminal
          BY <1>3, <4>1, <5>1, <5>3
        <5>4. CASE dispatch[k] \notin Terminal /\ r \notin Terminal
          <6>1. Rank[dispatch[k]] \in Nat /\ Rank[r] \in Nat /\ q \notin Terminal
            BY <1>1, <1>2, <5>1, <5>4, Ranks DEF Instance
          <6>2. Rank[q] \in Nat
            BY <3>1, <6>1, Ranks DEF Instance
          <6>3. Rank[Taken(dispatch[k], r)] \in Nat
            BY <1>1, <1>2, <1>3, <5>4, Ranks DEF Instance
          <6> QED  BY <1>3, <4>1, <5>1, <5>4, <6>1, <6>2, <6>3
        <5> QED  BY <5>2, <5>3, <5>4
      <4> QED  BY <4>2, <4>3
    <3> QED  BY <3>2, <3>3
  <2> QED  BY <2>1 DEF ReportsKept
<1> QED  BY <1>9, <1>10, <1>11, <1>14, <1>15

LEMMA UnmatchedKeeps ==
  ASSUME Instance, TextsInv, NEW c \in Clerks, Unmatched(c)
  PROVE  TextsInv'
<1> USE DEF TextsInv
<1> DEFINE e == clerk[c].on
           new == IF clerk[c].at = "webhook" THEN [report[e] EXCEPT !.status = "unmatched"]
                  ELSE Deferred(report[e])
<1>1. /\ e \in Event /\ report[e] \in ReportRows
      /\ report' = [report EXCEPT ![e] = new] /\ clerk' = [clerk EXCEPT ![c] = AtRest]
      /\ clerk[c].at \in {"webhook", "recovery"}
      /\ UNCHANGED <<dispatch, record, sent, sender>>
  BY DEF Unmatched, OwnReport, Typed, sending
<1>2. new \in ReportRows /\ new.status \in {"unmatched", "retry", "orphaned"}
  BY <1>1, RowsClosed DEF ReportRows
<1> HIDE DEF new
<1>3. report[e].status \in {"none", "processing"}  BY <1>1 DEF OwnReport
<1>4. Typed'  BY <1>1, <1>2, StatusTypes DEF Typed, AtRest
<1>5. OwnKey'  BY <1>1 DEF OwnKey
<1>6. OwnReport'  BY <1>1, EndsAlone DEF Typed
<1>7. \A f \in Event : Touched(f)' => Touched(f)
  BY <1>1, <1>2, <1>3 DEF Touched, Typed, AtRest, Instance
<1>8. \A f \in Event : report'[f].status = "processed" <=> report[f].status = "processed"
  BY <1>1, <1>2, <1>3 DEF Typed
<1>9. OneEnd'  BY <1>1, <1>7, <1>8 DEF OneEnd, Event
<1>10. ReportsKept'  BY <1>1, <1>8 DEF ReportsKept
<1> QED  BY <1>4, <1>5, <1>6, <1>9, <1>10

LEMMA FailKeeps ==
  ASSUME Instance, TextsInv, NEW c \in Clerks, Fail(c) \/ ClerkDies(c)
  PROVE  TextsInv'
<1> USE DEF TextsInv
<1> DEFINE e == clerk[c].on
<1>1. /\ e \in Event /\ report[e] \in ReportRows
      /\ clerk' = [clerk EXCEPT ![c] = AtRest]
      /\ \/ UNCHANGED report
         \/ clerk[c].at = "recovery" /\ report' = [report EXCEPT ![e] = Deferred(report[e])]
      /\ UNCHANGED <<dispatch, record, sent, sender>>
  BY DEF Fail, ClerkDies, OwnReport, Typed, sending
<1>2. /\ Deferred(report[e]) \in ReportRows
      /\ Deferred(report[e]).status \in {"retry", "orphaned"}
  BY <1>1, RowsClosed
<1>3. clerk[c].at = "recovery" => report[e].status = "processing"  BY DEF OwnReport
<1>4. Typed'  BY <1>1, <1>2, StatusTypes DEF Typed, AtRest
<1>5. OwnKey'  BY <1>1 DEF OwnKey
<1>6. OwnReport'  BY <1>1, EndsAlone DEF Typed
<1>7. \A f \in Event : Touched(f)' => Touched(f)
  BY <1>1, <1>2, <1>3 DEF Touched, Typed, AtRest, Instance
<1>8. \A f \in Event : report'[f].status = "processed" <=> report[f].status = "processed"
  BY <1>1, <1>2, <1>3 DEF Typed
<1>9. OneEnd'  BY <1>1, <1>7, <1>8 DEF OneEnd, Event
<1>10. ReportsKept'  BY <1>1, <1>8 DEF ReportsKept
<1> QED  BY <1>4, <1>5, <1>6, <1>9, <1>10

LEMMA LeaseExpiresKeeps ==
  ASSUME Instance, TextsInv, NEW e \in Event, LeaseExpires(e)
  PROVE  TextsInv'
<1> USE DEF TextsInv, LeaseExpires, sending, hearing
<1>1. Typed'  BY DEF Typed, ReportRows
<1>2. OwnKey'  BY DEF OwnKey
<1>3. \A f \in Event : report'[f].status = report[f].status /\ report'[f].holder = report[f].holder
  BY DEF Typed, ReportRows
<1>4. OwnReport'  BY <1>3 DEF OwnReport
<1>5. OneEnd'  BY <1>3 DEF OneEnd, Touched, Event
<1>6. ReportsKept'  BY <1>3 DEF ReportsKept
<1> QED  BY <1>1, <1>2, <1>4, <1>5, <1>6

LEMMA HearKeeps ==
  ASSUME TextsInv, NEW m \in Heard, Hear(m)
  PROVE  TextsInv'
  BY DEF TextsInv, Hear, sending, reporting, Typed, OwnKey, OwnReport, OneEnd, Touched, ReportsKept

LEMMA StepKeeps ==
  ASSUME Instance, TextsInv, [Next]_vars
  PROVE  TextsInv'
<1>1. CASE UNCHANGED vars
  BY <1>1 DEF vars, TextsInv, Typed, OwnKey, OwnReport, OneEnd, Touched, ReportsKept
<1>2. CASE \E s \in Senders : \/ \E k \in Keys : Begin(s, k)
                              \/ CancelClosed(s) \/ Submit(s) \/ MarkFailed(s) \/ Record(s)
                              \/ SenderDies(s)
  BY <1>2, BeginKeeps, CancelClosedKeeps, SubmitKeeps, MarkFailedKeeps, RecordKeeps,
     SenderDiesKeeps
<1>3. CASE \E c \in Clerks :
             \/ \E e \in Event : Webhook(c, e) \/ Claim(c, e) \/ ClaimOrphan(c, e)
             \/ Recover(c) \/ Apply(c) \/ Unmatched(c) \/ Fail(c) \/ ClerkDies(c)
  BY <1>3, WebhookKeeps, ClaimKeeps, ClaimOrphanKeeps, RecoverKeeps, ApplyKeeps, UnmatchedKeeps,
     FailKeeps
<1>4. CASE \E e \in Event : LeaseExpires(e)
  BY <1>4, LeaseExpiresKeeps
<1>5. CASE \E m \in Heard : Hear(m)
  BY <1>5, HearKeeps
<1> QED  BY <1>1, <1>2, <1>3, <1>4, <1>5 DEF Next

LEMMA TextsInvariance ==
  ASSUME Instance
  PROVE  Spec => []TextsInv
<1>1. Init => TextsInv  BY InitInv
<1>2. TextsInv /\ [Next]_vars => TextsInv'  BY StepKeeps
<1> QED  BY <1>1, <1>2, PTL DEF Spec

(* One idempotency key reaches the provider at most once, whichever        *)
(* requests repeat it or die (send_conversation_sms).                      *)
THEOREM SentOnce ==
  ASSUME Instance
  PROVE  Spec => []SentOncePerKey
<1>1. TextsInv => SentOncePerKey  BY DEF TextsInv, OwnKey, SentOncePerKey
<1> QED  BY <1>1, TextsInvariance, PTL

(* A dispatch keeps every report that counts as processed, in whatever     *)
(* order reports arrive, overlap and are recovered                         *)
(* (apply_twilio_status_event).                                            *)
THEOREM ReportsAreKept ==
  ASSUME Instance
  PROVE  Spec => []ReportsKept
<1>1. TextsInv => ReportsKept  BY DEF TextsInv
<1> QED  BY <1>1, TextsInvariance, PTL

(* Only a new START lifts a STOP: a text of the seller that is delivered   *)
(* once more changes nothing (process_twilio_inbound, its stored event).   *)
THEOREM StopIsKept ==
  Spec => StopHolds
<1> DEFINE Lifts == \E m \in Heard \ heard : KeywordOf[m] = "START" /\ m \in heard'
<1>1. ASSUME [Next]_vars, suppressed, ~suppressed'
      PROVE  Lifts
  <2>1. CASE \E m \in Heard : Hear(m)
    BY <1>1, <2>1 DEF Hear, Preference
  <2>2. CASE UNCHANGED suppressed
    BY <1>1, <2>2
  <2> QED
    BY <1>1, <2>1, <2>2 DEF Next, vars, hearing, Begin, CancelClosed, Submit, MarkFailed, Record, SenderDies,
       Webhook, Claim, ClaimOrphan, Recover, Apply, Unmatched, Fail, ClerkDies, LeaseExpires
<1>2. [Next]_vars => [(suppressed /\ ~suppressed') => Lifts]_vars
  BY <1>1
<1> QED  BY <1>2, PTL DEF Spec, StopHolds
=============================================================================
