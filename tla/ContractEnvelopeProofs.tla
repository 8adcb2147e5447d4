----------------------- MODULE ContractEnvelopeProofs -----------------------
(***************************************************************************)
(* What can be signed is under control, for any packages, signature        *)
(* requests and members of staff, whatever the provider reports and        *)
(* whoever dies where: the invariant says what a request's row, the        *)
(* provider's document and the reports of it have to do with each other,   *)
(* and what a member of staff between two steps of a send can rely on.     *)
(***************************************************************************)
EXTENDS ContractEnvelope, TLAPS

Instance == MaxAuthority \in Nat \ {0}

PaperStatus == {"none", "draft", "sent", "viewed"} \cup Finished
DealStatus == {"contract_prep", "approval_pending", "sent", "executed"} \cup ClosedDeal
PackageRow == [status : PackageStatus, basis : 0..MaxAuthority]
EnvelopeRow == [status : EnvelopeStatus, package : Packages \cup {0}, known : BOOLEAN,
                filed : {"none", "quarantined", "executed"}]

Acting == [phase : {"creating", "created", "saved", "sending", "answered"}, envelope : Envelopes]
Looking == [phase : {"looking"}, envelope : Envelopes, seen : EnvelopeStatus,
            report : PaperStatus \ {"none"}]

RowsTyped ==
  /\ TypeOK
  /\ paper \in [Envelopes -> PaperStatus]
  /\ raised \in [Envelopes -> SUBSET Events] /\ taken \in [Envelopes -> SUBSET Events]
  /\ desk \in [Staff -> {Idle} \cup Acting \cup Looking]

-----------------------------------------------------------------------------
(* The invariant. *)

Closed(e) == paper[e] \in Finished

(* Nothing comes of this request any more: its document is closed, or it   *)
(* was abandoned before its document was known.                            *)
Dormant(e) == Closed(e) \/ (~envelope[e].known /\ envelope[e].status = "error")

Filed(e) ==
  /\ envelope[e].status = "none" => paper[e] = "none" /\ ~envelope[e].known
  /\ envelope[e].known =>
       /\ paper[e] # "none"
       /\ envelope[e].status \in Finished => Closed(e)
  /\ ~envelope[e].known =>
       /\ ~Signable(e)
       /\ envelope[e].status \in Uncertain \cup {"none", "error"}
  /\ raised[e] \cap Finished # {} => Closed(e)

(* What a member of staff who is about to act on the request e relies on.  *)
Relies(s, e) ==
  /\ envelope[e].status # "none"
  /\ At(s, "creating") =>
       /\ paper[e] = "none"
       /\ \A t \in Staff : (At(t, "creating") /\ desk[t].envelope = e) => t = s
  /\ At(s, "created") => paper[e] # "none"
  /\ ~At(s, "creating") /\ ~At(s, "created") => envelope[e].known
  /\ At(s, "looking") /\ desk[s].report \in Finished => Closed(e)

Informed(s) == ~At(s, "idle") => Relies(s, desk[s].envelope)

Drafted(p) == {e \in Envelopes : envelope[e].status # "none" /\ envelope[e].package = p}

(* Of the requests of a package all but one are dormant. *)
Single == \A p \in Packages : \A e, f \in Drafted(p) : e # f => Dormant(e) \/ Dormant(f)

Gone == {"none", "executed", "void"}

Retired ==
  deal = "cancelled" =>
    /\ \A p \in Packages : package[p].status \in Gone
    /\ \A e \in Envelopes : envelope[e].status = "none" \/ Dormant(e)

IInv ==
  /\ RowsTyped
  /\ \A e \in Envelopes : Filed(e)
  /\ \A s \in Staff : Informed(s)
  /\ Single /\ Retired

-----------------------------------------------------------------------------
(* What a step may do: to a request, and to the package and the deal.      *)

Steady(e) ==
  /\ envelope'[e].status = "none" <=> envelope[e].status = "none"
  /\ envelope'[e].package = envelope[e].package
  /\ envelope[e].known => envelope'[e].known
  /\ paper[e] # "none" => paper'[e] # "none"
  /\ Closed(e) => Closed(e)'
  /\ Dormant(e) => Dormant(e)'

Authorized(p) ==
  package[p].status \notin {"none", "executed"} /\ package'[p].status = "executed"
    => Valid(p) /\ Open /\ leadOpen

BooksTyped == package' \in [Packages -> PackageRow] /\ deal' \in DealStatus

BooksRest ==
  deal' = "cancelled" =>
    /\ deal = "cancelled"
    /\ \A p \in Packages : package[p].status \in Gone => package'[p].status \in Gone

BooksMove == BooksTyped /\ BooksRest /\ \A p \in Packages : Authorized(p)

LEMMA Typed ==
  IInv => /\ leadOpen \in BOOLEAN
          /\ deal \in DealStatus
          /\ authority \in [number : 1..MaxAuthority, fit : BOOLEAN]
          /\ package \in [Packages -> PackageRow]
          /\ envelope \in [Envelopes -> EnvelopeRow]
          /\ \A e \in Envelopes : envelope[e].status # "none" => envelope[e].package \in Packages
  BY DEF IInv, RowsTyped, TypeOK, DealStatus, PackageRow, EnvelopeRow

LEMMA DeskTyped ==
  ASSUME RowsTyped, NEW s \in Staff
  PROVE  /\ desk[s] \in {Idle} \cup Acting \cup Looking
         /\ ~At(s, "idle") => desk[s].envelope \in Envelopes
         /\ At(s, "looking") => desk[s] \in Looking
         /\ ~At(s, "idle") /\ ~At(s, "looking") => desk[s] \in Acting
<1>1. desk[s] \in {Idle} \cup Acting \cup Looking
  BY DEF RowsTyped
<1>2. CASE desk[s] = Idle
  BY <1>2 DEF Idle, At
<1>3. CASE desk[s] \in Acting
  BY <1>3 DEF Acting, At
<1>4. CASE desk[s] \in Looking
  BY <1>4 DEF Looking, At
<1> QED BY <1>1, <1>2, <1>3, <1>4

LEMMA PackageSet ==
  ASSUME IInv, NEW p \in Packages, NEW status \in PackageStatus,
         package' = [package EXCEPT ![p].status = status]
  PROVE  /\ package' \in [Packages -> PackageRow]
         /\ package'[p].status = status
         /\ \A q \in Packages : q # p => package'[q] = package[q]
<1>1. package \in [Packages -> PackageRow]
  BY Typed
<1>2. [package[p] EXCEPT !.status = status] \in PackageRow
      /\ [package[p] EXCEPT !.status = status].status = status
  BY <1>1 DEF PackageRow
<1> QED BY <1>1, <1>2

LEMMA BooksUnchanged ==
  ASSUME IInv, UNCHANGED <<deal, package>>
  PROVE  BooksMove
<1>1. deal \in DealStatus /\ package \in [Packages -> PackageRow]
  BY Typed
<1> QED BY <1>1 DEF BooksMove, BooksTyped, BooksRest, Authorized

LEMMA EnvelopeSet ==
  ASSUME IInv, NEW e \in Envelopes, NEW r \in EnvelopeRow,
         envelope' = [envelope EXCEPT ![e] = r]
  PROVE  /\ envelope' \in [Envelopes -> EnvelopeRow]
         /\ envelope'[e] = r
         /\ \A f \in Envelopes : f # e => envelope'[f] = envelope[f]
<1>1. envelope \in [Envelopes -> EnvelopeRow]
  BY Typed
<1> QED BY <1>1

LEMMA StatusSet ==
  ASSUME NEW r \in EnvelopeRow, NEW status \in EnvelopeStatus
  PROVE  LET q == [r EXCEPT !.status = status] IN
         /\ q \in EnvelopeRow /\ q.status = status
         /\ q.package = r.package /\ q.known = r.known /\ q.filed = r.filed
  BY DEF EnvelopeRow

-----------------------------------------------------------------------------
(* The parts of the invariant, step by step. *)

LEMMA SameFiled ==
  ASSUME NEW e, Filed(e), envelope'[e] = envelope[e], paper'[e] = paper[e], raised'[e] = raised[e]
  PROVE  Filed(e)' /\ Steady(e)
  BY DEF Filed, Steady, Closed, Dormant, Signable

LEMMA StillInformed ==
  ASSUME NEW t \in Staff, Informed(t), desk'[t] = desk[t],
         ~At(t, "idle") => Steady(desk[t].envelope),
         At(t, "creating") => paper'[desk[t].envelope] = "none",
         \A u \in Staff : At(u, "creating")' => desk'[u] = desk[u]
  PROVE  Informed(t)'
  BY DEF Informed, Relies, Steady, At

LEMMA IdleInformed ==
  ASSUME NEW t \in Staff, desk'[t] = Idle
  PROVE  Informed(t)'
  BY DEF Informed, At, Idle

LEMMA Assembled ==
  ASSUME IInv, RowsTyped', BooksRest,
         \A e \in Envelopes : Filed(e)' /\ Steady(e),
         \A s \in Staff : Informed(s)'
  PROVE  IInv'
<1>1. Single'
  <2> SUFFICES ASSUME NEW p \in Packages, NEW e \in Drafted(p)', NEW f \in Drafted(p)', e # f
               PROVE  Dormant(e)' \/ Dormant(f)'
    BY DEF Single
  <2>1. e \in Drafted(p) /\ f \in Drafted(p)
    BY DEF Drafted, Steady
  <2>2. e \in Envelopes /\ f \in Envelopes
    BY DEF Drafted
  <2> QED BY <2>1, <2>2 DEF IInv, Single, Steady
<1>2. Retired'
  BY DEF IInv, Retired, BooksRest, Steady
<1> QED BY <1>1, <1>2 DEF IInv

(* A step of the package, the deal, the authority or the lead.             *)
LEMMA LocalStep ==
  ASSUME IInv, UNCHANGED <<envelope, paper, raised, taken, desk>>, BooksTyped, BooksRest,
         leadOpen' \in BOOLEAN, authority' \in [number : 1..MaxAuthority, fit : BOOLEAN]
  PROVE  IInv'
<1>1. RowsTyped'
  BY DEF IInv, RowsTyped, TypeOK, BooksTyped, DealStatus, PackageRow
<1>2. \A e \in Envelopes : Filed(e)' /\ Steady(e)
  BY SameFiled DEF IInv
<1>3. \A s \in Staff : Informed(s)'
  BY DEF IInv, Informed, Relies, At, Closed
<1> QED BY <1>1, <1>2, <1>3, Assembled

-----------------------------------------------------------------------------
(* The package, the deal, the authority and the lead. *)

Sides == <<envelope, paper, raised, taken, desk>>

LEMMA SurroundingsStep ==
  ASSUME Instance, IInv, NewAuthority \/ RequestPlan \/ ArchiveLead \/ RestoreLead
  PROVE  BooksMove /\ IInv'
<1>1. UNCHANGED <<deal, package>> /\ UNCHANGED Sides
  BY DEF NewAuthority, RequestPlan, ArchiveLead, RestoreLead, Sides
<1>2. BooksMove
  BY <1>1, BooksUnchanged
<1>3. leadOpen' \in BOOLEAN
  BY Typed DEF NewAuthority, RequestPlan, ArchiveLead, RestoreLead
<1>4. authority' \in [number : 1..MaxAuthority, fit : BOOLEAN]
  <2>1. authority \in [number : 1..MaxAuthority, fit : BOOLEAN]
    BY Typed
  <2>2. CASE NewAuthority
    <3>1. authority.number + 1 \in 1..MaxAuthority
      BY <2>1, <2>2 DEF NewAuthority, Instance
    <3> QED BY <2>2, <3>1 DEF NewAuthority
  <2>3. CASE RequestPlan
    BY <2>1, <2>3 DEF RequestPlan
  <2>4. CASE ArchiveLead \/ RestoreLead
    BY <2>1, <2>4 DEF ArchiveLead, RestoreLead
  <2> QED BY <2>2, <2>3, <2>4
<1> QED BY <1>1, <1>2, <1>3, <1>4, LocalStep DEF BooksMove, Sides

(* Whatever sets the status of one package. *)
LEMMA PackageStep ==
  ASSUME IInv, NEW p \in Packages, NEW status \in PackageStatus,
         package' = [package EXCEPT ![p].status = status],
         deal' \in DealStatus, deal' = "cancelled" => deal = "cancelled",
         package[p].status \notin Gone \/ status \in Gone \/ Open,
         status = "executed" => Valid(p) /\ Open /\ leadOpen
  PROVE  BooksMove
<1>1. /\ package' \in [Packages -> PackageRow]
      /\ package'[p].status = status
      /\ \A q \in Packages : q # p => package'[q] = package[q]
  BY PackageSet
<1>2. BooksRest
  BY <1>1 DEF BooksRest, Open, ClosedDeal
<1>3. ASSUME NEW q \in Packages PROVE Authorized(q)
  BY <1>1 DEF Authorized
<1> QED BY <1>1, <1>2, <1>3 DEF BooksMove, BooksTyped

LEMMA PackageBooks ==
  ASSUME IInv, NEW p \in Packages,
         \/ RequestApproval(p) \/ MarkSent(p) \/ Withdraw(p) \/ MarkExecuted(p)
         \/ \E decision \in {"approved", "draft", "void"} : Decide(p, decision)
  PROVE  BooksMove
<1>1. deal \in DealStatus
  BY Typed
<1>2. CASE RequestApproval(p) \/ MarkSent(p) \/ Withdraw(p)
  <2>1. PICK status \in {"pending_approval", "sent", "void"} :
          /\ package' = [package EXCEPT ![p].status = status]
          /\ package[p].status \in {"draft", "approved", "sent"}
          /\ deal' \in {"approval_pending", "sent", "contract_prep", deal}
    BY <1>2 DEF RequestApproval, MarkSent, Withdraw, SetPackage
  <2> QED BY <1>1, <2>1, PackageStep DEF PackageStatus, DealStatus, Gone
<1>3. CASE MarkExecuted(p)
  BY <1>1, <1>3, PackageStep DEF MarkExecuted, SetPackage, PackageStatus, DealStatus, Gone
<1>4. CASE \E decision \in {"approved", "draft", "void"} : Decide(p, decision)
  <2>1. PICK status \in {"approved", "draft", "void"} : Decide(p, status)
    BY <1>4
  <2> QED BY <1>1, <2>1, PackageStep DEF Decide, SetPackage, PackageStatus, DealStatus, Gone
<1> QED BY <1>2, <1>3, <1>4

LEMMA CreateBooks ==
  ASSUME IInv, NEW p \in Packages, CreatePackage(p)
  PROVE  BooksMove
<1>1. deal' = deal /\ deal \in DealStatus /\ deal # "cancelled"
  BY Typed DEF CreatePackage, Open, ClosedDeal
<1>2. package \in [Packages -> PackageRow] /\ authority.number \in 0..MaxAuthority
  BY Typed
<1>3. package' = [package EXCEPT ![p] = [status |-> "draft", basis |-> authority.number]]
  BY DEF CreatePackage
<1>4. [status |-> "draft", basis |-> authority.number] \in PackageRow
  BY <1>2 DEF PackageRow, PackageStatus
<1>5. package' \in [Packages -> PackageRow]
  BY <1>2, <1>3, <1>4
<1>6. ASSUME NEW q \in Packages PROVE Authorized(q)
  BY <1>2, <1>3 DEF Authorized
<1> QED BY <1>1, <1>5, <1>6 DEF BooksMove, BooksTyped, BooksRest

LEMMA ImportBooks ==
  ASSUME IInv, NEW p \in Packages, ImportExecuted(p)
  PROVE  BooksMove
<1>1. package \in [Packages -> PackageRow]
  BY Typed
<1>2. ASSUME NEW q \in Packages
      PROVE  package'[q] \in PackageRow /\ Authorized(q)
  <2>1. package'[q] = IF q = p THEN [package[q] EXCEPT !.status = "executed"]
                      ELSE IF package[q].status = "draft"
                           THEN [package[q] EXCEPT !.status = "void"] ELSE package[q]
    BY DEF ImportExecuted
  <2>2. package[q] \in PackageRow
    BY <1>1
  <2>3. q = p => package[q].status = "none"
    BY DEF ImportExecuted
  <2>4. package'[q] \in PackageRow
    BY <2>1, <2>2 DEF PackageRow, PackageStatus
  <2>5. Authorized(q)
    BY <2>1, <2>2, <2>3 DEF Authorized, PackageRow
  <2> QED BY <2>4, <2>5
<1>3. package' \in [Packages -> PackageRow]
  <2>1. DOMAIN package' = Packages /\ package' = [q \in Packages |-> package'[q]]
    BY DEF ImportExecuted
  <2> QED BY <1>2, <2>1
<1>4. deal' = "executed"
  BY DEF ImportExecuted
<1> QED BY <1>2, <1>3, <1>4 DEF BooksMove, BooksTyped, BooksRest, DealStatus

LEMMA FundBooks == IInv /\ Fund => BooksMove
<1> SUFFICES ASSUME IInv, Fund PROVE BooksMove
  OBVIOUS
<1>1. package' = package /\ package \in [Packages -> PackageRow] /\ deal' = "funded"
  BY Typed DEF Fund
<1> QED BY <1>1 DEF BooksMove, BooksTyped, BooksRest, Authorized, DealStatus, ClosedDeal

LEMMA BookStep ==
  ASSUME IInv, NEW p \in Packages,
         \/ CreatePackage(p) \/ RequestApproval(p) \/ MarkSent(p) \/ Withdraw(p)
         \/ MarkExecuted(p) \/ ImportExecuted(p) \/ Fund
         \/ \E decision \in {"approved", "draft", "void"} : Decide(p, decision)
  PROVE  BooksMove /\ IInv'
<1>1. BooksMove
  BY PackageBooks, CreateBooks, ImportBooks, FundBooks
<1>2. UNCHANGED Sides /\ UNCHANGED authority /\ leadOpen' \in BOOLEAN
  BY Typed DEF CreatePackage, RequestApproval, MarkSent, Withdraw, MarkExecuted, ImportExecuted,
     Fund, Decide, Sides, providerSide
<1> QED BY <1>1, <1>2, Typed, LocalStep DEF BooksMove, Sides

(* A request that is neither live nor unused is dormant, so nothing is     *)
(* left of a deal that is cancelled.                                       *)
LEMMA NotLive ==
  ASSUME IInv, NEW e \in Envelopes, ~Live(e)
  PROVE  envelope[e].status = "none" \/ Dormant(e)
<1>1. Filed(e)
  BY DEF IInv
<1> QED BY <1>1 DEF Live, Filed, Dormant, Uncertain, Finished

LEMMA CancelStep ==
  ASSUME IInv, Cancel
  PROVE  IInv' /\ BooksTyped /\ \A p \in Packages : Authorized(p)
<1>1. ASSUME NEW p \in Packages
      PROVE  /\ package'[p] \in PackageRow /\ package'[p].status \in Gone
             /\ package'[p].status = "executed" => package[p].status = "executed"
  <2>1. package[p] \in PackageRow /\ package[p].status \notin {"sending", "sent"}
    BY Typed DEF Cancel, Frozen
  <2>2. package'[p] = IF package[p].status \in {"draft", "pending_approval", "approved"}
                      THEN [package[p] EXCEPT !.status = "void"] ELSE package[p]
    BY DEF Cancel
  <2> QED BY <2>1, <2>2 DEF PackageRow, PackageStatus, Gone
<1>2. package' \in [Packages -> PackageRow]
  <2>1. package' = [q \in Packages |-> package'[q]]
    BY DEF Cancel
  <2> QED BY <1>1, <2>1
<1>3. deal' = "cancelled" /\ UNCHANGED Sides /\ UNCHANGED <<leadOpen, authority>>
  BY DEF Cancel, Sides, providerSide
<1>4. BooksTyped
  BY <1>2, <1>3 DEF BooksTyped, DealStatus, ClosedDeal
<1>5. RowsTyped'
  BY <1>3, <1>4 DEF IInv, RowsTyped, TypeOK, BooksTyped, DealStatus, PackageRow, Sides
<1>6. \A e \in Envelopes : Filed(e)' /\ Steady(e)
  BY <1>3, SameFiled DEF IInv, Sides
<1>7. \A s \in Staff : Informed(s)'
  BY <1>3 DEF IInv, Informed, Relies, At, Closed, Sides
<1>8. Single'
  BY <1>3 DEF IInv, Single, Drafted, Dormant, Closed, Sides
<1>9. Retired'
  <2>1. \A e \in Envelopes : envelope[e].status = "none" \/ Dormant(e)
    BY NotLive DEF Cancel
  <2> QED BY <1>1, <1>6, <2>1 DEF Retired, Steady
<1>10. \A p \in Packages : Authorized(p)
  BY <1>1 DEF Authorized
<1> QED BY <1>4, <1>5, <1>6, <1>7, <1>8, <1>9, <1>10 DEF IInv

-----------------------------------------------------------------------------
(* A step on one request: its row r, its document d and the reports x of   *)
(* it, by a member of staff who goes on as w.                              *)

LEMMA RequestStep ==
  ASSUME IInv, BooksMove, UNCHANGED <<leadOpen, authority>>,
         NEW e \in Envelopes, NEW r \in EnvelopeRow, NEW d \in PaperStatus, NEW x \in SUBSET Events,
         envelope' = [envelope EXCEPT ![e] = r],
         paper' = [paper EXCEPT ![e] = d],
         raised' = [raised EXCEPT ![e] = x],
         taken' \in [Envelopes -> SUBSET Events], \A f \in Envelopes : taken'[f] \subseteq raised'[f],
         desk' \in [Staff -> {Idle} \cup Acting \cup Looking],
         Filed(e)', Steady(e), \A s \in Staff : Informed(s)'
  PROVE  IInv'
<1>1. envelope' \in [Envelopes -> EnvelopeRow] /\ \A f \in Envelopes : f # e => envelope'[f] = envelope[f]
  BY EnvelopeSet
<1>2. /\ paper' \in [Envelopes -> PaperStatus] /\ \A f \in Envelopes : f # e => paper'[f] = paper[f]
      /\ raised' \in [Envelopes -> SUBSET Events]
      /\ \A f \in Envelopes : f # e => raised'[f] = raised[f]
  BY DEF IInv, RowsTyped
<1>3. \A f \in Envelopes : Filed(f)' /\ Steady(f)
  BY <1>1, <1>2, SameFiled DEF IInv
<1>4. \A f \in Envelopes : envelope'[f].status # "none" => envelope'[f].package \in Packages
  BY <1>3, Typed DEF Steady
<1>5. TypeOK'
  BY <1>1, <1>4, Typed DEF TypeOK, BooksMove, BooksTyped, DealStatus, PackageRow, EnvelopeRow
<1>6. RowsTyped'
  BY <1>2, <1>5 DEF RowsTyped
<1> QED BY <1>3, <1>6, Assembled DEF BooksMove

(* The same, with one member of staff at work and the rest as they were.   *)
LEMMA StaffStep ==
  ASSUME IInv, BooksMove, UNCHANGED <<leadOpen, authority, taken>>,
         NEW s \in Staff, NEW w \in {Idle} \cup Acting \cup Looking,
         desk' = [desk EXCEPT ![s] = w], w.phase # "creating",
         NEW e \in Envelopes, NEW r \in EnvelopeRow, NEW d \in PaperStatus, NEW x \in SUBSET Events,
         envelope' = [envelope EXCEPT ![e] = r],
         paper' = [paper EXCEPT ![e] = d],
         raised' = [raised EXCEPT ![e] = x], raised[e] \subseteq x,
         Filed(e)', Steady(e), Informed(s)',
         d = paper[e] \/ paper[e] # "none" \/ (At(s, "creating") /\ desk[s].envelope = e)
  PROVE  IInv'
<1>1. desk' \in [Staff -> {Idle} \cup Acting \cup Looking]
      /\ desk'[s] = w /\ \A t \in Staff : t # s => desk'[t] = desk[t]
  BY DEF IInv, RowsTyped
<1>2. /\ taken' \in [Envelopes -> SUBSET Events]
      /\ \A f \in Envelopes : taken'[f] \subseteq raised'[f]
  BY DEF IInv, RowsTyped, TypeOK
<1>3. \A f \in Envelopes : Steady(f) /\ (f # e => paper'[f] = paper[f])
  <2>1. \A f \in Envelopes : f # e => /\ envelope'[f] = envelope[f] /\ paper'[f] = paper[f]
                                      /\ raised'[f] = raised[f]
    BY EnvelopeSet DEF IInv, RowsTyped
  <2> QED BY <2>1, SameFiled DEF IInv
<1>4. paper'[e] = d
  BY DEF IInv, RowsTyped
<1>5. ASSUME NEW t \in Staff, t # s PROVE Informed(t)'
  <2>1. ~At(t, "idle") => desk[t].envelope \in Envelopes
    BY DeskTyped DEF IInv
  <2>2. At(t, "creating") => /\ ~At(t, "idle")
                             /\ paper[desk[t].envelope] = "none"
                             /\ ~(At(s, "creating") /\ desk[s].envelope = desk[t].envelope)
    BY <1>5 DEF IInv, Informed, Relies, At
  <2>3. At(t, "creating") => paper'[desk[t].envelope] = "none"
    BY <1>3, <1>4, <2>1, <2>2
  <2>4. \A u \in Staff : At(u, "creating")' => desk'[u] = desk[u]
    BY <1>1 DEF At
  <2> QED BY <1>1, <1>3, <1>5, <2>1, <2>3, <2>4, StillInformed DEF IInv
<1> QED BY <1>1, <1>2, <1>5, RequestStep

(* A member of staff moves on, or gives up, and no request changes.        *)
LEMMA DeskStep ==
  ASSUME IInv, UNCHANGED <<local, paper, raised, taken>>,
         NEW s \in Staff, NEW w \in {Idle} \cup Acting \cup Looking,
         desk' = [desk EXCEPT ![s] = w], w.phase # "creating", Informed(s)'
  PROVE  IInv'
<1>1. desk' \in [Staff -> {Idle} \cup Acting \cup Looking]
      /\ desk'[s] = w /\ \A t \in Staff : t # s => desk'[t] = desk[t]
  BY DEF IInv, RowsTyped
<1>2. BooksMove
  BY BooksUnchanged DEF local
<1>3. \A e \in Envelopes : Filed(e)' /\ Steady(e)
  BY SameFiled DEF IInv, local
<1>4. ASSUME NEW t \in Staff, t # s PROVE Informed(t)'
  <2>1. At(t, "creating") => paper[desk[t].envelope] = "none"
    BY DEF IInv, Informed, Relies, At
  <2>2. ~At(t, "idle") => desk[t].envelope \in Envelopes
    BY DeskTyped DEF IInv
  <2>3. \A u \in Staff : At(u, "creating")' => desk'[u] = desk[u]
    BY <1>1 DEF At
  <2> QED BY <1>1, <1>3, <1>4, <2>1, <2>2, <2>3, StillInformed DEF IInv
<1>5. RowsTyped'
  BY <1>1 DEF IInv, RowsTyped, TypeOK, local, Live
<1> QED BY <1>2, <1>3, <1>4, <1>5, Assembled DEF BooksMove

-----------------------------------------------------------------------------
(* Sending. *)

LEMMA Acts ==
  ASSUME IInv, NEW s \in Staff, ~At(s, "idle")
  PROVE  LET e == desk[s].envelope IN
         /\ e \in Envelopes /\ envelope[e] \in EnvelopeRow
         /\ paper[e] \in PaperStatus /\ raised[e] \in SUBSET Events
         /\ Filed(e) /\ Relies(s, e)
  BY DeskTyped, Typed DEF IInv, Informed, RowsTyped

(* The document is made, or may have been. *)
LEMMA CreateStep ==
  ASSUME IInv, NEW s \in Staff, Create(s) \/ CreateFails(s)
  PROVE  IInv'
<1>1. At(s, "creating") /\ ~At(s, "idle")
  BY DEF Create, CreateFails, At
<1>0. PICK e \in Envelopes : desk[s].envelope = e
  BY <1>1, Acts
<1>2. /\ envelope[e] \in EnvelopeRow /\ paper[e] = "none"
      /\ raised[e] \in SUBSET Events /\ Filed(e) /\ Relies(s, e)
  BY <1>0, <1>1, Acts DEF Relies
<1>3. PICK d \in {"none", "draft"} : \E x \in {raised[e], raised[e] \cup ({"created"} \cap Emitted)} :
        /\ paper' = [paper EXCEPT ![e] = d] /\ raised' = [raised EXCEPT ![e] = x]
        /\ Create(s) => d = "draft"
  <2>1. CASE Create(s)
    BY <1>0, <2>1 DEF Create
  <2>2. CASE CreateFails(s) /\ ~Create(s)
    <3>1. PICK made \in BOOLEAN :
            /\ paper' = IF made THEN [paper EXCEPT ![e] = "draft"] ELSE paper
            /\ raised' = IF made THEN [raised EXCEPT ![e] = @ \cup ({"created"} \cap Emitted)]
                         ELSE raised
      BY <1>0, <2>2 DEF CreateFails
    <3>2. paper = [paper EXCEPT ![e] = "none"] /\ raised = [raised EXCEPT ![e] = raised[e]]
      BY <1>2 DEF IInv, RowsTyped
    <3> QED BY <2>2, <3>1, <3>2
  <2> QED BY <2>1, <2>2
<1>4. PICK x \in {raised[e], raised[e] \cup ({"created"} \cap Emitted)} :
        /\ paper' = [paper EXCEPT ![e] = d] /\ raised' = [raised EXCEPT ![e] = x]
        /\ Create(s) => d = "draft"
  BY <1>3
<1>5. /\ x \in SUBSET Events /\ raised[e] \subseteq x /\ d \in PaperStatus
      /\ x \cap Finished = raised[e] \cap Finished
  BY <1>2 DEF Events, Finished, PaperStatus
<1>6. PICK r \in EnvelopeRow :
        /\ envelope' = [envelope EXCEPT ![e] = r]
        /\ r.package = envelope[e].package /\ r.known = envelope[e].known
        /\ \/ r.status = envelope[e].status
           \/ envelope[e].status = "creating_draft" /\ r.status = "draft_creation_uncertain"
  <2>1. CASE Create(s)
    <3>1. envelope' = envelope /\ envelope = [envelope EXCEPT ![e] = envelope[e]]
      BY <2>1, Typed DEF Create, local
    <3> QED BY <1>2, <3>1
  <2>2. CASE CreateFails(s)
    <3> DEFINE status == MadeUncertain(envelope[e].status, "creating_draft")
    <3>1. envelope' = [envelope EXCEPT ![e] = [envelope[e] EXCEPT !.status = status]]
      BY <1>0, <2>2 DEF CreateFails
    <3>2. \/ status = envelope[e].status
          \/ envelope[e].status = "creating_draft" /\ status = "draft_creation_uncertain"
      BY DEF MadeUncertain
    <3>3. status \in EnvelopeStatus
      BY <1>2, <3>2 DEF EnvelopeRow, EnvelopeStatus, Uncertain
    <3> HIDE DEF status
    <3> DEFINE q == [envelope[e] EXCEPT !.status = status]
    <3>4. q \in EnvelopeRow /\ q.status = status /\ q.package = envelope[e].package
          /\ q.known = envelope[e].known
      BY <1>2, <3>3, StatusSet
    <3>5. envelope' = [envelope EXCEPT ![e] = q]
      BY <3>1
    <3> HIDE DEF q
    <3> QED BY <3>2, <3>4, <3>5
  <2> QED BY <2>1, <2>2
<1>7. PICK w \in {Idle} \cup Acting :
        /\ desk' = [desk EXCEPT ![s] = w] /\ w.phase # "creating"
        /\ w.phase # "idle" => w.phase = "created" /\ w.envelope = e /\ Create(s)
  <2>1. CASE Create(s)
    <3>1. desk[s] \in Acting
      BY <1>1, DeskTyped DEF IInv, At
    <3>2. desk' = [desk EXCEPT ![s] = [desk[s] EXCEPT !.phase = "created"]]
      BY <2>1 DEF Create
    <3>3. /\ [desk[s] EXCEPT !.phase = "created"] \in Acting
          /\ [desk[s] EXCEPT !.phase = "created"].phase = "created"
          /\ [desk[s] EXCEPT !.phase = "created"].envelope = e
      BY <1>0, <3>1 DEF Acting
    <3> QED BY <2>1, <3>2, <3>3
  <2>2. CASE CreateFails(s)
    <3>1. Idle.phase = "idle"
      BY DEF Idle
    <3>2. desk' = [desk EXCEPT ![s] = Idle]
      BY <2>2 DEF CreateFails
    <3> QED BY <3>1, <3>2
  <2> QED BY <2>1, <2>2
<1>8. envelope'[e] = r /\ paper'[e] = d /\ raised'[e] = x /\ desk'[s] = w
  BY <1>2, <1>4, <1>6, <1>7, Typed DEF IInv, RowsTyped
<1>9. UNCHANGED <<leadOpen, authority, taken, deal, package>>
  BY DEF Create, CreateFails, local
<1>11. /\ ~envelope[e].known /\ envelope[e].status \in Uncertain \cup {"error"}
       /\ ~Closed(e) /\ x \cap Finished = {}
  <2>1. ~Closed(e)
    BY <1>2 DEF Closed, Finished
  <2> QED BY <1>2, <1>5, <1>0, <2>1 DEF Filed, Relies
<1>12. Filed(e)' /\ Steady(e)
  <2>1. /\ ~envelope'[e].known /\ envelope'[e].package = envelope[e].package
        /\ envelope'[e].status \in Uncertain \cup {"error"}
        /\ envelope[e].status = "error" => envelope'[e].status = "error"
    BY <1>6, <1>8, <1>11 DEF Uncertain
  <2>2. paper'[e] \in {"none", "draft"} /\ raised'[e] \cap Finished = {}
    BY <1>8, <1>11
  <2>3. envelope[e].status # "none" /\ envelope'[e].status # "none"
    BY <1>11, <2>1 DEF Uncertain
  <2>4. Filed(e)'
    BY <2>1, <2>2, <2>3 DEF Filed, Signable
  <2>5. Steady(e)
    BY <1>2, <1>11, <2>1, <2>3 DEF Steady, Dormant
  <2> QED BY <2>4, <2>5
<1>13. Informed(s)'
  BY <1>4, <1>7, <1>8, <1>11, <1>12 DEF Informed, Relies, Steady, At, Uncertain
<1>14. BooksMove
  BY <1>9, BooksUnchanged
<1>15. w \in {Idle} \cup Acting \cup Looking /\ w.phase # "creating"
       /\ desk' = [desk EXCEPT ![s] = w]
  BY <1>7
<1> QED BY <1>1, <1>2, <1>4, <1>5, <1>6, <1>9, <1>0, <1>12, <1>13, <1>14, <1>15, StaffStep

(* A request whose provider id is known, or becomes so, goes on with the   *)
(* row r, the document d and the reports x.                                *)
Carried(e, r, d, x) ==
  /\ envelope[e].status # "none" /\ paper[e] # "none"
  /\ envelope[e].known \/ envelope[e].status # "error"
  /\ r \in EnvelopeRow /\ r.known /\ r.package = envelope[e].package /\ r.status # "none"
  /\ d \in PaperStatus \ {"none"} /\ (Closed(e) => d \in Finished)
  /\ x \in SUBSET Events /\ raised[e] \subseteq x
  /\ r.status \in Finished \/ x \cap Finished # {} => d \in Finished

LEMMA CarriedKeeps ==
  ASSUME NEW e, NEW r, NEW d, NEW x, Carried(e, r, d, x),
         envelope'[e] = r, paper'[e] = d, raised'[e] = x
  PROVE  Filed(e)' /\ Steady(e)
  BY DEF Carried, Filed, Steady, Dormant, Closed

LEMMA CarriedStep ==
  ASSUME IInv, BooksMove, UNCHANGED <<leadOpen, authority, taken>>,
         NEW s \in Staff, NEW w \in {Idle} \cup Acting,
         desk' = [desk EXCEPT ![s] = w],
         NEW e \in Envelopes, NEW r, NEW d, NEW x, Carried(e, r, d, x),
         w.phase = "idle" \/ (w.phase \in {"saved", "sending", "answered"} /\ w.envelope = e),
         envelope' = [envelope EXCEPT ![e] = r],
         paper' = [paper EXCEPT ![e] = d],
         raised' = [raised EXCEPT ![e] = x]
  PROVE  IInv'
<1>1. envelope'[e] = r /\ paper'[e] = d /\ raised'[e] = x /\ desk'[s] = w
  BY Typed DEF IInv, RowsTyped
<1>2. Filed(e)' /\ Steady(e)
  BY <1>1, CarriedKeeps
<1>3. Informed(s)'
  BY <1>1 DEF Carried, Informed, Relies, At
<1>4. /\ r \in EnvelopeRow /\ d \in PaperStatus /\ x \in SUBSET Events
      /\ raised[e] \subseteq x /\ paper[e] # "none"
  BY DEF Carried
<1>5. w \in {Idle} \cup Acting \cup Looking /\ w.phase # "creating"
  OBVIOUS
<1> QED BY <1>2, <1>3, <1>4, <1>5, StaffStep

(* The same, while no member of staff moves. *)
LEMMA OutsideStep ==
  ASSUME IInv, BooksMove, UNCHANGED <<leadOpen, authority, desk>>,
         NEW e \in Envelopes, NEW r \in EnvelopeRow, NEW d \in PaperStatus, NEW x \in SUBSET Events,
         envelope' = [envelope EXCEPT ![e] = r],
         paper' = [paper EXCEPT ![e] = d],
         raised' = [raised EXCEPT ![e] = x],
         taken' \in [Envelopes -> SUBSET Events], \A f \in Envelopes : taken'[f] \subseteq raised'[f],
         Filed(e)', Steady(e), d = paper[e] \/ paper[e] # "none"
  PROVE  IInv'
<1>1. \A f \in Envelopes : Steady(f) /\ (f # e => paper'[f] = paper[f])
  <2>1. \A f \in Envelopes : f # e => /\ envelope'[f] = envelope[f] /\ paper'[f] = paper[f]
                                      /\ raised'[f] = raised[f]
    BY EnvelopeSet DEF IInv, RowsTyped
  <2> QED BY <2>1, SameFiled DEF IInv
<1>2. paper'[e] = d /\ desk' \in [Staff -> {Idle} \cup Acting \cup Looking]
  BY DEF IInv, RowsTyped
<1>3. ASSUME NEW t \in Staff PROVE Informed(t)'
  <2>1. ~At(t, "idle") => desk[t].envelope \in Envelopes
    BY DeskTyped DEF IInv
  <2>2. At(t, "creating") => ~At(t, "idle") /\ paper[desk[t].envelope] = "none"
    BY DEF IInv, Informed, Relies, At
  <2>3. At(t, "creating") => paper'[desk[t].envelope] = "none"
    BY <1>1, <1>2, <2>1, <2>2
  <2> QED BY <1>1, <2>1, <2>3, StillInformed DEF IInv
<1> QED BY <1>2, <1>3, RequestStep

LEMMA Rewritten ==
  ASSUME IInv, NEW e \in Envelopes
  PROVE  /\ envelope = [envelope EXCEPT ![e] = envelope[e]]
         /\ paper = [paper EXCEPT ![e] = paper[e]]
         /\ raised = [raised EXCEPT ![e] = raised[e]]
         /\ envelope[e] \in EnvelopeRow /\ paper[e] \in PaperStatus /\ raised[e] \in SUBSET Events
         /\ Filed(e)
  BY Typed DEF IInv, RowsTyped

LEMMA ActingMoves ==
  ASSUME NEW w \in Acting, NEW phase \in {"created", "saved", "sending", "answered"}
  PROVE  LET v == [w EXCEPT !.phase = phase] IN
         v \in Acting /\ v.phase = phase /\ v.envelope = w.envelope
  BY DEF Acting

LEMMA IdlePhase == Idle.phase = "idle"
  BY DEF Idle

LEMMA GiveUpStep ==
  ASSUME IInv, UNCHANGED <<local, paper, raised, taken>>,
         NEW s \in Staff, desk' = [desk EXCEPT ![s] = Idle]
  PROVE  IInv'
<1>1. Informed(s)'
  BY IdleInformed DEF IInv, RowsTyped
<1> QED BY <1>1, IdlePhase, DeskStep

(* The saved draft, the answer to the call that made the document.         *)
LEMMA SaveDraftStep ==
  ASSUME IInv, NEW s \in Staff, SaveDraft(s)
  PROVE  IInv'
<1>1. At(s, "created") /\ ~At(s, "idle") /\ ~At(s, "looking")
  BY DEF SaveDraft, At
<1>2. PICK e \in Envelopes : desk[s].envelope = e
  BY <1>1, Acts
<1>3. paper[e] # "none"
  BY <1>1, <1>2, Acts DEF Relies
<1>4. UNCHANGED <<leadOpen, authority, taken, paper, raised, deal, package>>
  BY DEF SaveDraft
<1>5. CASE envelope[e].status = "creating_draft" /\ ~envelope[e].known
  <2>1. PICK r \in EnvelopeRow :
          /\ envelope' = [envelope EXCEPT ![e] = r]
          /\ r.known /\ r.status = "draft" /\ r.package = envelope[e].package
    <3> DEFINE q == [envelope[e] EXCEPT !.status = "draft", !.known = TRUE]
    <3>1. q \in EnvelopeRow /\ q.known /\ q.status = "draft" /\ q.package = envelope[e].package
      BY Rewritten DEF EnvelopeRow, EnvelopeStatus, Events
    <3>2. envelope' = [envelope EXCEPT ![e] = q]
      BY <1>2, <1>5 DEF SaveDraft
    <3> QED BY <3>1, <3>2
  <2>2. PICK w \in Acting :
          desk' = [desk EXCEPT ![s] = w] /\ w.phase = "saved" /\ w.envelope = e
    <3>1. desk' = [desk EXCEPT ![s] = [desk[s] EXCEPT !.phase = "saved"]]
      BY <1>2, <1>5 DEF SaveDraft
    <3> QED BY <1>1, <1>2, <3>1, DeskTyped, ActingMoves DEF IInv
  <2>3. PICK d \in PaperStatus, x \in SUBSET Events :
          /\ paper' = [paper EXCEPT ![e] = d] /\ raised' = [raised EXCEPT ![e] = x]
          /\ d = paper[e] /\ x = raised[e]
    BY <1>4, Rewritten
  <2>4. Carried(e, r, d, x)
    BY <1>3, <1>5, <2>1, <2>3, Rewritten DEF Carried, Closed, Filed, Finished
  <2>5. BooksMove
    BY <1>4, BooksUnchanged
  <2>6. UNCHANGED <<leadOpen, authority, taken>>
        /\ w \in {Idle} \cup Acting /\ w.phase \in {"saved", "sending", "answered"}
    BY <1>4, <2>2
  <2> QED BY <2>1, <2>2, <2>3, <2>4, <2>5, <2>6, CarriedStep
<1>6. CASE ~(envelope[e].status = "creating_draft" /\ ~envelope[e].known)
  BY <1>2, <1>4, <1>6, GiveUpStep DEF SaveDraft, local
<1> QED BY <1>5, <1>6

LEMMA ResumeStep ==
  ASSUME IInv, NEW s \in Staff, NEW e \in Envelopes, Resume(s, e)
  PROVE  IInv'
<1> DEFINE w == [phase |-> "saved", envelope |-> e]
<1>1. w \in Acting /\ w.phase = "saved" /\ w.envelope = e
  BY DEF Acting
<1>2. /\ desk' = [desk EXCEPT ![s] = w] /\ UNCHANGED <<local, paper, raised, taken>>
      /\ envelope[e].known /\ envelope[e].status = "draft"
  BY DEF Resume
<1> HIDE DEF w
<1>3. desk'[s] = w
  BY <1>2 DEF IInv, RowsTyped
<1>4. Informed(s)'
  BY <1>1, <1>2, <1>3 DEF Informed, Relies, At, local
<1> QED BY <1>1, <1>2, <1>4, DeskStep

LEMMA MarkSendingStep ==
  ASSUME IInv, NEW s \in Staff, MarkSending(s)
  PROVE  IInv'
<1>1. At(s, "saved") /\ ~At(s, "idle") /\ ~At(s, "looking") /\ ~At(s, "creating") /\ ~At(s, "created")
  BY DEF MarkSending, At
<1>2. PICK e \in Envelopes : desk[s].envelope = e
  BY <1>1, Acts
<1>3. envelope[e].known
  BY <1>1, <1>2, Acts DEF Relies
<1>4. UNCHANGED <<leadOpen, authority, taken, paper, raised, deal, package>>
  BY DEF MarkSending
<1> DEFINE p == envelope[e].package
           marks == package[p].status = "sending" /\ envelope[e].status = "draft" /\ Valid(p)
<1>5. CASE marks
  <2>1. PICK r \in EnvelopeRow :
          /\ envelope' = [envelope EXCEPT ![e] = r]
          /\ r.known /\ r.status = "sending" /\ r.package = envelope[e].package
    <3> DEFINE q == [envelope[e] EXCEPT !.status = "sending"]
    <3>1. q \in EnvelopeRow /\ q.known /\ q.status = "sending" /\ q.package = envelope[e].package
      BY <1>3, Rewritten, StatusSet DEF EnvelopeStatus
    <3>2. envelope' = [envelope EXCEPT ![e] = q]
      BY <1>2, <1>5 DEF MarkSending
    <3> QED BY <3>1, <3>2
  <2>2. PICK w \in Acting :
          desk' = [desk EXCEPT ![s] = w] /\ w.phase = "sending" /\ w.envelope = e
    <3>1. desk' = [desk EXCEPT ![s] = [desk[s] EXCEPT !.phase = "sending"]]
      BY <1>2, <1>5 DEF MarkSending
    <3> QED BY <1>1, <1>2, <3>1, DeskTyped, ActingMoves DEF IInv
  <2>3. PICK d \in PaperStatus, x \in SUBSET Events :
          /\ paper' = [paper EXCEPT ![e] = d] /\ raised' = [raised EXCEPT ![e] = x]
          /\ d = paper[e] /\ x = raised[e]
    BY <1>4, Rewritten
  <2>4. envelope[e].status = "draft"
    BY <1>5
  <2>5. Carried(e, r, d, x)
    BY <1>3, <2>1, <2>3, <2>4, Rewritten DEF Carried, Closed, Filed, Finished
  <2>6. BooksMove
    BY <1>4, BooksUnchanged
  <2>7. UNCHANGED <<leadOpen, authority, taken>>
        /\ w \in {Idle} \cup Acting /\ w.phase \in {"saved", "sending", "answered"}
    BY <1>4, <2>2
  <2> QED BY <2>1, <2>2, <2>3, <2>5, <2>6, <2>7, CarriedStep
<1>6. CASE ~marks
  <2>1. desk' = [desk EXCEPT ![s] = Idle] /\ UNCHANGED envelope
    BY <1>2, <1>6 DEF MarkSending
  <2> QED BY <1>4, <2>1, GiveUpStep DEF local
<1> QED BY <1>5, <1>6

(* The provider sends the document, or may have sent it. *)
LEMMA SendStep ==
  ASSUME IInv, NEW s \in Staff, Send(s) \/ SendFails(s)
  PROVE  IInv'
<1>1. /\ ~At(s, "idle") /\ ~At(s, "looking") /\ ~At(s, "creating") /\ ~At(s, "created")
  BY DEF Send, SendFails, At
<1>2. PICK e \in Envelopes : desk[s].envelope = e
  BY <1>1, Acts
<1>3. envelope[e].known /\ envelope[e].status # "none"
  BY <1>1, <1>2, Acts DEF Relies
<1>4. PICK d \in PaperStatus, x \in SUBSET Events :
        /\ paper' = [paper EXCEPT ![e] = d] /\ raised' = [raised EXCEPT ![e] = x]
        /\ \/ d = paper[e] /\ x = raised[e]
           \/ paper[e] = "draft" /\ d = "sent" /\ x = raised[e] \cup {"sent"}
  <2>1. "sent" \in PaperStatus /\ raised[e] \cup {"sent"} \in SUBSET Events
    BY Rewritten DEF PaperStatus, Events
  <2>2. CASE Send(s)
    BY <1>2, <2>1, <2>2 DEF Send
  <2>3. CASE SendFails(s)
    <3>1. PICK made \in {FALSE, paper[e] = "draft"} :
            /\ paper' = IF made THEN [paper EXCEPT ![e] = "sent"] ELSE paper
            /\ raised' = IF made THEN [raised EXCEPT ![e] = @ \cup {"sent"}] ELSE raised
      BY <1>2, <2>3 DEF SendFails
    <3>2. CASE made
      BY <2>1, <3>1, <3>2
    <3>3. CASE ~made
      BY <3>1, <3>3, Rewritten
    <3> QED BY <3>2, <3>3
  <2> QED BY <2>2, <2>3
<1>5. PICK r \in EnvelopeRow :
        /\ envelope' = [envelope EXCEPT ![e] = r]
        /\ r.package = envelope[e].package /\ r.known
        /\ r.status \in {envelope[e].status, "send_uncertain"}
  <2>1. CASE Send(s)
    BY <1>3, <2>1, Rewritten DEF Send, local
  <2>2. CASE SendFails(s)
    <3> DEFINE status == MadeUncertain(envelope[e].status, "sending")
               q == [envelope[e] EXCEPT !.status = status]
    <3>1. envelope' = [envelope EXCEPT ![e] = q]
      BY <1>2, <2>2 DEF SendFails
    <3>2. status \in {envelope[e].status, "send_uncertain"}
      BY DEF MadeUncertain
    <3>3. status \in EnvelopeStatus
      BY <3>2, Rewritten DEF EnvelopeRow, EnvelopeStatus
    <3> HIDE DEF status
    <3>4. q \in EnvelopeRow /\ q.status = status /\ q.package = envelope[e].package /\ q.known
      BY <1>3, <3>3, Rewritten, StatusSet
    <3> HIDE DEF q
    <3> QED BY <3>1, <3>2, <3>4
  <2> QED BY <2>1, <2>2
<1>6. PICK w \in {Idle} \cup Acting :
        /\ desk' = [desk EXCEPT ![s] = w]
        /\ w.phase = "idle" \/ (w.phase = "answered" /\ w.envelope = e)
  <2>1. CASE Send(s)
    <3>1. desk[s] \in Acting
      BY <1>1, DeskTyped DEF IInv
    <3>2. desk' = [desk EXCEPT ![s] = [desk[s] EXCEPT !.phase = "answered"]]
      BY <2>1 DEF Send
    <3> QED BY <1>2, <3>1, <3>2, ActingMoves
  <2>2. CASE SendFails(s)
    BY <2>2, IdlePhase DEF SendFails
  <2> QED BY <2>1, <2>2
<1>7. Carried(e, r, d, x)
  <2>1. /\ paper[e] # "none" /\ raised[e] \in SUBSET Events
        /\ envelope[e].status \in Finished => Closed(e)
        /\ raised[e] \cap Finished # {} => Closed(e)
    BY <1>3, Rewritten DEF Filed
  <2>2. CASE d = paper[e] /\ x = raised[e]
    BY <1>3, <1>5, <2>1, <2>2 DEF Carried, Closed, Finished
  <2>3. CASE paper[e] = "draft" /\ d = "sent" /\ x = raised[e] \cup {"sent"}
    <3>1. ~Closed(e)
      BY <2>3 DEF Closed, Finished
    <3>2. raised[e] \cap Finished = {} /\ envelope[e].status \notin Finished
      BY <2>1, <3>1
    <3>3. x \cap Finished = {} /\ r.status \notin Finished
      BY <1>5, <2>3, <3>2 DEF Finished
    <3> QED BY <1>3, <1>4, <1>5, <2>1, <2>3, <3>1, <3>3 DEF Carried
  <2> QED BY <1>4, <2>2, <2>3
<1>8. UNCHANGED <<leadOpen, authority, taken, deal, package>>
  BY DEF Send, SendFails, local
<1>9. BooksMove
  BY <1>8, BooksUnchanged
<1> QED BY <1>4, <1>5, <1>6, <1>7, <1>8, <1>9, CarriedStep

LEMMA DealStep ==
  ASSUME IInv, package' = package, deal' \in DealStatus, deal' = "cancelled" => deal = "cancelled"
  PROVE  BooksMove
<1>1. package \in [Packages -> PackageRow]
  BY Typed
<1> QED BY <1>1 DEF BooksMove, BooksTyped, BooksRest, Authorized

LEMMA FinalBooks ==
  ASSUME IInv, NEW p \in Packages, package' = FinalPackage(p), deal' = FinalDeal(p)
  PROVE  BooksMove
<1>1. CASE package[p].status = "sending"
  BY <1>1, PackageStep DEF FinalPackage, FinalDeal, DealStatus, PackageStatus, Gone
<1>2. CASE package[p].status # "sending"
  BY <1>2, Typed, DealStep DEF FinalPackage, FinalDeal
<1> QED BY <1>1, <1>2

(* The answer to a send is recorded. *)
LEMMA RecordStep ==
  ASSUME IInv, NEW s \in Staff, Record(s)
  PROVE  IInv' /\ BooksMove
<1>1. ~At(s, "idle") /\ ~At(s, "looking") /\ ~At(s, "creating") /\ ~At(s, "created")
  BY DEF Record, At
<1>2. PICK e \in Envelopes : desk[s].envelope = e
  BY <1>1, Acts
<1>3. envelope[e].known /\ envelope[e].status # "none"
  BY <1>1, <1>2, Acts DEF Relies
<1>4. PICK p \in Packages : envelope[e].package = p
  BY <1>3, Typed
<1> DEFINE unsettled == envelope[e].status \in {"draft", "sending", "send_uncertain"}
<1>5. \/ /\ unsettled
         /\ envelope' = [envelope EXCEPT ![e].status = "send_uncertain"]
         /\ UNCHANGED <<deal, package>>
      \/ /\ envelope' = IF unsettled THEN [envelope EXCEPT ![e].status = "sent"] ELSE envelope
         /\ package' = FinalPackage(p)
         /\ deal' = FinalDeal(p)
      \/ UNCHANGED <<deal, package, envelope>>
  BY <1>2, <1>4 DEF Record
<1>6. BooksMove
  BY <1>5, FinalBooks, BooksUnchanged
<1>7. PICK r \in EnvelopeRow :
        /\ envelope' = [envelope EXCEPT ![e] = r]
        /\ r.package = envelope[e].package /\ r.known
        /\ r.status = envelope[e].status \/ r.status \in {"send_uncertain", "sent"}
  <2>1. ASSUME NEW status \in {"send_uncertain", "sent"},
               envelope' = [envelope EXCEPT ![e].status = status]
        PROVE  \E r \in EnvelopeRow :
                 /\ envelope' = [envelope EXCEPT ![e] = r]
                 /\ r.package = envelope[e].package /\ r.known
                 /\ r.status = status
    <3> DEFINE q == [envelope[e] EXCEPT !.status = status]
    <3>1. envelope' = [envelope EXCEPT ![e] = q]
      BY <2>1
    <3>2. status \in EnvelopeStatus
      BY DEF EnvelopeStatus, Events
    <3>3. q \in EnvelopeRow /\ q.status = status /\ q.package = envelope[e].package /\ q.known
      BY <1>3, <3>2, Rewritten, StatusSet
    <3> HIDE DEF q
    <3> QED BY <3>1, <3>3
  <2>2. CASE UNCHANGED envelope
    BY <1>3, <2>2, Rewritten
  <2> QED BY <1>5, <2>1, <2>2
<1>8. PICK d \in PaperStatus, x \in SUBSET Events :
        /\ paper' = [paper EXCEPT ![e] = d] /\ raised' = [raised EXCEPT ![e] = x]
        /\ d = paper[e] /\ x = raised[e]
  BY Rewritten DEF Record
<1>9. Carried(e, r, d, x)
  BY <1>3, <1>7, <1>8, Rewritten DEF Carried, Closed, Filed, Finished
<1>10. /\ UNCHANGED <<leadOpen, authority, taken>>
       /\ desk' = [desk EXCEPT ![s] = Idle] /\ Idle \in {Idle} \cup Acting
  BY DEF Record
<1> QED BY <1>6, <1>7, <1>8, <1>9, <1>10, CarriedStep, IdlePhase

-----------------------------------------------------------------------------
(* Recovery, and what the provider does on its own. *)

LEMMA CarriedAlone ==
  ASSUME IInv, BooksMove, UNCHANGED <<leadOpen, authority, desk>>,
         NEW e \in Envelopes, NEW r, NEW d, NEW x, Carried(e, r, d, x),
         envelope' = [envelope EXCEPT ![e] = r],
         paper' = [paper EXCEPT ![e] = d],
         raised' = [raised EXCEPT ![e] = x],
         taken' \in [Envelopes -> SUBSET Events], \A f \in Envelopes : taken'[f] \subseteq raised'[f]
  PROVE  IInv'
<1>1. envelope'[e] = r /\ paper'[e] = d /\ raised'[e] = x
  BY Typed DEF IInv, RowsTyped
<1>2. Filed(e)' /\ Steady(e)
  BY <1>1, CarriedKeeps
<1>3. /\ r \in EnvelopeRow /\ d \in PaperStatus /\ x \in SUBSET Events /\ paper[e] # "none"
  BY DEF Carried
<1> QED BY <1>2, <1>3, OutsideStep

LEMMA EventsTyped ==
  IInv => /\ taken \in [Envelopes -> SUBSET Events] /\ raised \in [Envelopes -> SUBSET Events]
          /\ \A f \in Envelopes : taken[f] \subseteq raised[f]
  BY DEF IInv, RowsTyped, TypeOK

LEMMA AttachStep ==
  ASSUME IInv, NEW e \in Envelopes, Attach(e)
  PROVE  IInv' /\ BooksMove
<1>1. /\ UNCHANGED <<leadOpen, authority, desk>> /\ UNCHANGED <<deal, package>>
      /\ UNCHANGED <<paper, raised>> /\ taken' = taken
      /\ envelope[e].status \in Uncertain /\ ~envelope[e].known /\ paper[e] = "draft"
  BY DEF Attach, Recoverable, providerSide
<1>2. PICK r \in EnvelopeRow :
        /\ envelope' = [envelope EXCEPT ![e] = r]
        /\ r.known /\ r.status = "draft" /\ r.package = envelope[e].package
  <2> DEFINE q == [envelope[e] EXCEPT !.status = "draft", !.known = TRUE]
  <2>1. q \in EnvelopeRow /\ q.known /\ q.status = "draft" /\ q.package = envelope[e].package
    BY Rewritten DEF EnvelopeRow, EnvelopeStatus, Events
  <2>2. envelope' = [envelope EXCEPT ![e] = q]
    BY DEF Attach
  <2> QED BY <2>1, <2>2
<1>3. PICK d \in PaperStatus, x \in SUBSET Events :
        /\ paper' = [paper EXCEPT ![e] = d] /\ raised' = [raised EXCEPT ![e] = x]
        /\ d = paper[e] /\ x = raised[e]
  BY <1>1, Rewritten
<1>4. Carried(e, r, d, x)
  BY <1>1, <1>2, <1>3, Rewritten DEF Carried, Closed, Filed, Finished, Uncertain
<1>5. taken' \in [Envelopes -> SUBSET Events] /\ \A f \in Envelopes : taken'[f] \subseteq raised'[f]
  BY <1>1, EventsTyped
<1>6. BooksMove
  BY <1>1, BooksUnchanged
<1>7. UNCHANGED <<leadOpen, authority, desk>>
  BY <1>1
<1> QED BY <1>2, <1>3, <1>4, <1>5, <1>6, <1>7, CarriedAlone

LEMMA AbandonStep ==
  ASSUME IInv, NEW e \in Envelopes, Abandon(e)
  PROVE  IInv' /\ BooksMove
<1>1. /\ UNCHANGED <<leadOpen, authority, desk>> /\ deal' = deal
      /\ UNCHANGED <<paper, raised>> /\ taken' = taken
      /\ envelope[e].status \in Uncertain /\ ~envelope[e].known /\ paper[e] = "none"
  BY DEF Abandon, Recoverable, providerSide
<1>2. PICK p \in Packages : envelope[e].package = p
  BY <1>1, Typed DEF Uncertain
<1>3. BooksMove
  <2>1. package[p].status = "sending" /\ package' = [package EXCEPT ![p].status = "approved"]
    BY <1>2 DEF Abandon, Recoverable, SetPackage
  <2> QED BY <1>1, <2>1, Typed, PackageStep DEF PackageStatus, Gone
<1>4. PICK r \in EnvelopeRow :
        /\ envelope' = [envelope EXCEPT ![e] = r]
        /\ ~r.known /\ r.status = "error" /\ r.package = envelope[e].package
  <2> DEFINE q == [envelope[e] EXCEPT !.status = "error"]
  <2>1. q \in EnvelopeRow /\ ~q.known /\ q.status = "error" /\ q.package = envelope[e].package
    BY <1>1, Rewritten, StatusSet DEF EnvelopeStatus, Events, PaperFailures
  <2>2. envelope' = [envelope EXCEPT ![e] = q]
    BY DEF Abandon
  <2> QED BY <2>1, <2>2
<1>5. PICK d \in PaperStatus, x \in SUBSET Events :
        /\ paper' = [paper EXCEPT ![e] = d] /\ raised' = [raised EXCEPT ![e] = x]
        /\ d = paper[e] /\ x = raised[e]
  BY <1>1, Rewritten
<1>6. envelope'[e] = r /\ paper'[e] = paper[e] /\ raised'[e] = raised[e]
  BY <1>1, <1>4, Typed
<1>7. ~Closed(e) /\ raised[e] \cap Finished = {}
  BY <1>1, Rewritten DEF Filed, Closed, Finished
<1>8. Filed(e)'
  BY <1>1, <1>4, <1>6, <1>7 DEF Filed, Signable
<1>9. Steady(e)
  BY <1>1, <1>4, <1>6, <1>7 DEF Steady, Dormant, Uncertain
<1>10. taken' \in [Envelopes -> SUBSET Events] /\ \A f \in Envelopes : taken'[f] \subseteq raised'[f]
  BY <1>1, EventsTyped
<1>11. UNCHANGED <<leadOpen, authority, desk>>
  BY <1>1
<1> QED BY <1>3, <1>4, <1>5, <1>8, <1>9, <1>10, <1>11, OutsideStep

LEMMA PaperMovesStep ==
  ASSUME IInv, NEW e \in Envelopes, NEW event \in Events, PaperMoves(e, event)
  PROVE  IInv' /\ BooksMove
<1>1. /\ UNCHANGED <<leadOpen, authority, desk>> /\ UNCHANGED <<deal, package, envelope>>
      /\ taken' = taken
  BY DEF PaperMoves, local
<1>2. /\ paper[e] \in {"draft", "sent", "viewed"}
      /\ event \in {"viewed", "bounced", "completed"} \cup PaperFailures
      /\ paper[e] = "draft" => event \in {"cancelled", "error"}
  <2>1. paper[e] \in DOMAIN Moves /\ event \in Moves[paper[e]]
    BY DEF PaperMoves
  <2>2. paper[e] \in {"draft", "sent", "viewed"}
    BY <2>1 DEF Moves
  <2>3. /\ Moves.draft = {"cancelled", "error"}
        /\ Moves.sent = {"viewed", "bounced", "completed"} \cup PaperFailures
        /\ Moves.viewed = {"completed"} \cup PaperFailures
    BY DEF Moves
  <2>4. {"cancelled", "error"} \subseteq PaperFailures
    BY DEF PaperFailures
  <2> QED BY <2>1, <2>2, <2>3, <2>4
<1>3. PICK r \in EnvelopeRow : envelope' = [envelope EXCEPT ![e] = r] /\ r = envelope[e]
  BY <1>1, Rewritten
<1>4. PICK d \in PaperStatus, x \in SUBSET Events :
        /\ paper' = [paper EXCEPT ![e] = d] /\ raised' = [raised EXCEPT ![e] = x]
        /\ d = IF event = "bounced" THEN paper[e] ELSE event
        /\ x = raised[e] \cup {event}
  BY <1>2, Rewritten DEF PaperMoves, PaperStatus, PaperFailures, Finished
<1>5. envelope'[e] = envelope[e] /\ paper'[e] = d /\ raised'[e] = x
  BY <1>1, <1>4 DEF IInv, RowsTyped
<1>6. /\ ~Closed(e) /\ d # "none"
      /\ paper[e] = "draft" => d \in {"cancelled", "error"}
      /\ x \cap Finished # {} => raised[e] \cap Finished # {} \/ d \in Finished
  BY <1>2, <1>4 DEF Closed, Finished, PaperFailures
<1>7. Filed(e)'
  <2>1. Filed(e)
    BY Rewritten
  <2>2. envelope[e].status # "none" /\ (~envelope[e].known => paper[e] = "draft")
    BY <1>2, <2>1 DEF Filed, Signable
  <2> QED BY <1>5, <1>6, <2>1, <2>2 DEF Filed, Closed, Signable, Finished
<1>8. Steady(e)
  BY <1>5, <1>6 DEF Steady, Dormant
<1>9. taken' \in [Envelopes -> SUBSET Events] /\ \A f \in Envelopes : taken'[f] \subseteq raised'[f]
  <2>1. \A f \in Envelopes : raised[f] \subseteq raised'[f]
    BY <1>4, EventsTyped
  <2> QED BY <1>1, <2>1, EventsTyped
<1>10. BooksMove
  BY <1>1, BooksUnchanged
<1>11. UNCHANGED <<leadOpen, authority, desk>> /\ paper[e] # "none"
  BY <1>1, <1>2
<1> QED BY <1>3, <1>4, <1>7, <1>8, <1>9, <1>10, <1>11, OutsideStep

-----------------------------------------------------------------------------
(* What the provider's reports do. *)

LEMMA ApplyBooks ==
  ASSUME IInv, NEW e \in Envelopes, NEW p \in Packages, envelope[e].package = p,
         NEW event, NEW seen, Apply(e, event, seen)
  PROVE  BooksMove
<1>1. CASE event = "completed" /\ Quarantined(p)
  <2>1. Quarantine(e)
    BY <1>1 DEF Apply
  <2>2. CASE UNCHANGED <<deal, package>>
    BY <2>2, BooksUnchanged
  <2>3. CASE ~UNCHANGED <<deal, package>>
    <3>1. /\ package' = IF package[p].status \in {"approved", "sending"}
                        THEN [package EXCEPT ![p].status = "sent"] ELSE package
          /\ deal' = IF Open THEN "sent" ELSE deal
      BY <2>1, <2>3 DEF Quarantine
    <3>2. deal' \in DealStatus /\ (deal' = "cancelled" => deal = "cancelled")
      BY <3>1, Typed DEF DealStatus
    <3>3. CASE package[p].status \in {"approved", "sending"}
      BY <3>1, <3>2, <3>3, PackageStep DEF PackageStatus, Gone
    <3>4. CASE package[p].status \notin {"approved", "sending"}
      BY <3>1, <3>2, <3>4, DealStep
    <3> QED BY <3>3, <3>4
  <2> QED BY <2>2, <2>3
<1>2. CASE event = "completed" /\ ~Quarantined(p)
  <2>1. Complete(e)
    BY <1>2 DEF Apply
  <2>2. CASE UNCHANGED <<deal, package>>
    BY <2>2, BooksUnchanged
  <2>3. CASE ~UNCHANGED <<deal, package>>
    <3>1. package' = [package EXCEPT ![p].status = "executed"] /\ deal' = "executed"
      BY <2>1, <2>3 DEF Complete, SetPackage
    <3>2. Valid(p) /\ Open /\ leadOpen
      BY <1>2 DEF Quarantined
    <3> QED BY <3>1, <3>2, PackageStep DEF PackageStatus, DealStatus, Gone
  <2> QED BY <2>2, <2>3
<1>3. CASE event # "completed" /\ event \in PaperFailures
  <2>1. Release(e, event, seen)
    BY <1>3 DEF Apply
  <2> DEFINE releases == seen \notin Finished /\ package[p].status \in {"sending", "sent"}
  <2>2. /\ package' = IF releases THEN [package EXCEPT ![p].status = "approved"] ELSE package
        /\ deal' \in {deal, "contract_prep"} /\ (~releases => deal' = deal)
    BY <2>1 DEF Release, FinalDeal, Late, Finished
  <2>3. deal' \in DealStatus /\ (deal' = "cancelled" => deal = "cancelled")
    BY <2>2, Typed DEF DealStatus
  <2>4. CASE releases
    BY <2>2, <2>3, <2>4, PackageStep DEF PackageStatus, Gone
  <2>5. CASE ~releases
    BY <2>2, <2>3, <2>5, DealStep
  <2> QED BY <2>4, <2>5
<1>4. CASE event # "completed" /\ event \notin PaperFailures
  <2>1. \/ package' = FinalPackage(p) /\ deal' = FinalDeal(p)
        \/ UNCHANGED <<deal, package>>
    BY <1>4 DEF Apply
  <2> QED BY <2>1, FinalBooks, BooksUnchanged
<1> QED BY <1>1, <1>2, <1>3, <1>4

(* The request keeps its package and its provider id; it is finished only  *)
(* once its document is closed.                                            *)
LEMMA ApplyRow ==
  ASSUME IInv, NEW e \in Envelopes, envelope[e].known,
         NEW event \in Events, event \in Finished => Closed(e),
         NEW seen, Apply(e, event, seen)
  PROVE  \E r \in EnvelopeRow :
           /\ envelope' = [envelope EXCEPT ![e] = r]
           /\ r.known /\ r.package = envelope[e].package /\ r.status # "none"
           /\ r.status \in Finished => Closed(e)
<1>1. /\ envelope[e].status # "none" /\ (envelope[e].status \in Finished => Closed(e))
      /\ event \in EnvelopeStatus /\ event # "none"
  BY Rewritten DEF Filed, EnvelopeStatus, Events, PaperFailures
<1>2. CASE UNCHANGED envelope
  BY <1>1, <1>2, Rewritten
<1>3. ASSUME NEW status \in {envelope[e].status, event},
             envelope' = [envelope EXCEPT ![e].status = status]
      PROVE  \E r \in EnvelopeRow :
               /\ envelope' = [envelope EXCEPT ![e] = r]
               /\ r.known /\ r.package = envelope[e].package /\ r.status # "none"
               /\ r.status \in Finished => Closed(e)
  <2> DEFINE q == [envelope[e] EXCEPT !.status = status]
  <2>1. envelope' = [envelope EXCEPT ![e] = q]
    BY <1>3
  <2>2. status \in EnvelopeStatus
    BY <1>1, Rewritten DEF EnvelopeRow
  <2>3. q \in EnvelopeRow /\ q.status = status /\ q.package = envelope[e].package /\ q.known
    BY <2>2, Rewritten, StatusSet
  <2> HIDE DEF q
  <2> QED BY <1>1, <2>1, <2>3
<1>4. ASSUME NEW filed \in {"quarantined", "executed"}, event = "completed",
             envelope' = [envelope EXCEPT ![e] = [@ EXCEPT !.status = "completed", !.filed = filed]]
      PROVE  \E r \in EnvelopeRow :
               /\ envelope' = [envelope EXCEPT ![e] = r]
               /\ r.known /\ r.package = envelope[e].package /\ r.status # "none"
               /\ r.status \in Finished => Closed(e)
  <2> DEFINE q == [envelope[e] EXCEPT !.status = "completed", !.filed = filed]
  <2>1. envelope' = [envelope EXCEPT ![e] = q]
    BY <1>4
  <2>2. q \in EnvelopeRow /\ q.status = "completed" /\ q.package = envelope[e].package /\ q.known
    BY <1>1, <1>4, Rewritten DEF EnvelopeRow
  <2> HIDE DEF q
  <2> QED BY <1>1, <1>4, <2>1, <2>2 DEF Finished
<1>5. CASE event = "completed"
  <2>1. Quarantine(e) \/ Complete(e)
    BY <1>5 DEF Apply
  <2> QED BY <1>2, <1>3, <1>4, <1>5, <2>1 DEF Quarantine, Complete
<1>6. CASE event # "completed"
  <2>1. envelope' = [envelope EXCEPT ![e].status = IF event = seen THEN @ ELSE event]
    BY <1>6 DEF Apply, Release
  <2>2. PICK status \in {envelope[e].status, event} :
          envelope' = [envelope EXCEPT ![e].status = status]
    BY <2>1
  <2> QED BY <1>3, <2>2
<1> QED BY <1>5, <1>6

LEMMA WebhookStep ==
  ASSUME IInv, NEW e \in Envelopes, NEW event \in Events, Webhook(e, event)
  PROVE  IInv' /\ BooksMove
<1>1. /\ event \in raised[e] /\ envelope[e].known
      /\ UNCHANGED <<leadOpen, authority, desk>> /\ UNCHANGED <<paper, raised>>
      /\ taken' = [taken EXCEPT ![e] = @ \cup {event}]
  BY DEF Webhook
<1>2. /\ paper[e] # "none" /\ envelope[e].status # "none"
      /\ envelope[e].status \in Finished => Closed(e)
      /\ event \in Finished => Closed(e)
  BY <1>1, Rewritten DEF Filed
<1>3. PICK p \in Packages : envelope[e].package = p
  BY <1>2, Typed
<1>4. \/ UNCHANGED <<deal, package, envelope>>
      \/ \E seen \in EnvelopeStatus : Apply(e, event, seen)
  BY <1>1, Rewritten DEF Webhook, EnvelopeRow
<1>5. BooksMove
  BY <1>3, <1>4, ApplyBooks, BooksUnchanged
<1>6. PICK r \in EnvelopeRow :
        /\ envelope' = [envelope EXCEPT ![e] = r]
        /\ r.known /\ r.package = envelope[e].package /\ r.status # "none"
        /\ r.status \in Finished => Closed(e)
  <2>1. CASE UNCHANGED <<deal, package, envelope>>
    BY <1>1, <1>2, <2>1, Rewritten
  <2>2. CASE \E seen \in EnvelopeStatus : Apply(e, event, seen)
    BY <1>1, <1>2, <2>2, ApplyRow
  <2> QED BY <1>4, <2>1, <2>2
<1>7. PICK d \in PaperStatus, x \in SUBSET Events :
        /\ paper' = [paper EXCEPT ![e] = d] /\ raised' = [raised EXCEPT ![e] = x]
        /\ d = paper[e] /\ x = raised[e]
  BY <1>1, Rewritten
<1>8. Carried(e, r, d, x)
  BY <1>1, <1>2, <1>6, <1>7, Rewritten DEF Carried, Closed, Filed
<1>9. taken' \in [Envelopes -> SUBSET Events] /\ \A f \in Envelopes : taken'[f] \subseteq raised'[f]
  BY <1>1, EventsTyped
<1>10. UNCHANGED <<leadOpen, authority, desk>>
  BY <1>1
<1> QED BY <1>5, <1>6, <1>7, <1>8, <1>9, <1>10, CarriedAlone

(* Reconciling: the report is asked for, and applied later. *)
LEMMA LookStep ==
  ASSUME IInv, NEW s \in Staff, NEW e \in Envelopes, Look(s, e)
  PROVE  IInv'
<1>1. /\ UNCHANGED <<local, paper, raised, taken>> /\ envelope[e].known
      /\ paper[e] # "none" /\ envelope[e].status # "none"
      /\ envelope[e].status \in EnvelopeStatus /\ paper[e] \in PaperStatus
  BY Rewritten DEF Look, Filed, EnvelopeRow
<1>2. PICK seen \in EnvelopeStatus, report \in PaperStatus \ {"none"} :
        seen = envelope[e].status /\ report = paper[e]
  BY <1>1
<1>3. PICK w \in Looking :
        /\ w.phase = "looking" /\ w.envelope = e /\ w.report = report
        /\ desk' = [desk EXCEPT ![s] = w]
  <2> DEFINE v == [phase |-> "looking", envelope |-> e, seen |-> seen, report |-> report]
  <2>1. v \in Looking /\ v.phase = "looking" /\ v.envelope = e /\ v.report = report
    BY DEF Looking
  <2>2. desk' = [desk EXCEPT ![s] = v]
    BY <1>2 DEF Look
  <2> QED BY <2>1, <2>2
<1>4. desk'[s] = w
  BY <1>3 DEF IInv, RowsTyped
<1>5. Informed(s)'
  BY <1>1, <1>2, <1>3, <1>4 DEF Informed, Relies, At, local, Closed
<1> QED BY <1>1, <1>3, <1>5, DeskStep

LEMMA ReconcileStep ==
  ASSUME IInv, NEW s \in Staff, Reconcile(s)
  PROVE  IInv' /\ BooksMove
<1>1. At(s, "looking") /\ ~At(s, "idle") /\ ~At(s, "creating") /\ ~At(s, "created")
  BY DEF Reconcile, At
<1>2. PICK e \in Envelopes : desk[s].envelope = e
  BY <1>1, Acts
<1>3. desk[s] \in Looking
  BY <1>1, DeskTyped DEF IInv
<1>4. PICK seen \in EnvelopeStatus, report \in PaperStatus \ {"none"} :
        desk[s].seen = seen /\ desk[s].report = report
  BY <1>3 DEF Looking
<1>5. envelope[e].known /\ envelope[e].status # "none" /\ (report \in Finished => Closed(e))
  BY <1>1, <1>2, <1>4, Acts DEF Relies
<1>6. /\ paper[e] # "none" /\ (envelope[e].status \in Finished => Closed(e))
      /\ report \in Events
  BY <1>5, Rewritten DEF Filed, PaperStatus, Events, Finished, PaperFailures
<1>7. PICK p \in Packages : envelope[e].package = p
  BY <1>5, Typed
<1>8. UNCHANGED <<deal, package, envelope>> \/ Apply(e, report, seen)
  BY <1>2, <1>4 DEF Reconcile
<1>9. BooksMove
  BY <1>7, <1>8, ApplyBooks, BooksUnchanged
<1>10. PICK r \in EnvelopeRow :
        /\ envelope' = [envelope EXCEPT ![e] = r]
        /\ r.known /\ r.package = envelope[e].package /\ r.status # "none"
        /\ r.status \in Finished => Closed(e)
  <2>1. CASE UNCHANGED <<deal, package, envelope>>
    BY <1>5, <1>6, <2>1, Rewritten
  <2>2. CASE Apply(e, report, seen)
    BY <1>5, <1>6, <2>2, ApplyRow
  <2> QED BY <1>8, <2>1, <2>2
<1>11. PICK d \in PaperStatus, x \in SUBSET Events :
        /\ paper' = [paper EXCEPT ![e] = d] /\ raised' = [raised EXCEPT ![e] = x]
        /\ d = paper[e] /\ x = raised[e]
  BY Rewritten DEF Reconcile
<1>12. Carried(e, r, d, x)
  BY <1>5, <1>6, <1>10, <1>11, Rewritten DEF Carried, Closed, Filed
<1>13. /\ UNCHANGED <<leadOpen, authority, taken>>
       /\ desk' = [desk EXCEPT ![s] = Idle] /\ Idle \in {Idle} \cup Acting
  BY DEF Reconcile
<1> QED BY <1>9, <1>10, <1>11, <1>12, <1>13, CarriedStep, IdlePhase

-----------------------------------------------------------------------------
(* Reserving: a request comes into use for a package none of whose other   *)
(* requests is live, so all of them are dormant.                           *)

LEMMA ReserveStep ==
  ASSUME IInv, NEW s \in Staff, NEW p \in Packages, NEW e \in Envelopes, Reserve(s, p, e)
  PROVE  IInv' /\ BooksMove
<1>1. /\ At(s, "idle") /\ LiveOf(p) = {} /\ package[p].status = "approved"
      /\ envelope[e].status = "none" /\ deal' = deal
      /\ package' = [package EXCEPT ![p].status = "sending"]
      /\ UNCHANGED <<leadOpen, authority>> /\ UNCHANGED <<paper, raised>> /\ taken' = taken
  BY DEF Reserve, SetPackage
<1>2. BooksMove
  BY <1>1, Typed, PackageStep DEF PackageStatus, Gone
<1>3. PICK r \in EnvelopeRow :
        /\ envelope' = [envelope EXCEPT ![e] = r]
        /\ r.status = "creating_draft" /\ r.package = p /\ r.known = envelope[e].known
  <2> DEFINE q == [envelope[e] EXCEPT !.status = "creating_draft", !.package = p]
  <2>1. q \in EnvelopeRow /\ q.status = "creating_draft" /\ q.package = p
        /\ q.known = envelope[e].known
    BY Rewritten DEF EnvelopeRow, EnvelopeStatus, Uncertain
  <2>2. envelope' = [envelope EXCEPT ![e] = q]
    BY DEF Reserve
  <2> QED BY <2>1, <2>2
<1>4. PICK w \in Acting : w.phase = "creating" /\ w.envelope = e /\ desk' = [desk EXCEPT ![s] = w]
  <2> DEFINE v == [phase |-> "creating", envelope |-> e]
  <2>1. v \in Acting /\ v.phase = "creating" /\ v.envelope = e
    BY DEF Acting
  <2>2. desk' = [desk EXCEPT ![s] = v]
    BY DEF Reserve
  <2> QED BY <2>1, <2>2
<1>5. /\ envelope' \in [Envelopes -> EnvelopeRow] /\ envelope'[e] = r
      /\ \A f \in Envelopes : f # e => envelope'[f] = envelope[f]
  BY <1>3, EnvelopeSet
<1>6. /\ desk' \in [Staff -> {Idle} \cup Acting \cup Looking]
      /\ desk'[s] = w /\ \A t \in Staff : t # s => desk'[t] = desk[t]
  BY <1>4 DEF IInv, RowsTyped
<1>7. RowsTyped'
  <2>1. \A f \in Envelopes : envelope'[f].status # "none" => envelope'[f].package \in Packages
    BY <1>3, <1>5, Typed
  <2>2. TypeOK'
    BY <1>1, <1>2, <1>5, <2>1, Typed, EventsTyped
    DEF TypeOK, BooksMove, BooksTyped, DealStatus, PackageRow, EnvelopeRow
  <2>3. UNCHANGED <<paper, raised, taken>>
    BY <1>1
  <2> QED BY <1>6, <2>2, <2>3 DEF IInv, RowsTyped
<1>8. paper[e] = "none" /\ ~envelope[e].known /\ raised[e] \cap Finished = {}
  BY <1>1, Rewritten DEF Filed, Closed, Finished
<1>9. ASSUME NEW f \in Envelopes PROVE Filed(f)'
  <2>1. CASE f = e
    BY <1>1, <1>3, <1>5, <1>8, <2>1 DEF Filed, Signable, Uncertain
  <2>2. CASE f # e
    BY <1>1, <1>5, <2>2, SameFiled DEF IInv
  <2> QED BY <2>1, <2>2
<1>10. ASSUME NEW t \in Staff PROVE Informed(t)'
  <2>1. CASE t = s
    <3>1. \A u \in Staff : (At(u, "creating") /\ desk[u].envelope = e)' => u = s
      <4> SUFFICES ASSUME NEW u \in Staff, (At(u, "creating") /\ desk[u].envelope = e)', u # s
                   PROVE  FALSE
        OBVIOUS
      <4>1. At(u, "creating") /\ ~At(u, "idle") /\ desk[u].envelope = e
        BY <1>6 DEF At
      <4> QED BY <1>1, <4>1, Acts DEF Relies
    <3>2. /\ envelope'[e].status # "none" /\ paper'[e] = "none"
          /\ desk'[s].phase = "creating" /\ desk'[s].envelope = e
      BY <1>1, <1>3, <1>4, <1>5, <1>6, <1>8
    <3> QED BY <2>1, <3>1, <3>2 DEF Informed, Relies, At
  <2>2. CASE t # s /\ ~At(t, "idle")
    <3>1. PICK f \in Envelopes : desk[t].envelope = f
      BY <2>2, Acts
    <3>2. Relies(t, f) /\ envelope[f].status # "none"
      BY <2>2, <3>1, Acts DEF Relies
    <3>3. f # e
      BY <1>1, <3>2
    <3>4. envelope'[f] = envelope[f] /\ paper'[f] = paper[f] /\ desk'[t] = desk[t]
      BY <1>1, <1>5, <1>6, <2>2, <3>3
    <3>5. \A u \in Staff : (At(u, "creating") /\ desk[u].envelope = f)'
                             => At(u, "creating") /\ desk[u].envelope = f
      BY <1>4, <1>6, <3>3 DEF At
    <3> QED BY <3>1, <3>2, <3>4, <3>5 DEF Informed, Relies, At, Closed
  <2>3. CASE t # s /\ At(t, "idle")
    BY <1>6, <2>3 DEF Informed, At
  <2> QED BY <2>1, <2>2, <2>3
<1>11. Single'
  <2>1. ASSUME NEW f \in Envelopes, f # e, envelope[f].status # "none", envelope[f].package = p
        PROVE  Dormant(f)'
    <3>1. ~Live(f)
      BY <1>1, <2>1 DEF LiveOf
    <3>2. Dormant(f)
      BY <2>1, <3>1, NotLive
    <3> QED BY <1>1, <1>5, <2>1, <3>2 DEF Dormant, Closed
  <2>2. ASSUME NEW q \in Packages, NEW f \in Drafted(q)', NEW g \in Drafted(q)', f # g
        PROVE  Dormant(f)' \/ Dormant(g)'
    <3>1. f \in Envelopes /\ g \in Envelopes
      BY DEF Drafted
    <3>2. CASE f = e
      BY <1>3, <1>5, <2>1, <2>2, <3>1, <3>2 DEF Drafted
    <3>3. CASE g = e
      BY <1>3, <1>5, <2>1, <2>2, <3>1, <3>3 DEF Drafted
    <3>4. CASE f # e /\ g # e
      <4>1. f \in Drafted(q) /\ g \in Drafted(q)
        BY <1>5, <3>1, <3>4 DEF Drafted
      <4>2. Dormant(f) \/ Dormant(g)
        BY <2>2, <4>1 DEF IInv, Single
      <4> QED BY <1>1, <1>5, <3>1, <3>4, <4>2 DEF Dormant, Closed
    <3> QED BY <3>2, <3>3, <3>4
  <2> QED BY <2>2 DEF Single
<1>12. Retired'
  BY <1>1 DEF IInv, Retired, Gone
<1> QED BY <1>2, <1>7, <1>9, <1>10, <1>11, <1>12 DEF IInv

-----------------------------------------------------------------------------
(* The specification. *)

LEMMA InitHolds ==
  ASSUME Instance, Init
  PROVE  IInv
<1>1. RowsTyped
  <2>1. 1 \in 1..MaxAuthority /\ 0 \in 0..MaxAuthority
    BY DEF Instance
  <2>2. TypeOK
    BY <2>1 DEF Init, TypeOK, EnvelopeStatus, PackageStatus
  <2> QED BY <2>2 DEF Init, RowsTyped, PaperStatus
<1>2. \A e \in Envelopes : Filed(e)
  BY DEF Init, Filed, Signable, Finished
<1>3. \A s \in Staff : Informed(s)
  BY DEF Init, Informed, At, Idle
<1>4. Single
  BY DEF Init, Single, Drafted
<1>5. Retired
  BY DEF Init, Retired
<1> QED BY <1>1, <1>2, <1>3, <1>4, <1>5 DEF IInv

LEMMA NextHolds ==
  ASSUME Instance, IInv, Next
  PROVE  IInv' /\ \A p \in Packages : Authorized(p)
<1>1. CASE NewAuthority \/ RequestPlan \/ ArchiveLead \/ RestoreLead
  BY <1>1, SurroundingsStep DEF BooksMove
<1>2. CASE Fund
  <2>1. PICK p \in Packages : package[p].status = "executed"
    BY <1>2 DEF Fund
  <2> QED BY <1>2, BookStep DEF BooksMove
<1>3. CASE Cancel
  BY <1>3, CancelStep
<1>4. CASE \E p \in Packages :
             \/ CreatePackage(p) \/ RequestApproval(p) \/ MarkSent(p) \/ Withdraw(p)
             \/ MarkExecuted(p) \/ ImportExecuted(p)
             \/ \E decision \in {"approved", "draft", "void"} : Decide(p, decision)
  BY <1>4, BookStep DEF BooksMove
<1>5. CASE \E s \in Staff, p \in Packages, e \in Envelopes : Reserve(s, p, e)
  BY <1>5, ReserveStep DEF BooksMove
<1>6. ASSUME NEW s \in Staff, Create(s) \/ CreateFails(s) \/ SaveDraft(s) \/ MarkSending(s)
             \/ Send(s) \/ SendFails(s) \/ Crash(s) \/ \E e \in Envelopes : Resume(s, e) \/ Look(s, e)
      PROVE  IInv' /\ BooksMove
  <2>1. UNCHANGED <<deal, package>>
    BY <1>6 DEF Create, CreateFails, SaveDraft, MarkSending, Send, SendFails, Crash, Resume, Look,
       local
  <2>2. BooksMove
    BY <2>1, BooksUnchanged
  <2>3. CASE Crash(s)
    BY <2>2, <2>3, GiveUpStep DEF Crash
  <2>4. CASE ~Crash(s)
    BY <1>6, <2>2, <2>4, CreateStep, SaveDraftStep, MarkSendingStep, SendStep, ResumeStep,
       LookStep
  <2> QED BY <2>2, <2>3, <2>4
<1>7. CASE \E s \in Staff : Record(s) \/ Reconcile(s)
  BY <1>7, RecordStep, ReconcileStep DEF BooksMove
<1>8. CASE \E e \in Envelopes :
             \/ Attach(e) \/ Abandon(e)
             \/ \E event \in Events : PaperMoves(e, event) \/ Webhook(e, event)
  BY <1>8, AttachStep, AbandonStep, PaperMovesStep, WebhookStep DEF BooksMove
<1> QED BY <1>1, <1>2, <1>3, <1>4, <1>5, <1>6, <1>7, <1>8 DEF Next, BooksMove

LEMMA StutterHolds ==
  ASSUME IInv, UNCHANGED contractVars
  PROVE  IInv' /\ \A p \in Packages : Authorized(p)
<1>1. UNCHANGED <<deal, package>> /\ UNCHANGED Sides /\ UNCHANGED <<leadOpen, authority>>
  BY DEF contractVars, Sides
<1>2. BooksMove
  BY <1>1, BooksUnchanged
<1> QED BY <1>1, <1>2, Typed, LocalStep DEF BooksMove, Sides

(* IInv is an inductive invariant of one transaction.                      *)
LEMMA Invariance == ASSUME Instance PROVE Spec => []IInv
<1>1. Init => IInv
  BY InitHolds
<1>2. IInv /\ [Next]_contractVars => IInv'
  BY NextHolds, StutterHolds
<1> QED BY <1>1, <1>2, PTL DEF Spec

(* Whatever can still be signed belongs to a transaction that is not       *)
(* cancelled, and has an open request that holds its provider id: a        *)
(* creation whose answer is lost, a send that fails halfway, a webhook     *)
(* that comes first and a manager who cancels never leave a document with  *)
(* the seller that no event or reconciliation can reach.                   *)
THEOREM SignableStaysTracked ==
  ASSUME Instance PROVE Spec => []SignableIsTracked
<1>1. IInv => SignableIsTracked
  <2> SUFFICES ASSUME IInv, NEW e \in Envelopes, Signable(e)
               PROVE  Live(e) /\ envelope[e].known /\ deal # "cancelled"
    BY DEF SignableIsTracked, IInv, RowsTyped
  <2>1. ~Closed(e) /\ paper[e] # "none"
    BY DEF Signable, Closed, Finished
  <2>2. envelope[e].known /\ envelope[e].status \notin Finished \cup {"none"}
    BY <2>1, Rewritten DEF Filed
  <2>3. ~Dormant(e)
    BY <2>1, <2>2 DEF Dormant
  <2> QED BY <2>2, <2>3 DEF IInv, Retired, Live
<1> QED BY <1>1, Invariance, PTL

(* No seller ever holds two documents of one package that can be signed:   *)
(* a second request is reserved only when every earlier one is dormant,    *)
(* and a dormant request never has a document that can be signed again.    *)
THEOREM OneDocumentOut ==
  ASSUME Instance PROVE Spec => []OneSignable
<1>1. IInv => OneSignable
  <2> SUFFICES ASSUME IInv, NEW e \in Envelopes, NEW f \in Envelopes, e # f,
                      Signable(e), Signable(f)
               PROVE  envelope[e].package # envelope[f].package
    BY DEF OneSignable, IInv, RowsTyped
  <2>1. ASSUME NEW g \in Envelopes, Signable(g)
        PROVE  envelope[g].status # "none" /\ ~Dormant(g)
    <3>1. ~Closed(g) /\ paper[g] # "none"
      BY <2>1 DEF Signable, Closed, Finished
    <3> QED BY <2>1, <3>1, Rewritten DEF Filed, Dormant
  <2>2. e \in Drafted(envelope[e].package) /\ envelope[e].package \in Packages
    BY <2>1, Typed DEF Drafted
  <2>3. f \in Drafted(envelope[f].package)
    BY <2>1 DEF Drafted
  <2> QED BY <2>1, <2>2, <2>3 DEF IInv, Single
<1> QED BY <1>1, Invariance, PTL

(* A package that is out for signature is executed only on the authority   *)
(* it was drafted on, while the transaction and the lead are open: a late  *)
(* webhook or reconciliation of a completed document, and a manager who    *)
(* marks the contract executed, are held to the same terms.                *)
THEOREM ExecutionsAreAuthorized ==
  ASSUME Instance PROVE Spec => ExecutedOnAuthority
<1> DEFINE Step == \A p \in DOMAIN package :
                     (package[p].status \notin {"none", "executed"}
                        /\ package'[p].status = "executed")
                       => Valid(p) /\ Open /\ leadOpen
<1>1. IInv /\ [Next]_contractVars => Step
  <2> SUFFICES ASSUME IInv, [Next]_contractVars PROVE Step
    OBVIOUS
  <2>1. \A p \in Packages : Authorized(p)
    BY NextHolds, StutterHolds
  <2>2. DOMAIN package = Packages
    BY Typed
  <2> QED BY <2>1, <2>2 DEF Authorized
<1>2. IInv /\ [Next]_contractVars => [Step]_contractVars
  BY <1>1
<1>3. Spec => [][Step]_contractVars
  BY <1>2, Invariance, PTL DEF Spec
<1> QED BY <1>3 DEF ExecutedOnAuthority
=============================================================================
