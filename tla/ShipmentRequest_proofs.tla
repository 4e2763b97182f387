------------------------ MODULE ShipmentRequest_proofs ------------------------
(***************************************************************************)
(* Theorems about ShipmentRequest, for any quotations and any number of    *)
(* concurrent HTTP requests.                                               *)
(*                                                                         *)
(* Copies may be arbitrarily old, so the invariant only says of a copy     *)
(* what stays true once it was true: that somebody agreed, that a price is *)
(* set (CopyOK).  What must be true of the rows themselves when an         *)
(* approval commits is guarded by the row lock on the request (Apart).     *)
(***************************************************************************)
EXTENDS ShipmentRequest, TLAPS

Agreed == {"CUSTOMER_APPROVED", "COMPANY_ACCEPTED", "CONVERTED"}

Reading == {"quotationLoaded", "quotation", "requestLoaded", "request"}

Writing == {"written", "evicted"}

\* A session t beside a request with approved quotation ap, prices pr and quotation
\* rows qs.
CopyOK(t, ap, pr, qs) ==
  /\ t.seen \in Agreed => ap \in Quotation
  /\ t.phase \in Reading /\ t.op \in QuotationOps /\ t.seenQuotation = "PENDING"
       => t.quotation \in pr
  /\ t.phase \in {"quotationLoaded", "quotation"} => t.op \in QuotationOps
  /\ t.phase \in Writing => t.op \in {"approve", "convert"}
  /\ t.phase \in Writing /\ t.op = "convert" => ap \in Quotation
  /\ t.phase \in Writing /\ t.op = "approve" =>
       /\ t.quotation \in pr
       /\ \A q \in Quotation : qs[q] = "APPROVED" => q \in t.locked \cup {t.quotation}

CopiesInv == \A s \in Session : CopyOK(session[s], request.approved, priced, quotations)

Apart == \A s, o \in Session :
           s # o => ~(session[s].phase \in Writing /\ session[o].phase \in Writing)

Unborn ==
  request.status = "NONE" =>
    /\ request.approved = NoQuotation
    /\ \A q \in Quotation : cachedQuotation[q] = Miss
    /\ \A s \in Session : session[s].phase = "idle"

PricesInv ==
  /\ \A q \in Quotation : request.status # "NONE" /\ quotations[q] = "PENDING" => q \in priced
  /\ \A q \in Quotation : cachedQuotation[q] = "PENDING" => q \in priced

CachedAgreement == cachedRequest \in Agreed => request.approved \in Quotation

RequestInv ==
  /\ TypeOK
  /\ Unborn
  /\ PricesInv
  /\ AgreementHasPrice
  /\ NothingWithoutAgreement
  /\ CachedAgreement
  /\ OneAgreement
  /\ CopiesInv
  /\ Apart

-----------------------------------------------------------------------------
(* Types *)

LEMMA IdleType == /\ Idle \in SessionState
                  /\ Idle.phase = "idle"
                  /\ Idle.seen = "PENDING"
BY QuotationAssumption DEF Idle, SessionState, Phase, Commands, QuotationStatus, RequestStatus

LEMMA SessionFields ==
  ASSUME NEW t \in SessionState
  PROVE  /\ t.phase \in Phase
         /\ t.op \in Commands
         /\ t.quotation \in Quotation
         /\ t.seenQuotation \in QuotationStatus
         /\ t.seen \in RequestStatus
         /\ t.locked \in SUBSET Quotation
BY DEF SessionState

LEMMA TypeInit == Init => TypeOK
<1>. SUFFICES ASSUME Init PROVE TypeOK
  OBVIOUS
<1>1. session \in [Session -> SessionState]
  BY IdleType DEF Init
<1>2. request \in [status: RequestStatus \cup {"NONE"}, approved: Quotation \cup {NoQuotation}]
  BY DEF Init
<1>. QED  BY <1>1, <1>2 DEF Init, TypeOK, QuotationStatus, Miss

LEMMA ReadType ==
  ASSUME TypeOK, NEW t \in SessionState
  PROVE  cachedRequest # Miss \/ request.status # "NONE" => RequestRead(t) \in SessionState
<1> DEFINE seen == IF cachedRequest = Miss THEN request.status ELSE cachedRequest
           phase == IF cachedRequest = Miss THEN "requestLoaded" ELSE "request"
<1>1. phase \in Phase
  BY DEF Phase
<1>2. cachedRequest # Miss \/ request.status # "NONE" => seen \in RequestStatus
  BY DEF TypeOK
<1>. HIDE DEF seen, phase
<1>3. cachedRequest # Miss \/ request.status # "NONE"
        => [t EXCEPT !.phase = phase, !.seen = seen] \in SessionState
  BY <1>1, <1>2 DEF SessionState
<1>. QED  BY <1>3 DEF RequestRead, seen, phase

-----------------------------------------------------------------------------
(* Copies *)

\* What a copy promises is not undone by prices, agreements and statuses that come
\* after it.
LEMMA CopyKept ==
  ASSUME NEW t, NEW ap, NEW bp, NEW pr, NEW pt, NEW qs, NEW rs,
         CopyOK(t, ap, pr, qs),
         ap \in Quotation => bp \in Quotation,
         pr \subseteq pt,
         t.phase \in Writing => \A q \in Quotation : rs[q] = "APPROVED" => qs[q] = "APPROVED"
  PROVE  CopyOK(t, bp, pt, rs)
BY DEF CopyOK

\* A session that neither reads nor writes promises nothing.
LEMMA RestingCopy ==
  ASSUME NEW t, NEW ap, NEW pr, NEW qs,
         t.phase \in {"idle", "committed"}, t.seen = "PENDING"
  PROVE  CopyOK(t, ap, pr, qs)
BY DEF CopyOK, Reading, Writing, Agreed

\* One session moves and the rows stay: the others' copies are what they were.
LEMMA SessionMoves ==
  ASSUME TypeOK, CopiesInv, Apart, NEW s \in Session, NEW n \in SessionState,
         session' = [session EXCEPT ![s] = n],
         UNCHANGED rows,
         CopyOK(n, request.approved, priced, quotations),
         n.phase \in Writing =>
           \A o \in Session : o # s => session[o].phase \notin Writing
  PROVE  /\ session' \in [Session -> SessionState]
         /\ CopiesInv'
         /\ Apart'
<1>1. /\ session' \in [Session -> SessionState]
      /\ \A o \in Session : session'[o] = IF o = s THEN n ELSE session[o]
  BY DEF TypeOK
<1>2. CopiesInv'
  BY <1>1 DEF CopiesInv, rows
<1>3. Apart'
  BY <1>1 DEF Apart
<1>. QED  BY <1>1, <1>2, <1>3

-----------------------------------------------------------------------------
(* Each step preserves the invariant *)

LEMMA CreateStep ==
  ASSUME RequestInv, Create
  PROVE  RequestInv'
<1>1. /\ request.status = "NONE"
      /\ request' = [request EXCEPT !.status = "PENDING"]
      /\ quotations' = [q \in Quotation |-> IF q \in Manual THEN "WAITING_PRICING_REQUEST"
                                                           ELSE "PENDING"]
      /\ priced' = Quotation \ Manual
      /\ UNCHANGED <<shipments, cachedRequest, cachedQuotation, session>>
  BY DEF Create, Generated, caches
<1>2. /\ request' \in [status: RequestStatus \cup {"NONE"},
                       approved: Quotation \cup {NoQuotation}]
      /\ request'.status = "PENDING"
      /\ request'.approved = NoQuotation
  BY <1>1 DEF RequestInv, TypeOK, Unborn, RequestStatus
<1>3. NoQuotation \notin Quotation
  BY NoQuotationAssumption
<1>4. TypeOK'
  BY <1>1, <1>2 DEF RequestInv, TypeOK, QuotationStatus
<1>5. Unborn' /\ AgreementHasPrice' /\ OneAgreement'
  BY <1>1, <1>2, <1>3 DEF Unborn, AgreementHasPrice, OneAgreement
<1>6. PricesInv'
  BY <1>1 DEF RequestInv, Unborn, PricesInv, Miss
<1>7. NothingWithoutAgreement' /\ CachedAgreement'
  BY <1>1, <1>2, <1>3 DEF RequestInv, Unborn, NothingWithoutAgreement, CachedAgreement
<1>8. CopiesInv' /\ Apart'
  <2>1. ASSUME NEW s \in Session
        PROVE  CopyOK(session[s], NoQuotation, priced', quotations')
    BY <1>1, <1>3 DEF RequestInv, Unborn, CopiesInv, CopyOK, Reading, Writing
  <2>. QED  BY <1>1, <1>2, <2>1 DEF RequestInv, CopiesInv, Apart
<1>. QED  BY <1>4, <1>5, <1>6, <1>7, <1>8 DEF RequestInv

\* A read starts a session, or goes on with one, and touches nothing else.
LEMMA ReadQuotationStep ==
  ASSUME RequestInv, NEW s \in Session, NEW op \in Op, NEW q \in Quotation,
         ReadQuotation(s, op, q)
  PROVE  RequestInv'
<1> DEFINE phase == IF cachedQuotation[q] = Miss THEN "quotationLoaded" ELSE "quotation"
           seen == IF cachedQuotation[q] = Miss THEN quotations[q] ELSE cachedQuotation[q]
           n == [Idle EXCEPT !.op = op, !.quotation = q, !.phase = phase,
                             !.seenQuotation = seen]
<1>1. /\ request.status # "NONE"
      /\ op \in QuotationOps
      /\ session' = [session EXCEPT ![s] = n]
      /\ UNCHANGED <<request, quotations, priced, shipments, cachedRequest, cachedQuotation>>
  BY DEF ReadQuotation, rows, caches
<1>2. /\ phase \in {"quotationLoaded", "quotation"}
      /\ seen \in QuotationStatus
      /\ seen = "PENDING" => q \in priced
      /\ op \in Commands
  BY <1>1 DEF RequestInv, TypeOK, PricesInv, QuotationOps, Commands
<1>. HIDE DEF phase, seen
<1>3. /\ n \in SessionState
      /\ n.phase = phase
      /\ n.op = op
      /\ n.quotation = q
      /\ n.seenQuotation = seen
      /\ n.seen = "PENDING"
  BY <1>2, IdleType DEF SessionState, Phase
<1>. HIDE DEF n
<1>4. CopyOK(n, request.approved, priced, quotations)
  BY <1>1, <1>2, <1>3 DEF CopyOK, Writing, Agreed
<1>5. /\ session' \in [Session -> SessionState]
      /\ CopiesInv'
      /\ Apart'
  BY <1>1, <1>2, <1>3, <1>4, SessionMoves DEF RequestInv, rows, Writing
<1>. QED
  BY <1>1, <1>5 DEF RequestInv, TypeOK, Unborn, PricesInv, AgreementHasPrice,
                    NothingWithoutAgreement, CachedAgreement, OneAgreement
LEMMA ReadRequestStep ==
  ASSUME RequestInv, NEW s \in Session, NEW op \in Op, ReadRequest(s, op)
  PROVE  RequestInv'
<1> DEFINE seen == IF cachedRequest = Miss THEN request.status ELSE cachedRequest
           phase == IF cachedRequest = Miss THEN "requestLoaded" ELSE "request"
<1>1. /\ phase \in {"requestLoaded", "request"}
      /\ seen \in Agreed => request.approved \in Quotation
  BY DEF RequestInv, NothingWithoutAgreement, CachedAgreement, Agreed
<1>2. PICK t \in SessionState :
        /\ \/ t = session[s] /\ t.phase = "quotation"
           \/ t.phase = "idle" /\ t.op \notin QuotationOps
        /\ session' = [session EXCEPT ![s] = RequestRead(t)]
        /\ request.status # "NONE"
  <2>1. CASE session[s].phase = "quotation"
    <3>1. session[s] \in SessionState
      BY DEF RequestInv, TypeOK
    <3>2. request.status # "NONE"
      BY <2>1 DEF RequestInv, Unborn
    <3>3. session' = [session EXCEPT ![s] = RequestRead(session[s])]
      BY <2>1 DEF ReadRequest
    <3>. QED  BY <2>1, <3>1, <3>2, <3>3
  <2>2. CASE session[s].phase # "quotation"
    <3>1. /\ request.status # "NONE"
          /\ op \in Op \ QuotationOps
          /\ session' = [session EXCEPT ![s] = RequestRead([Idle EXCEPT !.op = op])]
      BY <2>2 DEF ReadRequest
    <3>2. /\ [Idle EXCEPT !.op = op] \in SessionState
          /\ [Idle EXCEPT !.op = op].phase = "idle"
          /\ [Idle EXCEPT !.op = op].op = op
      BY <3>1, IdleType, OpAssumption DEF SessionState
    <3>. QED  BY <3>1, <3>2
  <2>. QED  BY <2>1, <2>2
<1>3. /\ RequestRead(t) \in SessionState
      /\ RequestRead(t) = [t EXCEPT !.phase = phase, !.seen = seen]
  BY <1>2, ReadType DEF RequestInv, RequestRead
<1>. HIDE DEF phase, seen
<1> DEFINE n == [t EXCEPT !.phase = phase, !.seen = seen]
<1>4. /\ n.phase = phase
      /\ n.op = t.op
      /\ n.quotation = t.quotation
      /\ n.seenQuotation = t.seenQuotation
      /\ n.seen = seen
  BY DEF SessionState
<1>5. n \in SessionState /\ session' = [session EXCEPT ![s] = n]
  BY <1>2, <1>3
<1>. HIDE DEF n
<1>6. t.op \in QuotationOps /\ t.seenQuotation = "PENDING" => t.quotation \in priced
  BY <1>2 DEF RequestInv, CopiesInv, CopyOK, Reading
<1>7. CopyOK(n, request.approved, priced, quotations)
  BY <1>1, <1>4, <1>6 DEF CopyOK, Writing
<1>8. UNCHANGED <<request, quotations, priced, shipments, cachedRequest, cachedQuotation>>
  BY DEF ReadRequest, rows, caches
<1>9. /\ session' \in [Session -> SessionState]
      /\ CopiesInv'
      /\ Apart'
  BY <1>1, <1>4, <1>5, <1>7, <1>8, SessionMoves DEF RequestInv, rows, Writing
<1>. QED
  BY <1>2, <1>8, <1>9 DEF RequestInv, TypeOK, Unborn, PricesInv, AgreementHasPrice,
                    NothingWithoutAgreement, CachedAgreement, OneAgreement

\* What is stored was a copy already, so it keeps the promise of a copy.
LEMMA FillStep ==
  ASSUME RequestInv, NEW s \in Session, Fill(s)
  PROVE  RequestInv'
<1> DEFINE t == session[s]
<1>1. t \in SessionState /\ UNCHANGED <<request, quotations, priced, shipments>>
  BY DEF RequestInv, TypeOK, Fill, rows
<1>2. PICK phase \in {"quotation", "request"} :
        /\ session' = [session EXCEPT ![s].phase = phase]
        /\ phase = "quotation" => t.phase = "quotationLoaded"
  BY DEF Fill
<1> DEFINE n == [t EXCEPT !.phase = phase]
<1>3. session' = [session EXCEPT ![s] = n]
  BY <1>2 DEF RequestInv, TypeOK
<1>4. /\ n \in SessionState
      /\ n.phase = phase
      /\ n.op = t.op
      /\ n.quotation = t.quotation
      /\ n.seenQuotation = t.seenQuotation
      /\ n.seen = t.seen
  BY <1>1 DEF SessionState, Phase
<1>. HIDE DEF n
<1>5. t.phase \in {"quotationLoaded", "requestLoaded"}
  BY DEF Fill
<1>6. CopyOK(t, request.approved, priced, quotations)
  BY DEF RequestInv, CopiesInv
<1>7. CopyOK(n, request.approved, priced, quotations)
  BY <1>2, <1>4, <1>5, <1>6 DEF CopyOK, Reading, Writing
<1>8. /\ session' \in [Session -> SessionState]
      /\ CopiesInv'
      /\ Apart'
  BY <1>1, <1>3, <1>4, <1>7, SessionMoves DEF RequestInv, rows, Writing
<1>9. request.status # "NONE"
  BY <1>5 DEF RequestInv, Unborn
<1>10. CASE t.phase = "quotationLoaded"
  <2>1. /\ cachedQuotation' = [cachedQuotation EXCEPT ![t.quotation] = t.seenQuotation]
        /\ UNCHANGED cachedRequest
    BY <1>10, <1>2 DEF Fill, RequestInv, TypeOK
  <2>2. cachedQuotation' \in [Quotation -> QuotationStatus \cup {Miss}]
    BY <2>1, <1>1, SessionFields DEF RequestInv, TypeOK
  <2>3. t.seenQuotation = "PENDING" => t.quotation \in priced
    <3>1. t.op \in QuotationOps
      BY <1>6, <1>10 DEF CopyOK
    <3>. QED  BY <1>6, <1>10, <3>1 DEF CopyOK, Reading
  <2>4. PricesInv'
    BY <1>1, <2>1, <2>3, SessionFields DEF RequestInv, TypeOK, PricesInv
  <2>. QED
    BY <1>1, <1>8, <1>9, <2>1, <2>2, <2>4 DEF RequestInv, TypeOK, Unborn, AgreementHasPrice,
         NothingWithoutAgreement, CachedAgreement, OneAgreement
<1>11. CASE t.phase = "requestLoaded"
  <2>1. cachedRequest' = t.seen /\ UNCHANGED cachedQuotation
    BY <1>11 DEF Fill
  <2>2. cachedRequest' \in RequestStatus /\ CachedAgreement'
    BY <1>1, <1>6, <2>1, SessionFields DEF CopyOK, CachedAgreement
  <2>. QED
    BY <1>1, <1>8, <1>9, <2>1, <2>2 DEF RequestInv, TypeOK, Unborn, PricesInv, AgreementHasPrice,
         NothingWithoutAgreement, OneAgreement
<1>. QED  BY <1>5, <1>10, <1>11
\* The session after an update, or after the transaction's updates.
LEMMA RestingSession ==
  ASSUME NEW op \in Commands
  PROVE  LET n == [Idle EXCEPT !.phase = "committed", !.op = op]
         IN  /\ n \in SessionState
             /\ n.phase = "committed"
             /\ n.seen = "PENDING"
BY IdleType DEF SessionState, Phase

\* The commands of one statement: two on a quotation, three on the request.
Update(s) == \/ RequestManualPricing(s)
             \/ SubmitManualPrice(s)
             \/ AcceptByCompany(s)
             \/ RejectByCompany(s)
             \/ Cancel(s)

LEMMA UpdateForm ==
  ASSUME RequestInv, NEW s \in Session, Update(s)
  PROVE  LET t == session[s]
         IN  /\ t.phase = "request"
             /\ t.op \notin {"approve", "convert"}
             /\ RuleHolds(s)
             /\ session' = [session EXCEPT ![s] =
                             [Idle EXCEPT !.phase = "committed", !.op = t.op]]
             /\ UNCHANGED <<shipments, cachedRequest, cachedQuotation>>
             /\ t.op \in QuotationOps =>
                  /\ quotations' = [quotations EXCEPT ![t.quotation] =
                       IF t.op = "requestPrice" THEN "WAITING_PRICING" ELSE "PENDING"]
                  /\ priced' = IF t.op = "submitPrice" THEN priced \cup {t.quotation}
                                                       ELSE priced
                  /\ UNCHANGED request
             /\ t.op \notin QuotationOps =>
                  /\ request' = [request EXCEPT !.status = Decided(t.op)]
                  /\ UNCHANGED <<quotations, priced>>
<1>1. CASE RequestManualPricing(s)
  BY <1>1 DEF RequestManualPricing, Statement, SetQuotation, QuotationOps, caches
<1>2. CASE SubmitManualPrice(s)
  BY <1>2 DEF SubmitManualPrice, Statement, SetQuotation, QuotationOps, caches
<1>3. ASSUME NEW op \in {"accept", "reject", "cancel"}, SetRequest(s, op)
      PROVE  /\ session[s].op = op
             /\ op \notin QuotationOps
             /\ request' = [request EXCEPT !.status = Decided(op)]
             /\ UNCHANGED <<quotations, priced, shipments, cachedRequest, cachedQuotation>>
             /\ session[s].phase = "request"
             /\ RuleHolds(s)
             /\ session' = [session EXCEPT ![s] =
                             [Idle EXCEPT !.phase = "committed", !.op = op]]
  BY <1>3 DEF SetRequest, Statement, QuotationOps, caches
<1>4. CASE AcceptByCompany(s)
  BY <1>3, <1>4 DEF AcceptByCompany
<1>5. CASE RejectByCompany(s)
  BY <1>3, <1>5 DEF RejectByCompany
<1>6. CASE Cancel(s)
  BY <1>3, <1>6 DEF Cancel
<1>. QED  BY <1>1, <1>2, <1>4, <1>5, <1>6 DEF Update

\* A statement on a quotation never approves it, and one on the request starts
\* from a copy that somebody agreed to.
LEMMA UpdateStep ==
  ASSUME RequestInv, NEW s \in Session, Update(s)
  PROVE  RequestInv'
<1> DEFINE t == session[s]
           n == [Idle EXCEPT !.phase = "committed", !.op = t.op]
<1>1. /\ t \in SessionState
      /\ t.phase = "request"
      /\ t.op \notin {"approve", "convert"}
      /\ RuleHolds(s)
      /\ session' = [session EXCEPT ![s] = n]
      /\ UNCHANGED <<shipments, cachedRequest, cachedQuotation>>
  BY UpdateForm DEF RequestInv, TypeOK
<1>2. CopyOK(t, request.approved, priced, quotations)
  BY DEF RequestInv, CopiesInv
<1>3. /\ n \in SessionState
      /\ n.phase = "committed"
      /\ n.seen = "PENDING"
  BY <1>1, SessionFields, RestingSession
<1>. HIDE DEF n
<1>4. /\ session' \in [Session -> SessionState]
      /\ \A o \in Session : session'[o] = IF o = s THEN n ELSE session[o]
  BY <1>1, <1>3 DEF RequestInv, TypeOK
<1>5. Apart'
  BY <1>3, <1>4 DEF RequestInv, Apart, Writing
<1>6. request.status # "NONE"
  BY <1>1 DEF RequestInv, Unborn
<1>7. CASE t.op \in QuotationOps
  <2> DEFINE q == t.quotation
  <2>1. /\ q \in Quotation
        /\ quotations' = [quotations EXCEPT ![q] =
             IF t.op = "requestPrice" THEN "WAITING_PRICING" ELSE "PENDING"]
        /\ priced' = IF t.op = "submitPrice" THEN priced \cup {q} ELSE priced
        /\ UNCHANGED request
    BY <1>1, <1>7, UpdateForm, SessionFields
  <2>2. t.op = "requestPrice" \/ t.op = "submitPrice"
    BY <1>1, <1>7 DEF QuotationOps
  <2>. HIDE DEF q
  <2>3. /\ quotations' \in [Quotation -> QuotationStatus]
        /\ \A o \in Quotation : quotations'[o] = "APPROVED" => quotations[o] = "APPROVED"
        /\ \A o \in Quotation : quotations'[o] = "PENDING" =>
             quotations[o] = "PENDING" \/ (o = q /\ t.op = "submitPrice")
    BY <2>1, <2>2 DEF RequestInv, TypeOK, QuotationStatus
  <2>4. priced \subseteq priced' /\ priced' \in SUBSET Quotation
    BY <2>1 DEF RequestInv, TypeOK
  <2>5. TypeOK'
    BY <1>1, <1>4, <2>1, <2>3, <2>4 DEF RequestInv, TypeOK
  <2>6. CopiesInv'
    <3>1. ASSUME NEW o \in Session, o # s
          PROVE  CopyOK(session[o], request.approved, priced', quotations')
      BY <2>3, <2>4, CopyKept DEF RequestInv, CopiesInv
    <3>2. CopyOK(n, request.approved, priced', quotations')
      BY <1>3, RestingCopy
    <3>. QED  BY <1>4, <2>1, <3>1, <3>2 DEF CopiesInv
  <2>7. PricesInv'
    BY <1>1, <1>6, <2>1, <2>3, <2>4 DEF RequestInv, PricesInv
  <2>8. AgreementHasPrice' /\ OneAgreement'
    BY <2>1, <2>3, <2>4 DEF RequestInv, AgreementHasPrice, OneAgreement
  <2>. QED
    BY <1>1, <1>5, <1>6, <2>1, <2>5, <2>6, <2>7, <2>8
       DEF RequestInv, Unborn, NothingWithoutAgreement, CachedAgreement
<1>8. CASE t.op \notin QuotationOps
  <2> DEFINE status == Decided(t.op)
  <2>1. /\ request' = [request EXCEPT !.status = status]
        /\ UNCHANGED <<quotations, priced>>
    BY <1>1, <1>8, UpdateForm
  <2>2. t.op \in {"accept", "reject", "cancel"}
    BY <1>1, <1>8, SessionFields DEF Commands, QuotationOps
  <2>3. status \in RequestStatus
    BY <2>2 DEF Decided, RequestStatus
  <2>4. status \in Agreed => request.approved \in Quotation
    <3>1. CASE t.op = "accept"
      <4>1. t.seen \in Agreed
        BY <1>1, <3>1 DEF RuleHolds, RequestRule, Agreed
      <4>. QED  BY <1>2, <4>1 DEF CopyOK
    <3>2. CASE t.op # "accept"
      BY <2>2, <3>2 DEF Decided, Agreed
    <3>. QED  BY <3>1, <3>2
  <2>. HIDE DEF status
  <2>5. /\ request' \in [status: RequestStatus \cup {"NONE"},
                         approved: Quotation \cup {NoQuotation}]
        /\ request'.status = status
        /\ request'.approved = request.approved
    BY <2>1, <2>3 DEF RequestInv, TypeOK
  <2>6. TypeOK'
    BY <1>1, <1>4, <2>1, <2>5 DEF RequestInv, TypeOK
  <2>7. CopiesInv'
    <3>1. CopyOK(n, request.approved, priced, quotations)
      BY <1>3, RestingCopy
    <3>. QED  BY <1>4, <2>1, <2>5, <3>1 DEF RequestInv, CopiesInv
  <2>8. NothingWithoutAgreement' /\ CachedAgreement'
    BY <1>1, <2>4, <2>5 DEF RequestInv, NothingWithoutAgreement, CachedAgreement, Agreed
  <2>9. PricesInv' /\ AgreementHasPrice' /\ OneAgreement'
    BY <1>1, <1>6, <2>1, <2>5 DEF RequestInv, PricesInv, AgreementHasPrice, OneAgreement
  <2>10. Unborn'
    BY <2>3, <2>5 DEF Unborn, RequestStatus
  <2>. QED
    BY <1>5, <2>6, <2>7, <2>8, <2>9, <2>10 DEF RequestInv
<1>. QED  BY <1>7, <1>8

\* The updates of a transaction take the lock on the request, and with it the
\* quotations that an approval must reject.
LEMMA WriteStep ==
  ASSUME RequestInv, NEW s \in Session, WriteApproval(s) \/ WriteConversion(s)
  PROVE  RequestInv'
<1> DEFINE t == session[s]
           locked == IF t.op = "approve" THEN Rejectable(t.quotation) ELSE {}
           n == [Idle EXCEPT !.phase = "written", !.op = t.op, !.quotation = t.quotation,
                             !.locked = locked]
<1>1. /\ t \in SessionState
      /\ t.phase = "request"
      /\ t.op \in {"approve", "convert"}
      /\ RuleHolds(s)
      /\ \A o \in Session : o # s => session[o].phase \notin Writing
      /\ session' = [session EXCEPT ![s] = n]
      /\ UNCHANGED <<request, quotations, priced, shipments, cachedRequest, cachedQuotation>>
  <2>1. CASE WriteApproval(s)
    BY <2>1 DEF WriteApproval, WriteRows, RequestInv, TypeOK, rows, caches, Others,
                LocksRequest, InTransaction, Writing
  <2>2. CASE WriteConversion(s)
    BY <2>2 DEF WriteConversion, WriteRows, RequestInv, TypeOK, rows, caches, Others,
                LocksRequest, InTransaction, Writing
  <2>. QED  BY <2>1, <2>2
<1>2. CopyOK(t, request.approved, priced, quotations)
  BY DEF RequestInv, CopiesInv
<1>3. /\ locked \in SUBSET Quotation
      /\ t.op = "approve" =>
           \A q \in Quotation : quotations[q] = "APPROVED" => q \in locked \cup {t.quotation}
  BY DEF Rejectable
<1>. HIDE DEF locked
<1>4. /\ n \in SessionState
      /\ n.phase = "written"
      /\ n.op = t.op
      /\ n.quotation = t.quotation
      /\ n.locked = locked
      /\ n.seen = "PENDING"
  BY <1>1, <1>3, IdleType, SessionFields DEF SessionState, Phase
<1>. HIDE DEF n
<1>5. t.op = "approve" => t.quotation \in priced
  <2>. SUFFICES ASSUME t.op = "approve" PROVE t.quotation \in priced
    OBVIOUS
  <2>1. t.seenQuotation = "PENDING"
    BY <1>1 DEF RuleHolds, QuotationRule
  <2>. QED  BY <1>1, <1>2, <2>1 DEF CopyOK, Reading, QuotationOps
<1>6. t.op = "convert" => request.approved \in Quotation
  <2>. SUFFICES ASSUME t.op = "convert" PROVE request.approved \in Quotation
    OBVIOUS
  <2>1. t.seen \in Agreed
    BY <1>1 DEF RuleHolds, RequestRule, Agreed
  <2>. QED  BY <1>2, <2>1 DEF CopyOK
<1>7. CopyOK(n, request.approved, priced, quotations)
  BY <1>1, <1>3, <1>4, <1>5, <1>6 DEF CopyOK, Reading, Agreed
<1>8. /\ session' \in [Session -> SessionState]
      /\ CopiesInv'
      /\ Apart'
  BY <1>1, <1>4, <1>7, SessionMoves DEF RequestInv, rows
<1>9. request.status # "NONE"
  BY <1>1 DEF RequestInv, Unborn
<1>. QED
  BY <1>1, <1>8, <1>9 DEF RequestInv, TypeOK, Unborn, PricesInv, AgreementHasPrice,
                    NothingWithoutAgreement, CachedAgreement, OneAgreement

LEMMA EvictBeforeStep ==
  ASSUME RequestInv, NEW s \in Session, EvictBefore(s)
  PROVE  RequestInv'
<1> DEFINE t == session[s]
           n == [t EXCEPT !.phase = "evicted"]
<1>1. /\ t \in SessionState
      /\ t.phase = "written"
      /\ session' = [session EXCEPT ![s] = n]
      /\ cachedRequest' \in {Miss, cachedRequest}
      /\ UNCHANGED <<request, quotations, priced, shipments, cachedQuotation>>
  BY DEF EvictBefore, RequestInv, TypeOK, rows
<1>2. /\ n \in SessionState
      /\ n.phase = "evicted"
      /\ n.op = t.op
      /\ n.quotation = t.quotation
      /\ n.locked = t.locked
      /\ n.seen = t.seen
  BY <1>1 DEF SessionState, Phase
<1>. HIDE DEF n
<1>3. CopyOK(t, request.approved, priced, quotations)
  BY DEF RequestInv, CopiesInv
<1>4. CopyOK(n, request.approved, priced, quotations)
  BY <1>1, <1>2, <1>3 DEF CopyOK, Reading, Writing
<1>5. /\ session' \in [Session -> SessionState]
      /\ CopiesInv'
      /\ Apart'
  BY <1>1, <1>2, <1>4, SessionMoves DEF RequestInv, rows, Apart, Writing
<1>6. request.status # "NONE"
  BY <1>1 DEF RequestInv, Unborn
<1>. QED
  BY <1>1, <1>5, <1>6 DEF RequestInv, TypeOK, Unborn, PricesInv, AgreementHasPrice,
                    NothingWithoutAgreement, CachedAgreement, OneAgreement, Miss, Agreed

\* An approval leaves no other quotation approved, because it holds every one that
\* was and nobody else can have committed an approval since.
LEMMA CommitStep ==
  ASSUME RequestInv, NEW s \in Session, CommitApproval(s) \/ CommitConversion(s)
  PROVE  RequestInv'
<1> DEFINE t == session[s]
<1>1. /\ t \in SessionState
      /\ t.phase = "evicted"
      /\ CopyOK(t, request.approved, priced, quotations)
      /\ UNCHANGED <<priced, cachedRequest, cachedQuotation>>
  BY DEF CommitApproval, CommitConversion, RequestInv, TypeOK, CopiesInv, caches
<1>2. /\ t.op \in {"approve", "convert"}
      /\ request.status # "NONE"
  BY <1>1 DEF CopyOK, Writing, RequestInv, Unborn
<1>3. \A o \in Session : o # s => session[o].phase \notin Writing
  BY <1>1 DEF RequestInv, Apart, Writing
<1>4. CASE t.op = "approve"
  <2> DEFINE n == [Idle EXCEPT !.phase = "committed", !.op = t.op]
  <2>1. /\ request' = [status |-> "CUSTOMER_APPROVED", approved |-> t.quotation]
        /\ quotations' = [q \in Quotation |->
             CASE q = t.quotation  -> "APPROVED"
               [] q \in t.locked   -> "REJECTED"
               [] OTHER            -> quotations[q]]
        /\ session' = [session EXCEPT ![s] = n]
        /\ UNCHANGED shipments
    BY <1>4 DEF CommitApproval, CommitConversion, Decided
  <2>2. /\ n \in SessionState
        /\ n.phase = "committed"
        /\ n.seen = "PENDING"
    BY <1>1, SessionFields, RestingSession
  <2>. HIDE DEF n
  <2>3. /\ t.quotation \in Quotation
        /\ t.quotation \in priced
        /\ \A q \in Quotation : quotations[q] = "APPROVED" => q \in t.locked \cup {t.quotation}
    BY <1>1, <1>4, SessionFields DEF CopyOK, Writing
  <2>4. \A q \in Quotation :
          /\ quotations'[q] = "APPROVED" => q = t.quotation
          /\ quotations'[q] = "PENDING" => quotations[q] = "PENDING"
    BY <2>1, <2>3
  <2>5. quotations' \in [Quotation -> QuotationStatus]
    BY <2>1 DEF RequestInv, TypeOK, QuotationStatus
  <2>6. /\ session' \in [Session -> SessionState]
        /\ \A o \in Session : session'[o] = IF o = s THEN n ELSE session[o]
    BY <2>1, <2>2 DEF RequestInv, TypeOK
  <2>7. CopiesInv'
    <3>1. ASSUME NEW o \in Session, o # s
          PROVE  CopyOK(session[o], t.quotation, priced, quotations')
      <4>1. CopyOK(session[o], request.approved, priced, quotations)
        BY DEF RequestInv, CopiesInv
      <4>2. session[o].phase \notin Writing
        BY <1>3, <3>1
      <4>. QED  BY <2>3, <4>1, <4>2 DEF CopyOK
    <3>2. CopyOK(n, t.quotation, priced, quotations')
      BY <2>2, RestingCopy
    <3>. QED  BY <1>1, <2>1, <2>6, <3>1, <3>2 DEF CopiesInv
  <2>8. Apart'
    BY <2>2, <2>6 DEF RequestInv, Apart, Writing
  <2>9. TypeOK'
    BY <1>1, <2>1, <2>3, <2>5, <2>6 DEF RequestInv, TypeOK, RequestStatus
  <2>10. PricesInv'
    BY <1>1, <1>2, <2>4 DEF RequestInv, PricesInv
  <2>11. AgreementHasPrice' /\ NothingWithoutAgreement' /\ CachedAgreement' /\ OneAgreement'
    BY <1>1, <2>1, <2>3, <2>4
       DEF AgreementHasPrice, NothingWithoutAgreement, CachedAgreement, OneAgreement
  <2>12. Unborn'
    BY <2>1 DEF Unborn
  <2>. QED
    BY <2>7, <2>8, <2>9, <2>10, <2>11, <2>12 DEF RequestInv
<1>5. CASE t.op = "convert"
  <2>1. /\ request' = [request EXCEPT !.status = "CONVERTED"]
        /\ shipments' = shipments + 1
        /\ session' = [session EXCEPT ![s] = Idle]
        /\ UNCHANGED quotations
    BY <1>5 DEF CommitApproval, CommitConversion, Decided
  <2>2. request.approved \in Quotation
    BY <1>1, <1>5 DEF CopyOK, Writing
  <2>3. /\ request' \in [status: RequestStatus \cup {"NONE"},
                         approved: Quotation \cup {NoQuotation}]
        /\ request'.status = "CONVERTED"
        /\ request'.approved = request.approved
    BY <2>1 DEF RequestInv, TypeOK, RequestStatus
  <2>4. /\ session' \in [Session -> SessionState]
        /\ \A o \in Session : session'[o] = IF o = s THEN Idle ELSE session[o]
    BY <2>1, IdleType DEF RequestInv, TypeOK
  <2>5. CopiesInv'
    <3>1. CopyOK(Idle, request.approved, priced, quotations)
      BY IdleType, RestingCopy
    <3>. QED  BY <1>1, <2>1, <2>3, <2>4, <3>1 DEF RequestInv, CopiesInv
  <2>6. Apart'
    BY <2>4, IdleType DEF RequestInv, Apart, Writing
  <2>7. TypeOK'
    BY <1>1, <2>1, <2>3, <2>4 DEF RequestInv, TypeOK
  <2>8. PricesInv' /\ AgreementHasPrice' /\ NothingWithoutAgreement' /\ CachedAgreement'
          /\ OneAgreement'
    <3>1. PricesInv' /\ AgreementHasPrice' /\ OneAgreement'
      BY <1>1, <1>2, <2>1, <2>3 DEF RequestInv, PricesInv, AgreementHasPrice, OneAgreement
    <3>2. NothingWithoutAgreement' /\ CachedAgreement'
      BY <2>2, <2>3 DEF NothingWithoutAgreement, CachedAgreement
    <3>. QED  BY <3>1, <3>2
  <2>9. Unborn'
    BY <2>3 DEF Unborn
  <2>. QED  BY <2>5, <2>6, <2>7, <2>8, <2>9 DEF RequestInv
<1>. QED  BY <1>2, <1>4, <1>5

\* Sessions that end, and entries that go.
LEMMA SessionEnds ==
  ASSUME RequestInv, NEW s \in Session,
         session[s].phase # "idle",
         session' = [session EXCEPT ![s] = Idle],
         UNCHANGED rows,
         cachedRequest' \in {cachedRequest, Miss},
         cachedQuotation' \in {cachedQuotation, [q \in Quotation |-> Miss]}
  PROVE  RequestInv'
<1>1. /\ UNCHANGED <<request, quotations, priced, shipments>>
      /\ request.status # "NONE"
  BY DEF rows, RequestInv, Unborn
<1>2. CopyOK(Idle, request.approved, priced, quotations)
  BY IdleType, RestingCopy
<1>3. /\ session' \in [Session -> SessionState]
      /\ CopiesInv'
      /\ Apart'
  BY <1>2, IdleType, SessionMoves DEF RequestInv, Writing
<1>4. /\ cachedQuotation' \in [Quotation -> QuotationStatus \cup {Miss}]
      /\ \A q \in Quotation : cachedQuotation'[q] \in {cachedQuotation[q], Miss}
  BY DEF RequestInv, TypeOK
<1>5. PricesInv' /\ CachedAgreement'
  BY <1>1, <1>4 DEF RequestInv, PricesInv, CachedAgreement, Agreed, Miss
<1>. QED
  BY <1>1, <1>3, <1>4, <1>5 DEF RequestInv, TypeOK, Unborn, AgreementHasPrice,
       NothingWithoutAgreement, OneAgreement

LEMMA ExpireStep ==
  ASSUME RequestInv, ExpireRequest \/ \E q \in Quotation : ExpireQuotation(q)
  PROVE  RequestInv'
<1>1. /\ UNCHANGED <<request, quotations, priced, shipments, session>>
      /\ cachedRequest' \in {cachedRequest, Miss}
  BY DEF ExpireRequest, ExpireQuotation, rows
<1>2. /\ cachedQuotation' \in [Quotation -> QuotationStatus \cup {Miss}]
      /\ \A q \in Quotation : cachedQuotation'[q] \in {cachedQuotation[q], Miss}
  BY DEF RequestInv, TypeOK, ExpireRequest, ExpireQuotation
<1>3. PricesInv' /\ CachedAgreement'
  BY <1>1, <1>2 DEF RequestInv, PricesInv, CachedAgreement, Agreed, Miss
<1>. QED
  BY <1>1, <1>2, <1>3 DEF RequestInv, TypeOK, Unborn, AgreementHasPrice,
       NothingWithoutAgreement, OneAgreement, CopiesInv, Apart

-----------------------------------------------------------------------------
(* Theorems *)

LEMMA InvInit == Init => RequestInv
<1>. SUFFICES ASSUME Init PROVE RequestInv
  OBVIOUS
<1>1. /\ request.status = "NONE"
      /\ request.approved = NoQuotation
      /\ quotations = [q \in Quotation |-> "PENDING"]
      /\ shipments = 0
      /\ cachedRequest = Miss
      /\ cachedQuotation = [q \in Quotation |-> Miss]
      /\ session = [s \in Session |-> Idle]
  BY DEF Init
<1>2. Unborn /\ Apart
  BY <1>1, IdleType DEF Unborn, Apart, Writing
<1>3. PricesInv /\ AgreementHasPrice /\ NothingWithoutAgreement /\ CachedAgreement /\ OneAgreement
  BY <1>1, NoQuotationAssumption DEF PricesInv, AgreementHasPrice, NothingWithoutAgreement,
       CachedAgreement, OneAgreement, Miss, Agreed
<1>4. CopiesInv
  BY <1>1, IdleType, RestingCopy DEF CopiesInv
<1>. QED  BY <1>2, <1>3, <1>4, TypeInit DEF RequestInv

LEMMA InvNext == RequestInv /\ [Next]_vars => RequestInv'
<1>. SUFFICES ASSUME RequestInv, [Next]_vars PROVE RequestInv'
  OBVIOUS
<1>1. CASE Create
  BY <1>1, CreateStep
<1>2. CASE ExpireRequest \/ \E q \in Quotation : ExpireQuotation(q)
  BY <1>2, ExpireStep
<1>3. ASSUME NEW s \in Session, NEW op \in Op, NEW q \in Quotation, ReadQuotation(s, op, q)
      PROVE  RequestInv'
  BY <1>3, ReadQuotationStep
<1>4. ASSUME NEW s \in Session, NEW op \in Op, ReadRequest(s, op)
      PROVE  RequestInv'
  BY <1>4, ReadRequestStep
<1>5. ASSUME NEW s \in Session,
             \/ Fill(s)
             \/ Update(s)
             \/ WriteApproval(s) \/ WriteConversion(s)
             \/ EvictBefore(s)
             \/ CommitApproval(s) \/ CommitConversion(s)
      PROVE  RequestInv'
  BY <1>5, FillStep, UpdateStep, WriteStep, EvictBeforeStep, CommitStep
<1>6. ASSUME NEW s \in Session, EvictAfter(s) \/ Abandon(s)
      PROVE  RequestInv'
  <2>1. CASE EvictAfter(s)
    BY <2>1, SessionEnds DEF EvictAfter
  <2>2. CASE Abandon(s)
    BY <2>2, SessionEnds DEF Abandon, caches
  <2>. QED  BY <1>6, <2>1, <2>2
<1>7. CASE UNCHANGED vars
  BY <1>7 DEF vars, RequestInv, TypeOK, Unborn, PricesInv, AgreementHasPrice,
       NothingWithoutAgreement, CachedAgreement, OneAgreement, CopiesInv, Apart
<1>. QED  BY <1>1, <1>2, <1>3, <1>4, <1>5, <1>6, <1>7 DEF Next, Update

LEMMA AlwaysInv == Spec => []RequestInv
BY InvInit, InvNext, PTL DEF Spec

\* Rows, cached copies and sessions keep their types through every interleaving of
\* the commands.
THEOREM TypeCorrect == Spec => []TypeOK
<1>1. RequestInv => TypeOK
  BY DEF RequestInv
<1>. QED  BY <1>1, AlwaysInv, PTL

\* approveQuotation: however many approvals run, from copies of any age, the one
\* quotation that stands as approved is the one the request names.
THEOREM AgreementIsOne == Spec => []OneAgreement
<1>1. RequestInv => OneAgreement
  BY DEF RequestInv
<1>. QED  BY <1>1, AlwaysInv, PTL

\* submitManualPrice precedes every approval of a manual quotation.
THEOREM AgreementIsPriced == Spec => []AgreementHasPrice
<1>1. RequestInv => AgreementHasPrice
  BY DEF RequestInv
<1>. QED  BY <1>1, AlwaysInv, PTL

\* acceptByCompany and convert never get ahead of the customer's agreement, stale
\* cache or not.
THEOREM AgreementComesFirst == Spec => []NothingWithoutAgreement
<1>1. RequestInv => NothingWithoutAgreement
  BY DEF RequestInv
<1>. QED  BY <1>1, AlwaysInv, PTL
=============================================================================
