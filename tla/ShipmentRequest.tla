---------------------------- MODULE ShipmentRequest ----------------------------
(***************************************************************************)
(* One shipment request, the quotations generated for it, and the customer, *)
(* the shipping company and the branch that act on it at the same time.    *)
(*                                                                         *)
(* A command reads the quotation and the request through a shared cache    *)
(* (Redis) and the HTTP request's own copy, applies the rule of the        *)
(* aggregate, and updates rows by their id alone.  Only approve and        *)
(* convert run in a transaction; every other command is one statement.     *)
(* Caches are evicted when the decorated method returns: after the         *)
(* statement, but for the request's copy in approve and convert before the *)
(* transaction commits.                                                    *)
(*                                                                         *)
(*  idle --ReadQuotation--> quotation --ReadRequest--> request             *)
(*    request --Cancel, ...--> committed --EvictAfter--> idle              *)
(*    request --Write*--> written --EvictBefore--> evicted --Commit*-->    *)
(*                                                                         *)
(* A read that misses the cache stops at a *Loaded phase until it has      *)
(* stored what it loaded.  Two shipment requests share no row, so one is   *)
(* modelled.                                                               *)
(***************************************************************************)
EXTENDS Naturals, FiniteSets

CONSTANTS
  Quotation,       \* quotations generated for the request
  Manual,          \* those of them with quotation_type MANUAL
  NoQuotation,     \* approved_quotation_id of a request nobody agreed on
  Session,         \* concurrent HTTP requests
  Op,              \* the commands they may carry
  MaxShipments     \* bound: no conversion begins once so many shipments exist

Commands == {"approve", "requestPrice", "submitPrice",
             "accept", "reject", "cancel", "convert"}

ASSUME ManualAssumption == Manual \subseteq Quotation
ASSUME NoQuotationAssumption == NoQuotation \notin Quotation
ASSUME QuotationAssumption == Quotation # {}
ASSUME OpAssumption == Op \subseteq Commands
ASSUME ShipmentsAssumption == MaxShipments \in Nat

VARIABLES
  request,         \* table shipment_request: status and approved_quotation_id
  quotations,      \* table quotation: status of each
  priced,          \* table quotation: those whose amount is set
  shipments,       \* table customer_shipment: how many name this request
  cachedRequest,   \* Redis: status in the cached copy of the request
  cachedQuotation, \* Redis: status in the cached copy of each quotation
  session          \* what each HTTP request has read and is about to do

vars == <<request, quotations, priced, shipments, cachedRequest, cachedQuotation, session>>
rows == <<request, quotations, priced, shipments>>
caches == <<cachedRequest, cachedQuotation>>

-----------------------------------------------------------------------------
(* Rows, copies and rules *)

RequestStatus == {"PENDING", "CUSTOMER_APPROVED", "COMPANY_ACCEPTED", "CONVERTED",
                  "REJECTED", "CANCELLED", "EXPIRED"}

QuotationStatus == {"WAITING_PRICING_REQUEST", "WAITING_PRICING", "PENDING",
                    "APPROVED", "REJECTED", "EXPIRED"}

Miss == "MISS"

QuotationOps == {"approve", "requestPrice", "submitPrice"}

Phase == {"idle", "quotationLoaded", "quotation", "requestLoaded", "request",
          "written", "evicted", "committed"}

SessionState ==
  [phase: Phase, op: Commands,
   quotation: Quotation,                     \* the quotation a command names
   seenQuotation: QuotationStatus,           \* its status as read
   seen: RequestStatus,                      \* the request's status as read
   locked: SUBSET Quotation]                 \* rows of other quotations updated

Idle == [phase |-> "idle", op |-> "cancel",
         quotation |-> CHOOSE q \in Quotation : TRUE,
         seenQuotation |-> "PENDING", seen |-> "PENDING", locked |-> {}]

QuotationRuleUnpriced(s) ==
  LET t == session[s]
  IN  CASE t.op = "approve"      -> t.seenQuotation # "REJECTED"
        [] t.op = "requestPrice" -> t.seenQuotation = "WAITING_PRICING_REQUEST"
        [] t.op = "submitPrice"  -> t.seenQuotation = "WAITING_PRICING"
        [] OTHER                 -> TRUE

\* approve, requestManualPrice and submitPrice of Quotation.
QuotationRule(s) ==
  LET t == session[s]
  IN  CASE t.op = "approve"      -> t.seenQuotation = "PENDING"
        [] t.op = "requestPrice" -> /\ t.quotation \in Manual
                                    /\ t.seenQuotation = "WAITING_PRICING_REQUEST"
        [] t.op = "submitPrice"  -> /\ t.quotation \in Manual
                                    /\ t.seenQuotation = "WAITING_PRICING"
        [] OTHER                 -> TRUE

RequestRuleEager(op) ==
  CASE op = "accept"  -> {"PENDING", "CUSTOMER_APPROVED"}
    [] op = "approve" -> {"PENDING"}
    [] op = "convert" -> {"COMPANY_ACCEPTED"}
    [] OTHER          -> RequestStatus

\* The statuses acceptQuotation, acceptByCompany, convert, cancel and
\* rejectByCompany of ShipmentRequest start from.  Pricing only reads the request
\* to see whether the caller may.
RequestRule(op) ==
  CASE op = "approve" -> {"PENDING"}
    [] op = "accept"  -> {"CUSTOMER_APPROVED"}
    [] op = "convert" -> {"COMPANY_ACCEPTED"}
    [] op = "cancel"  -> RequestStatus \ {"CANCELLED", "CONVERTED", "REJECTED", "EXPIRED"}
    [] op = "reject"  -> RequestStatus \ {"CANCELLED", "CONVERTED", "REJECTED"}
    [] OTHER          -> RequestStatus

Decided(op) ==
  CASE op = "approve" -> "CUSTOMER_APPROVED"
    [] op = "accept"  -> "COMPANY_ACCEPTED"
    [] op = "convert" -> "CONVERTED"
    [] op = "cancel"  -> "CANCELLED"
    [] OTHER          -> "REJECTED"

RuleHolds(s) == QuotationRule(s) /\ session[s].seen \in RequestRule(session[s].op)

\* An open transaction holds the rows it has updated.
InTransaction(s) == session[s].phase \in {"written", "evicted"}

LocksRequest(s) == InTransaction(s)

LocksQuotation(s, q) == InTransaction(s) /\ session[s].op = "approve"
                          /\ q \in session[s].locked \cup {session[s].quotation}

Others(s) == Session \ {s}

-----------------------------------------------------------------------------
(* Actions *)

Init ==
  /\ request = [status |-> "NONE", approved |-> NoQuotation]
  /\ quotations = [q \in Quotation |-> "PENDING"]
  /\ priced = {}
  /\ shipments = 0
  /\ cachedRequest = Miss
  /\ cachedQuotation = [q \in Quotation |-> Miss]
  /\ session = [s \in Session |-> Idle]

\* generateQuotations: a price is calculated wherever the tenant has the settings
\* for it, and asked for elsewhere.
Generated(q) == IF q \in Manual THEN "WAITING_PRICING_REQUEST" ELSE "PENDING"

\* create and persistShipmentRequestData: the request and all its quotations in one
\* transaction.  Nobody knows the id before it returns.
Create ==
  /\ request.status = "NONE"
  /\ request' = [request EXCEPT !.status = "PENDING"]
  /\ quotations' = [q \in Quotation |-> Generated(q)]
  /\ priced' = Quotation \ Manual
  /\ UNCHANGED <<shipments, caches, session>>

\* findById of a quotation, from the cache or else from its row.
ReadQuotation(s, op, q) ==
  /\ session[s].phase = "idle"
  /\ request.status # "NONE"
  /\ op \in Op \cap QuotationOps
  /\ session' = [session EXCEPT ![s] =
       [Idle EXCEPT !.op = op, !.quotation = q,
          !.phase = IF cachedQuotation[q] = Miss THEN "quotationLoaded" ELSE "quotation",
          !.seenQuotation = IF cachedQuotation[q] = Miss THEN quotations[q]
                                                         ELSE cachedQuotation[q]]]
  /\ UNCHANGED <<rows, caches>>

\* findById of the request.  A later read of the same HTTP request gets this copy.
RequestRead(t) ==
  [t EXCEPT !.phase = IF cachedRequest = Miss THEN "requestLoaded" ELSE "request",
            !.seen = IF cachedRequest = Miss THEN request.status ELSE cachedRequest]

ReadRequest(s, op) ==
  /\ \/ /\ session[s].phase = "quotation"
        /\ op = session[s].op
        /\ session' = [session EXCEPT ![s] = RequestRead(@)]
     \/ /\ session[s].phase = "idle"
        /\ request.status # "NONE"
        /\ op \in Op \ QuotationOps
        /\ op = "convert" => shipments < MaxShipments
        /\ session' = [session EXCEPT ![s] = RequestRead([Idle EXCEPT !.op = op])]
  /\ UNCHANGED <<rows, caches>>

\* remember: what a miss loaded is stored, however old it is by now.  A failure of
\* Redis to store it is a Fill that expires at once.
Fill(s) ==
  /\ \/ /\ session[s].phase = "quotationLoaded"
        /\ session' = [session EXCEPT ![s].phase = "quotation"]
        /\ cachedQuotation' =
             [cachedQuotation EXCEPT ![session[s].quotation] = session[s].seenQuotation]
        /\ UNCHANGED cachedRequest
     \/ /\ session[s].phase = "requestLoaded"
        /\ session' = [session EXCEPT ![s].phase = "request"]
        /\ cachedRequest' = session[s].seen
        /\ UNCHANGED cachedQuotation
  /\ UNCHANGED rows

\* A command of a single statement: no status in its WHERE, no version.
Statement(s, op) ==
  /\ session[s].phase = "request"
  /\ session[s].op = op
  /\ RuleHolds(s)
  /\ session' = [session EXCEPT ![s] = [Idle EXCEPT !.phase = "committed", !.op = op]]
  /\ UNCHANGED <<shipments, caches>>

SetQuotation(s, status) ==
  /\ \A o \in Others(s) : ~LocksQuotation(o, session[s].quotation)
  /\ quotations' = [quotations EXCEPT ![session[s].quotation] = status]
  /\ UNCHANGED request

RequestManualPricing(s) ==
  /\ Statement(s, "requestPrice")
  /\ SetQuotation(s, "WAITING_PRICING")
  /\ UNCHANGED priced

SubmitManualPrice(s) ==
  /\ Statement(s, "submitPrice")
  /\ SetQuotation(s, "PENDING")
  /\ priced' = priced \cup {session[s].quotation}

SetRequest(s, op) ==
  /\ Statement(s, op)
  /\ \A o \in Others(s) : ~LocksRequest(o)
  /\ request' = [request EXCEPT !.status = Decided(op)]
  /\ UNCHANGED <<quotations, priced>>

AcceptByCompany(s) == SetRequest(s, "accept")

RejectByCompany(s) == SetRequest(s, "reject")

Cancel(s) == SetRequest(s, "cancel")

RejectableKeepsApproved(q) ==
  {o \in Quotation \ {q} : quotations[o] \notin {"REJECTED", "EXPIRED", "APPROVED"}}

\* The rows rejectOtherQuotations finds.
Rejectable(q) ==
  {o \in Quotation \ {q} : quotations[o] \notin {"REJECTED", "EXPIRED"}}

\* A transaction has made its updates; nobody sees them yet.
WriteRows(s, op, locked) ==
  /\ session[s].phase = "request"
  /\ session[s].op = op
  /\ RuleHolds(s)
  /\ \A o \in Others(s) : ~LocksRequest(o)
  /\ session' = [session EXCEPT ![s] =
       [Idle EXCEPT !.phase = "written", !.op = op,
                    !.quotation = session[s].quotation, !.locked = locked]]
  /\ UNCHANGED <<rows, caches>>

\* executeApprovalTransaction, and convert at the end of persistShipment.
WriteApproval(s) == WriteRows(s, "approve", Rejectable(session[s].quotation))

WriteConversion(s) == WriteRows(s, "convert", {})

\* CacheEvict of acceptQuotationForRequest or convert, inside the transaction.
EvictBefore(s) ==
  /\ session[s].phase = "written"
  /\ cachedRequest' \in {Miss, cachedRequest}
  /\ session' = [session EXCEPT ![s].phase = "evicted"]
  /\ UNCHANGED <<rows, cachedQuotation>>

CommitApproval(s) ==
  LET t == session[s]
  IN
  /\ t.phase = "evicted"
  /\ t.op = "approve"
  /\ request' = [status |-> Decided(t.op), approved |-> t.quotation]
  /\ quotations' = [q \in Quotation |->
       CASE q = t.quotation  -> "APPROVED"
         [] q \in t.locked   -> "REJECTED"
         [] OTHER            -> quotations[q]]
  /\ session' = [session EXCEPT ![s] = [Idle EXCEPT !.phase = "committed", !.op = t.op]]
  /\ UNCHANGED <<priced, shipments, caches>>

CommitConversion(s) ==
  /\ session[s].phase = "evicted"
  /\ session[s].op = "convert"
  /\ request' = [request EXCEPT !.status = Decided("convert")]
  /\ shipments' = shipments + 1
  /\ session' = [session EXCEPT ![s] = Idle]
  /\ UNCHANGED <<quotations, priced, caches>>

\* CacheEvict of the command.  An eviction that fails is logged and forgotten: it
\* leaves what Abandon leaves.
EvictAfter(s) ==
  /\ session[s].phase = "committed"
  /\ session' = [session EXCEPT ![s] = Idle]
  /\ \/ /\ session[s].op \in QuotationOps
        /\ cachedQuotation' = [q \in Quotation |-> Miss]
        /\ UNCHANGED cachedRequest
     \/ /\ session[s].op \notin QuotationOps
        /\ cachedRequest' = Miss
        /\ UNCHANGED cachedQuotation
  /\ UNCHANGED rows

\* A refusal, an error that rolls the transaction back, or a crash.
Abandon(s) ==
  /\ session[s].phase # "idle"
  /\ session' = [session EXCEPT ![s] = Idle]
  /\ UNCHANGED <<rows, caches>>

ExpireRequestNever ==
  /\ FALSE
  /\ UNCHANGED vars

\* Redis drops an entry when its time to live is over.
ExpireRequest ==
  /\ cachedRequest # Miss
  /\ cachedRequest' = Miss
  /\ UNCHANGED <<rows, cachedQuotation, session>>

ExpireQuotation(q) ==
  /\ cachedQuotation[q] # Miss
  /\ cachedQuotation' = [cachedQuotation EXCEPT ![q] = Miss]
  /\ UNCHANGED <<rows, cachedRequest, session>>

Next ==
  \/ Create
  \/ ExpireRequest
  \/ \E q \in Quotation : ExpireQuotation(q)
  \/ \E s \in Session :
       \/ \E op \in Op, q \in Quotation : ReadQuotation(s, op, q)
       \/ \E op \in Op : ReadRequest(s, op)
       \/ Fill(s)
       \/ RequestManualPricing(s)
       \/ SubmitManualPrice(s)
       \/ AcceptByCompany(s)
       \/ RejectByCompany(s)
       \/ Cancel(s)
       \/ WriteApproval(s)
       \/ WriteConversion(s)
       \/ EvictBefore(s)
       \/ CommitApproval(s)
       \/ CommitConversion(s)
       \/ EvictAfter(s)
       \/ Abandon(s)

Spec == Init /\ [][Next]_vars

\* Every entry is stored with a time to live, which Redis enforces.
FairSpec ==
  /\ Spec
  /\ WF_vars(ExpireRequest)
  /\ \A q \in Quotation : WF_vars(ExpireQuotation(q))

-----------------------------------------------------------------------------
(* Properties *)

\* Rows, cached copies and sessions keep their types.
TypeOK ==
  /\ request \in [status: RequestStatus \cup {"NONE"},
                  approved: Quotation \cup {NoQuotation}]
  /\ quotations \in [Quotation -> QuotationStatus]
  /\ priced \in SUBSET Quotation
  /\ shipments \in Nat
  /\ cachedRequest \in RequestStatus \cup {Miss}
  /\ cachedQuotation \in [Quotation -> QuotationStatus \cup {Miss}]
  /\ session \in [Session -> SessionState]

\* A quotation stands as approved only while the request names it, so never two of
\* them, however many approvals start from old copies.
OneAgreement ==
  \A q \in Quotation : quotations[q] = "APPROVED" => request.approved = q

\* What the customer agreed to has a price, even when the copy that was approved is
\* older than the row.
AgreementHasPrice ==
  request.approved \in Quotation => request.approved \in priced

\* Nothing is accepted, converted or shipped that no customer ever agreed to, even
\* through copies that are out of date.
NothingWithoutAgreement ==
  request.status \in {"CUSTOMER_APPROVED", "COMPANY_ACCEPTED", "CONVERTED"} \/ shipments > 0
    => request.approved \in Quotation

\* A copy of the request that is out of date does not stay in the cache.
StaleCopyGoes ==
  (cachedRequest \notin {Miss, request.status})
    ~> (cachedRequest \in {Miss, request.status})
=============================================================================
