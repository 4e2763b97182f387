------------------------------- MODULE Listings -------------------------------
(***************************************************************************)
(* The lists the application serves page by page, and a client that reads  *)
(* one of them to its end while rows are inserted, changed and deleted.    *)
(*                                                                         *)
(* Ten lists page by cursor: rows below the last id seen, highest first.   *)
(* Eight page by offset: rows skip .. skip + limit in the order of a       *)
(* column that may tie, and a count read beside them.  Most keep a page in *)
(* Redis, from a read that ended some time before, under a key that names  *)
(* the cursor or offset and the criteria; some keys are the same for       *)
(* criteria that are not, and a client is then given another's page.       *)
(*                                                                         *)
(*   idle | done --Ask--> asked --Hit--> asked | done                      *)
(*   asked --Begin--> loading --ReadRows, CountRows--> --Answer--> asked | done *)
(***************************************************************************)
EXTENDS Naturals, FiniteSets

CONSTANTS
  MaxRow,      \* bound: rows; an id is a number, later rows have greater ids
  Value,       \* values of the columns criteria compare for equality
  AnyValue,    \* a criterion that is not given
  Spelled,     \* the text a key has in place of a criterion that is not given
  Place,       \* values of the column an offset list is ordered by
  Unit,        \* organization units at the ends of a row
  Limit,       \* rows on a page
  MaxChanges,  \* bound: inserts, updates and deletes
  Lists        \* the lists that are read

ASSUME RowAssumption == MaxRow \in Nat \ {0} /\ Limit \in Nat \ {0} /\ MaxChanges \in Nat
ASSUME PlaceAssumption == Place \subseteq Nat
ASSUME AnyAssumption == AnyValue \notin Value

VARIABLES
  rows,     \* the table: is a row there, its columns, the units at its ends
  list,     \* the list the client reads,
  asked,    \*   and its criteria
  pages,    \* Redis: the page kept under each cursor or offset, if one is
  reader,   \* the client, the page its request has in hand, what it has seen
  changes   \* how often the table was written

listingVars == <<rows, list, asked, pages, reader, changes>>

-----------------------------------------------------------------------------
(* Rows, criteria, pages *)

Row == 1 .. MaxRow

Content == [there: BOOLEAN, value: Value, place: Place, ends: SUBSET Unit]

\* A cursor (MaxRow + 1 before the first page), or an offset.
Key == 0 .. MaxRow + 1

Criteria == [value: Value \cup {AnyValue}, scoped: BOOLEAN, units: SUBSET Unit, since: Row]

\* `kept`, `quiet` and `own` are not in the program: the rows that were in the
\* list ever since the page was read, whether no row was written since, and
\* whether it was read for the client's criteria.
Page == [ids: SUBSET Row, more: BOOLEAN, next: Key, total: 0 .. MaxRow, read: BOOLEAN,
         counted: BOOLEAN, kept: SUBSET Row, quiet: BOOLEAN, own: BOOLEAN]

\* `again`: the rows that came on two pages.
Reader == [step: {"idle", "asked", "loading", "done"}, at: Key, page: Page, seen: SUBSET Row,
           again: SUBSET Row, kept: SUBSET Row, quiet: BOOLEAN, own: BOOLEAN]

ByCursor == {"shipments", "parcels", "invoices", "requests", "quotations", "prices",
             "zones", "units", "locations", "users"}

ByOffset == {"manifests", "trips", "vehicles", "tenants", "plans", "roles", "employees"}

\* The employee2 list has no ORDER BY, and keeps its rows beside its pages.
Unordered == {"employees2"}

Cached == {"shipments", "parcels", "requests", "quotations", "prices", "zones", "units",
           "locations", "tenants", "plans", "employees", "employees2"}

-----------------------------------------------------------------------------
(* What each list holds: its where clauses, as its service fills them in *)

Equal(r, c) == c.value \in {AnyValue, rows[r].value}

AtAnEnd(r, c) == c.units \cap rows[r].ends # {}

Plain == [value: Value \cup {AnyValue}, scoped: {FALSE}, units: {{}}, since: {1}]

\* Staff: the units they are assigned to, perhaps none.
Staff == [value: Value \cup {AnyValue}, scoped: {TRUE}, units: SUBSET Unit, since: {1}]

\* A customer is matched by phone, at either end of the route: a column.
ShipmentCriteria == Plain \cup Staff
Shipments(r, c) == Equal(r, c) /\ (c.scoped => AtAnEnd(r, c))

\* By the unit a parcel is at and the one it goes to.
ParcelCriteria == Plain \cup Staff
Parcels(r, c) == Equal(r, c) /\ (c.scoped => AtAnEnd(r, c))

\* A branch that is asked for takes the place of the assigned ones.
InvoiceCriteria ==
  LET branch == [value: Value \cup {AnyValue}, scoped: {TRUE},
                 units: {{u} : u \in Unit}, since: {1}]
      issued == [value: {AnyValue}, scoped: {FALSE}, units: {{}}, since: Row]
  IN  Staff \cup branch \cup issued
Invoices(r, c) == Equal(r, c) /\ (c.scoped => AtAnEnd(r, c)) /\ c.since <= r

\* A company sees what is sent to it (the column) and what its units quoted.
RequestCriteria == Plain \cup {k \in Staff : k.value # AnyValue}
Requests(r, c) == Equal(r, c) \/ (c.scoped /\ AtAnEnd(r, c))

\* One assigned unit is a criterion, several are not.
QuotationCriteria == Plain \cup Staff
Quotations(r, c) == Equal(r, c) /\ (Cardinality(c.units) = 1 => AtAnEnd(r, c))

Prices(r, c) == Equal(r, c)

Zones(r, c) == Equal(r, c)

Units(r, c) == Equal(r, c)

Locations(r, c) == Equal(r, c)

\* The ends of a user are the companies one of the profiles belongs to.
UserCriteria == Plain \cup {k \in Staff : Cardinality(k.units) = 1}
Users(r, c) == Equal(r, c) /\ (c.scoped => AtAnEnd(r, c))

\* Fleet drops a unit list that is empty.
ManifestCriteria == Plain \cup Staff
Manifests(r, c) == Equal(r, c) /\ (c.units # {} => AtAnEnd(r, c))

TripCriteria == Plain \cup Staff
Trips(r, c) == Equal(r, c) /\ (c.units # {} => AtAnEnd(r, c))

Vehicles(r, c) == Equal(r, c)

Tenants(r, c) == Equal(r, c)

Plans(r, c) == Equal(r, c)

Roles(r, c) == Equal(r, c)

\* By a unit of an active assignment.
EmployeeCriteria == Plain \cup {k \in Staff : Cardinality(k.units) = 1}
Employees(r, c) == Equal(r, c) /\ (c.scoped => AtAnEnd(r, c))

Employees2(r, c) == Equal(r, c) /\ (c.scoped => AtAnEnd(r, c))

CriteriaOf(l) ==
  CASE l = "shipments" -> ShipmentCriteria   [] l = "parcels" -> ParcelCriteria
    [] l = "invoices" -> InvoiceCriteria     [] l = "requests" -> RequestCriteria
    [] l = "quotations" -> QuotationCriteria [] l = "users" -> UserCriteria
    [] l = "manifests" -> ManifestCriteria   [] l = "trips" -> TripCriteria
    [] l \in {"employees", "employees2"} -> EmployeeCriteria
    [] OTHER -> Plain

Matches(r, c) ==
  CASE list = "shipments" -> Shipments(r, c)   [] list = "parcels" -> Parcels(r, c)
    [] list = "invoices" -> Invoices(r, c)     [] list = "requests" -> Requests(r, c)
    [] list = "quotations" -> Quotations(r, c) [] list = "prices" -> Prices(r, c)
    [] list = "zones" -> Zones(r, c)           [] list = "units" -> Units(r, c)
    [] list = "locations" -> Locations(r, c)   [] list = "users" -> Users(r, c)
    [] list = "manifests" -> Manifests(r, c)   [] list = "trips" -> Trips(r, c)
    [] list = "vehicles" -> Vehicles(r, c)     [] list = "tenants" -> Tenants(r, c)
    [] list = "plans" -> Plans(r, c)           [] list = "roles" -> Roles(r, c)
    [] list = "employees" -> Employees(r, c)   [] OTHER -> Employees2(r, c)

Listed(c) == {r \in Row : rows[r].there /\ Matches(r, c)}

InList == Listed(asked)

\* The lists that are searched by a text of the client's own.
ByText == {"shipments", "requests", "zones", "units", "locations", "plans", "employees2"}

\* What the key of a page has of the criteria: in two lists an empty list of
\* units is written as none at all, and a text may be the one that says so.
KeyOf(c) ==
  [c EXCEPT !.scoped = @ /\ ~(list \in {"shipments", "parcels"} /\ c.units = {}),
            !.value = IF list \in ByText /\ @ = Spelled THEN AnyValue ELSE @]

-----------------------------------------------------------------------------
(* Reading *)

\* The n highest of S.
Highest(S, n) == {r \in S : Cardinality({s \in S : r < s}) < n}

NoPage == [ids |-> {}, more |-> FALSE, next |-> 0, total |-> 0, read |-> FALSE,
           counted |-> FALSE, kept |-> {}, quiet |-> TRUE, own |-> TRUE]

Below(c, at) == {r \in Listed(c) : r < at}

PageFromTheNextRow(c, at) ==
  LET ids == Highest(Below(c, at), Limit)
      more == Cardinality(Below(c, at)) > Limit
  IN  {[ids |-> ids, more |-> more, next |-> n, total |-> 0, read |-> TRUE,
        counted |-> TRUE, kept |-> Listed(c), quiet |-> TRUE, own |-> c = asked] :
         n \in IF more THEN Highest(Below(c, at), Limit + 1) \ ids ELSE {0}}

\* limit + 1 rows are read; the last one only says that there are more.
CursorPage(c, at) ==
  LET ids == Highest(Below(c, at), Limit)
      more == Cardinality(Below(c, at)) > Limit
  IN  {[ids |-> ids, more |-> more, next |-> n, total |-> 0, read |-> TRUE,
        counted |-> TRUE, kept |-> Listed(c), quiet |-> TRUE, own |-> c = asked] :
         n \in IF more THEN {r \in ids : \A s \in ids : r <= s} ELSE {0}}

\* Rows of one place come in any order, at each read another one.
Tied(c, r) == {s \in Listed(c) : rows[s].place = rows[r].place}

Ahead(c, r) == {s \in Listed(c) : rows[s].place > rows[r].place}

RowsOneFurther(c, skip) == {ids \in SUBSET Listed(c) : \A r \in Listed(c) :
  LET first == Cardinality(Ahead(c, r)) + 1
      last == Cardinality(Ahead(c, r) \cup Tied(c, r))
  IN  Cardinality(ids \cap Tied(c, r)) =
        Cardinality((first .. last) \cap (skip + 2 .. skip + Limit + 1))}

\* order by created_at or full_name, offset skip, limit: of the rows of a place,
\* as many as of their numbers are on the page.
OffsetRows(c, skip) == {ids \in SUBSET Listed(c) : \A r \in Listed(c) :
  LET first == Cardinality(Ahead(c, r)) + 1
      last == Cardinality(Ahead(c, r) \cup Tied(c, r))
  IN  Cardinality(ids \cap Tied(c, r)) =
        Cardinality((first .. last) \cap (skip + 1 .. skip + Limit))}

\* Without an order any rows may fill the page, and they may be an older page's.
AnyRows == {ids \in SUBSET Row : Cardinality(ids) <= Limit}

\* The page after an offset's, if the count says there is one.
Numbered(p, at) ==
  IF at + Limit >= p.total THEN p ELSE [p EXCEPT !.more = TRUE, !.next = at + Limit]

\* A page of rows and a count, as another client's request reads it.
OffsetPage(c, at) ==
  {Numbered([ids |-> ids, more |-> FALSE, next |-> 0, total |-> Cardinality(Listed(c)),
             read |-> TRUE, counted |-> TRUE, kept |-> Listed(c), quiet |-> TRUE,
             own |-> c = asked], at) :
     ids \in IF list \in Unordered THEN AnyRows ELSE OffsetRows(c, at)}

FirstKey == IF list \in ByCursor THEN MaxRow + 1 ELSE 0

\* The client takes a page and, if there are more, asks for the next one.
Take(p) ==
  reader' = [reader EXCEPT !.step = IF p.more THEN "asked" ELSE "done",
               !.at = p.next, !.page = NoPage,
               !.seen = @ \cup p.ids, !.again = @ \cup (reader.seen \cap p.ids),
               !.kept = @ \cap p.kept, !.quiet = @ /\ p.quiet, !.own = @ /\ p.own]

\* Where every reading starts, for the client and for its request.
ListingsInit ==
  /\ rows \in [Row -> Content]
  /\ list \in Lists
  /\ asked \in CriteriaOf(list)
  /\ pages = [k \in Key |-> {}]
  /\ reader = [step |-> "idle", at |-> 0, page |-> NoPage, seen |-> {}, again |-> {},
               kept |-> {}, quiet |-> TRUE, own |-> TRUE]
  /\ changes = 0

Ask ==
  /\ reader.step \in {"idle", "done"}
  /\ reader' = [step |-> "asked", at |-> FirstKey, page |-> NoPage, seen |-> {},
                again |-> {}, kept |-> Row, quiet |-> TRUE, own |-> TRUE]
  /\ UNCHANGED <<rows, list, asked, pages, changes>>

Hit ==
  /\ reader.step = "asked"
  /\ \E p \in pages[reader.at] : Take(p)
  /\ UNCHANGED <<rows, list, asked, pages, changes>>

Begin ==
  /\ reader.step = "asked"
  /\ pages[reader.at] = {}
  /\ reader' = [reader EXCEPT !.step = "loading"]
  /\ UNCHANGED <<rows, list, asked, pages, changes>>

ReadCursorPage ==
  /\ reader.step = "loading" /\ list \in ByCursor /\ ~reader.page.read
  /\ \E p \in CursorPage(asked, reader.at) : reader' = [reader EXCEPT !.page = p]
  /\ UNCHANGED <<rows, list, asked, pages, changes>>

ReadRows ==
  /\ reader.step = "loading" /\ list \notin ByCursor /\ ~reader.page.read
  /\ \E ids \in IF list \in Unordered THEN AnyRows ELSE OffsetRows(asked, reader.at) :
       reader' = [reader EXCEPT !.page.ids = ids, !.page.read = TRUE, !.page.kept = InList]
  /\ UNCHANGED <<rows, list, asked, pages, changes>>

\* The count is a query of its own, beside the rows or after them.
CountRows ==
  /\ reader.step = "loading" /\ list \notin ByCursor /\ ~reader.page.counted
  /\ list \in Unordered => reader.page.read
  /\ reader' = [reader EXCEPT !.page.total = Cardinality(InList), !.page.counted = TRUE]
  /\ UNCHANGED <<rows, list, asked, pages, changes>>

Answer ==
  /\ reader.step = "loading" /\ reader.page.read /\ reader.page.counted
  /\ LET p == IF list \in ByCursor THEN reader.page ELSE Numbered(reader.page, reader.at) IN
       /\ Take(p)
       /\ pages' = IF list \in Cached THEN [pages EXCEPT ![reader.at] = {p}] ELSE pages
  /\ UNCHANGED <<rows, list, asked, changes>>

\* Another client, whose criteria have the same key, has asked for a page.
AnswerAnother == \E c \in CriteriaOf(list) \ {asked}, at \in Key :
  /\ list \in Cached /\ KeyOf(c) = KeyOf(asked)
  /\ \E p \in IF list \in ByCursor THEN CursorPage(c, at) ELSE OffsetPage(c, at) :
       pages' = [pages EXCEPT ![at] = {p}]
  /\ UNCHANGED <<rows, list, asked, reader, changes>>

-----------------------------------------------------------------------------
(* Writing *)

\* A write evicts the pages on its own, before or after it commits; they also
\* expire.
Evict == \E gone \in {Key} \cup {{k} : k \in Key} :
  /\ \E k \in gone : pages[k] # {}
  /\ pages' = [k \in Key |-> IF k \in gone THEN {} ELSE pages[k]]
  /\ UNCHANGED <<rows, list, asked, reader, changes>>

\* Pages and the client lose what left the list.
Remaining(p) == [p EXCEPT !.kept = @ \cap InList', !.quiet = FALSE]

Write(r, content) ==
  /\ changes < MaxChanges
  /\ changes' = changes + 1
  /\ rows' = [rows EXCEPT ![r] = content]
  /\ UNCHANGED <<list, asked>>
  /\ pages' = [k \in Key |-> {Remaining(p) : p \in pages[k]}]
  /\ reader' = [Remaining(reader) EXCEPT !.page = Remaining(@)]

\* A row whose id was made earlier may still be committed later.
InsertRow == \E r \in Row, content \in Content :
  ~rows[r].there /\ content.there /\ Write(r, content)

ChangeRow == \E r \in Row, content \in Content :
  rows[r].there /\ content.there /\ content # rows[r] /\ Write(r, content)

DeleteRow == \E r \in Row :
  rows[r].there /\ Write(r, [rows[r] EXCEPT !.there = FALSE])

ListingsNext ==
  \/ Ask \/ Hit \/ Begin \/ ReadCursorPage \/ ReadRows \/ CountRows \/ Answer
  \/ AnswerAnother \/ Evict \/ InsertRow \/ ChangeRow \/ DeleteRow

ListingsSpec == ListingsInit /\ [][ListingsNext]_listingVars

-----------------------------------------------------------------------------
(* Properties *)

ListingsTypeOK ==
  /\ rows \in [Row -> Content]
  /\ list \in Lists
  /\ asked \in Criteria
  /\ pages \in [Key -> SUBSET Page]
  /\ reader \in Reader
  /\ changes \in 0 .. MaxChanges

\* A client that has read a cursor list to its end has seen every row that was
\* in the list ever since the pages it got were read, and no row twice, however
\* old the cached pages among them and whatever was written in between; unless
\* it was given a page read for other criteria, which their key does not tell
\* from its own (KeyOf).
PagesCoverWhatStays ==
  list \in ByCursor /\ reader.step = "done" /\ reader.own =>
    reader.kept \subseteq reader.seen /\ reader.again = {}

\* A client that has read an ordered offset list to its end, from pages of its
\* own criteria that no write came after, has seen rows of the list only, and
\* each that ties with no other once, the last page's too.  Rows that tie may
\* come twice or not at all: the order names no second column.
QuietListIsReadWhole ==
  list \in ByOffset /\ reader.step = "done" /\ reader.quiet /\ reader.own =>
    LET untied == {r \in InList : Tied(asked, r) = {r}} IN
    untied \subseteq reader.seen /\ reader.seen \subseteq InList /\ untied \cap reader.again = {}
=============================================================================
