---------------------------- MODULE Platform_proofs ----------------------------
(***************************************************************************)
(* What holds of the lists for any number of rows, page size, criteria and *)
(* writes, of a tenant's subscriptions and units for any number of         *)
(* managers, clerks, plans, subscriptions and unit types, and of the       *)
(* tables a demonstration starts from for any number of seeding runs.      *)
(*                                                                         *)
(* Lists by cursor: a page kept under a cursor speaks for the rows from    *)
(* its own cursor (inclusive, if there are more) up to that one: of those, *)
(* it has the rows that stayed since it was read, and no others (Covers).  *)
(* A write only takes rows out of what stayed.  So a reader at a cursor    *)
(* has seen all that stayed from there on, and nothing below (ReaderInv),  *)
(* and a page lays one interval next to the last, wherever it comes from,  *)
(* as long as it was read for the reader's criteria.                       *)
(*                                                                         *)
(* Lists by offset: a row that ties with no other has a number, one more   *)
(* than the rows ahead of it.  A page that no write came after has such a  *)
(* row if its number is one of the page's, and knows whether more follow   *)
(* (Current); a reader who met only such pages has seen those up to its    *)
(* offset (QuietReaderInv): a page adds the next ones and repeats none.    *)
(*                                                                         *)
(* Subscriptions: until two commands have overlapped, one is open at most  *)
(* (AloneInv).  The ids are then used in order, and only the latest of the *)
(* committed rows may be active (OrderInv): a replacement cancels all that *)
(* are, and adds the latest; a resumption is of the latest too (LastInv).  *)
(*                                                                         *)
(* Units: every limit in a row, in the cache or in a request was granted   *)
(* once (GrantedInv).  A clerk that has counted read a number under the    *)
(* limit, and only clerks that counted before it can add to it since: the  *)
(* units and those about to be are never over the limit by more than the   *)
(* clerks but one, and the units that changed their type (UnitsInv).       *)
(*                                                                         *)
(* Seeding: a seeder adds every row of its list if those it looks up are   *)
(* there, and it comes after their seeders (LookedUpBefore); what the run  *)
(* that truncated last has gone past is there, whatever others add or      *)
(* leave (PromisesInv).  That each lookup finds its row is a fact of the   *)
(* lists, shown entry by entry.                                            *)
(***************************************************************************)
EXTENDS Listings, Tenancy, Seeding, FiniteSetTheorems, TLAPS

-----------------------------------------------------------------------------
(* Lists by cursor: the inductive invariant *)

\* The rows a page p kept under cursor k speaks for.
Span(p, k) == {r \in Row : r < k /\ (p.more => p.next <= r)}

Covers(p, k) ==
  /\ p.more => p.next < k
  /\ p.ids \subseteq Span(p, k)
  /\ Span(p, k) \cap p.kept \subseteq p.ids

PagesInv == list \in ByCursor =>
  /\ \A k \in Key : \A p \in pages[k] : p.own => Covers(p, k)
  /\ reader.step = "loading" /\ reader.page.read => Covers(reader.page, reader.at)

ReaderInv == list \in ByCursor /\ reader.own =>
  /\ reader.step \in {"asked", "loading"} =>
       /\ \A r \in reader.seen : reader.at <= r
       /\ \A r \in reader.kept : reader.at <= r => r \in reader.seen
       /\ reader.again = {}
  /\ reader.step = "done" => reader.kept \subseteq reader.seen /\ reader.again = {}

\* Only a request has a page in hand.
EmptyHanded == reader.step # "loading" => ~reader.page.read

\* The inductive invariant.
ListingsInv == ListingsTypeOK /\ PagesInv /\ ReaderInv /\ EmptyHanded

-----------------------------------------------------------------------------
(* Sets of rows and their highest ones *)

LEMMA RowsAreFew ==
  ASSUME NEW S \in SUBSET Row
  PROVE  IsFiniteSet(S) /\ Cardinality(S) \in 0 .. MaxRow
<1>1. IsFiniteSet(Row) /\ Cardinality(Row) = MaxRow
  <2>1. 1 \in Int /\ MaxRow \in Int /\ ~(1 > MaxRow)
    BY RowAssumption
  <2>2. IsFiniteSet(1 .. MaxRow) /\ Cardinality(1 .. MaxRow) = MaxRow - 1 + 1
    BY <2>1, FS_Interval
  <2> QED
    BY <2>2, RowAssumption DEF Row
<1>2. IsFiniteSet(S) /\ Cardinality(S) <= Cardinality(Row)
  BY <1>1, FS_Subset
<1>3. Cardinality(S) \in Nat
  BY <1>2, FS_CardinalityType
<1> QED
  BY <1>1, <1>2, <1>3, RowAssumption

\* Fewer rows of S are above one of its members than S has.
LEMMA AboveIsSmaller ==
  ASSUME NEW S \in SUBSET Row, NEW r \in S
  PROVE  Cardinality({s \in S : r < s}) < Cardinality(S)
<1>1. IsFiniteSet(S) /\ Cardinality(S) \in Nat
  BY RowsAreFew, RowAssumption
<1>2. IsFiniteSet(S \ {r}) /\ Cardinality(S \ {r}) = Cardinality(S) - 1
  BY <1>1, FS_RemoveElement
<1>3. {s \in S : r < s} \in SUBSET (S \ {r})
  BY DEF Row
<1>4. Cardinality({s \in S : r < s}) <= Cardinality(S \ {r})
  BY <1>2, <1>3, FS_Subset
<1>5. Cardinality({s \in S : r < s}) \in Nat
  BY <1>1, <1>3, RowsAreFew
<1> QED
  BY <1>1, <1>2, <1>4, <1>5

\* A row above one of the n highest is one of them.
LEMMA HighestIsUpward ==
  ASSUME NEW S \in SUBSET Row, NEW n \in Nat, NEW q \in Highest(S, n), NEW r \in S, q <= r
  PROVE  r \in Highest(S, n)
<1> DEFINE A == {s \in S : r < s}
           B == {s \in S : q < s}
<1>1. q \in S /\ q \in Nat /\ r \in Nat /\ \A s \in S : s \in Nat
  BY DEF Highest, Row
<1>2. A \in SUBSET B
  <2>1. ASSUME NEW s \in S, r < s PROVE q < s
    BY <1>1, <2>1
  <2> QED
    BY <2>1
<1>3. B \in SUBSET Row /\ A \in SUBSET Row
  OBVIOUS
<1>4. IsFiniteSet(B) /\ Cardinality(B) \in Nat /\ Cardinality(A) \in Nat
  BY <1>3, RowsAreFew, RowAssumption
<1> HIDE DEF A, B
<1>5. Cardinality(A) <= Cardinality(B)
  BY <1>2, <1>4, FS_Subset
<1>6. Cardinality(B) < n
  BY DEF Highest, B
<1>7. Cardinality(A) < n
  BY <1>4, <1>5, <1>6
<1> QED
  BY <1>7 DEF Highest, A

\* If there are no more than n, they are all among the n highest.
LEMMA HighestOfFew ==
  ASSUME NEW S \in SUBSET Row, NEW n \in Nat, Cardinality(S) <= n
  PROVE  Highest(S, n) = S
<1>1. ASSUME NEW r \in S PROVE Cardinality({s \in S : r < s}) < n
  <2>1. Cardinality({s \in S : r < s}) < Cardinality(S)
    BY AboveIsSmaller
  <2>2. Cardinality({s \in S : r < s}) \in Nat /\ Cardinality(S) \in Nat
    <3>1. {s \in S : r < s} \in SUBSET Row
      OBVIOUS
    <3> QED
      BY <3>1, RowsAreFew, RowAssumption
  <2> QED
    BY <2>1, <2>2
<1> QED
  BY <1>1 DEF Highest

\* The page read at a cursor covers its span: with more rows to come, the rows
\* from the lowest it has; without, all below the cursor.
LEMMA CursorPageCovers ==
  ASSUME NEW k \in Key, NEW c, NEW p \in CursorPage(c, k)
  PROVE  Covers(p, k) /\ p \in Page /\ (p.own <=> c = asked)
<1> DEFINE B == Below(c, k)
           ids == Highest(B, Limit)
           more == Cardinality(B) > Limit
<1>1. Listed(c) \in SUBSET Row /\ B \in SUBSET Row /\ ids \in SUBSET B
  BY DEF Listed, Below, Highest
<1>2. PICK next \in IF more THEN {r \in ids : \A s \in ids : r <= s} ELSE {0} :
        p = [ids |-> ids, more |-> more, next |-> next, total |-> 0, read |-> TRUE,
             counted |-> TRUE, kept |-> Listed(c), quiet |-> TRUE, own |-> c = asked]
  BY DEF CursorPage
<1>3. /\ p.ids = ids /\ p.more = more /\ p.next = next /\ p.kept = Listed(c)
      /\ p.own = (c = asked)
  BY <1>2
<1>4. Cardinality(B) \in Nat /\ Limit \in Nat
  BY <1>1, RowsAreFew, RowAssumption
<1>5. p \in Page
  <2>1. next \in Key /\ 0 \in 0 .. MaxRow
    BY <1>1, <1>2, RowAssumption DEF Key, Row
  <2>2. ids \in SUBSET Row /\ more \in BOOLEAN /\ (c = asked) \in BOOLEAN
    BY <1>1, <1>4
  <2> HIDE DEF ids, more
  <2> QED
    BY <1>1, <1>2, <2>1, <2>2 DEF Page
<1>6. IF more THEN next \in ids /\ \A r \in ids : next <= r ELSE next = 0
  BY <1>2
<1>7. CASE more
  <2>1. next \in B /\ next < k
    BY <1>1, <1>6, <1>7 DEF Below
  <2>2. ASSUME NEW r \in ids PROVE r \in Row /\ r < k /\ next <= r
    BY <1>1, <1>6, <1>7 DEF Below
  <2>3. ASSUME NEW r \in Listed(c), r < k, next <= r PROVE r \in ids
    <3>1. r \in B
      BY <2>3 DEF Below
    <3> HIDE DEF B
    <3> QED
      BY <1>1, <1>4, <1>6, <1>7, <2>3, <3>1, HighestIsUpward
  <2>4. ids \subseteq Span(p, k)
    BY <1>3, <2>2 DEF Span
  <2>5. Span(p, k) \cap Listed(c) \subseteq ids
    BY <1>7, <1>3, <2>3 DEF Span
  <2> QED
    BY <1>3, <1>5, <2>1, <2>4, <2>5 DEF Covers
<1>8. CASE ~more
  <2>1. Cardinality(B) <= Limit
    BY <1>4, <1>8
  <2>2. ids = B
    BY <1>1, <1>4, <2>1, HighestOfFew
  <2>3. B = {r \in Listed(c) : r < k}
    BY DEF Below
  <2>4. ids \subseteq Span(p, k)
    BY <1>1, <1>3, <1>8, <2>2, <2>3 DEF Span
  <2>5. Span(p, k) \cap Listed(c) \subseteq ids
    BY <2>2, <2>3 DEF Span
  <2> QED
    BY <1>3, <1>5, <1>8, <2>4, <2>5 DEF Covers
<1> QED
  BY <1>3, <1>5, <1>7, <1>8

-----------------------------------------------------------------------------
(* The steps of the reader *)

LEMMA NoPageType == NoPage \in Page /\ ~NoPage.read
BY RowAssumption DEF NoPage, Page, Key

LEMMA CriteriaType == ASSUME NEW l PROVE CriteriaOf(l) \subseteq Criteria
<1>1. 1 \in Row
  BY RowAssumption DEF Row
<1>2. Plain \subseteq Criteria /\ Staff \subseteq Criteria
  BY <1>1 DEF Plain, Staff, Criteria
<1>3. InvoiceCriteria \subseteq Criteria
  <2>1. [value: Value \cup {AnyValue}, scoped: {TRUE}, units: {{u} : u \in Unit}, since: {1}]
          \subseteq Criteria
    BY <1>1 DEF Criteria
  <2>2. [value: {AnyValue}, scoped: {FALSE}, units: {{}}, since: Row] \subseteq Criteria
    BY DEF Criteria
  <2> QED
    BY <1>2, <2>1, <2>2 DEF InvoiceCriteria
<1>4. /\ ShipmentCriteria \subseteq Criteria /\ ParcelCriteria \subseteq Criteria
      /\ RequestCriteria \subseteq Criteria /\ QuotationCriteria \subseteq Criteria
      /\ UserCriteria \subseteq Criteria /\ ManifestCriteria \subseteq Criteria
      /\ TripCriteria \subseteq Criteria /\ EmployeeCriteria \subseteq Criteria
  BY <1>2 DEF ShipmentCriteria, ParcelCriteria, RequestCriteria, QuotationCriteria,
              UserCriteria, ManifestCriteria, TripCriteria, EmployeeCriteria
<1> QED
  BY <1>2, <1>3, <1>4 DEF CriteriaOf

LEMMA ListingsInitHolds == ListingsInit => ListingsInv
<1> SUFFICES ASSUME ListingsInit PROVE ListingsInv
  OBVIOUS
<1>1. asked \in Criteria
  BY CriteriaType DEF ListingsInit
<1>2. 0 \in Key /\ 0 \in 0 .. MaxChanges
  BY RowAssumption DEF Key
<1>3. reader \in Reader
  BY <1>2, NoPageType DEF ListingsInit, Reader
<1>4. pages \in [Key -> SUBSET Page]
  BY DEF ListingsInit
<1>5. ListingsTypeOK
  BY <1>1, <1>2, <1>3, <1>4 DEF ListingsInit, ListingsTypeOK
<1> QED
  BY <1>5, NoPageType DEF ListingsInit, ListingsInv, PagesInv, ReaderInv, EmptyHanded

LEMMA AskHolds == ListingsInv /\ Ask => ListingsInv'
<1> SUFFICES ASSUME ListingsInv, Ask PROVE ListingsInv'
  OBVIOUS
<1>1. /\ reader' = [step |-> "asked", at |-> FirstKey, page |-> NoPage, seen |-> {},
                    again |-> {}, kept |-> Row, quiet |-> TRUE, own |-> TRUE]
      /\ UNCHANGED <<rows, list, asked, pages, changes>>
  BY DEF Ask
<1>2. FirstKey \in Key
  BY RowAssumption DEF FirstKey, Key
<1>3. reader' \in Reader
  BY <1>1, <1>2, NoPageType DEF Reader
<1>4. list \in ByCursor => \A r \in Row : ~(FirstKey <= r)
  BY RowAssumption DEF FirstKey, Row
<1> QED
  BY <1>1, <1>3, <1>4, NoPageType DEF ListingsInv, ListingsTypeOK, PagesInv, ReaderInv, EmptyHanded

\* A page that covers its span moves the reader's edge from the cursor to the
\* page's own.
LEMMA TakeHolds ==
  ASSUME ListingsInv, reader.step \in {"asked", "loading"}, NEW p \in Page,
         list \in ByCursor /\ p.own => Covers(p, reader.at), Take(p),
         UNCHANGED <<rows, list, asked, changes>>,
         pages' \in [Key -> SUBSET Page],
         list \in ByCursor => \A k \in Key : \A q \in pages'[k] : q.own => Covers(q, k)
  PROVE  ListingsInv'
<1>1. reader \in Reader
  BY DEF ListingsInv, ListingsTypeOK
<1>2. /\ p.ids \in SUBSET Row /\ p.kept \in SUBSET Row /\ p.more \in BOOLEAN
      /\ p.next \in Key /\ p.quiet \in BOOLEAN /\ p.own \in BOOLEAN
  BY DEF Page
<1>3. /\ reader'.step = IF p.more THEN "asked" ELSE "done"
      /\ reader'.at = p.next
      /\ reader'.seen = reader.seen \cup p.ids
      /\ reader'.again = reader.again \cup (reader.seen \cap p.ids)
      /\ reader'.kept = reader.kept \cap p.kept
      /\ reader'.own = (reader.own /\ p.own)
  BY <1>1 DEF Take, Reader
<1>4. reader' \in Reader
  <2>1. /\ reader.seen \cup p.ids \in SUBSET Row
        /\ reader.again \cup (reader.seen \cap p.ids) \in SUBSET Row
        /\ reader.kept \cap p.kept \in SUBSET Row
        /\ (IF p.more THEN "asked" ELSE "done") \in {"idle", "asked", "loading", "done"}
    BY <1>1, <1>2 DEF Reader
  <2>2. (reader.quiet /\ p.quiet) \in BOOLEAN /\ (reader.own /\ p.own) \in BOOLEAN
    OBVIOUS
  <2>3. reader' = [reader EXCEPT !.step = IF p.more THEN "asked" ELSE "done",
                     !.at = p.next, !.page = NoPage, !.seen = reader.seen \cup p.ids,
                     !.again = reader.again \cup (reader.seen \cap p.ids),
                     !.kept = reader.kept \cap p.kept,
                     !.quiet = reader.quiet /\ p.quiet, !.own = reader.own /\ p.own]
    BY <1>1 DEF Take
  <2>4. reader' = [step |-> IF p.more THEN "asked" ELSE "done", at |-> p.next, page |-> NoPage,
                   seen |-> reader.seen \cup p.ids,
                   again |-> reader.again \cup (reader.seen \cap p.ids),
                   kept |-> reader.kept \cap p.kept,
                   quiet |-> (reader.quiet /\ p.quiet), own |-> (reader.own /\ p.own)]
    BY <1>1, <2>3 DEF Reader
  <2> QED
    BY <1>2, <2>1, <2>2, <2>4, NoPageType DEF Reader
<1>5. ListingsTypeOK'
  BY <1>4 DEF ListingsInv, ListingsTypeOK
<1>6. ASSUME list \in ByCursor, reader.own, p.own
      PROVE  /\ reader.seen \cap p.ids = {}
             /\ reader.again = {}
             /\ p.more => p.next < reader.at
             /\ \A r \in reader.seen : reader.at <= r
             /\ \A r \in p.ids : r < reader.at /\ (p.more => p.next <= r)
             /\ \A r \in reader.kept \cap p.kept :
                  (p.more => p.next <= r) => r \in reader.seen \cup p.ids
  <2>1. reader.at \in Int /\ (\A r \in Row : r \in Int) /\ reader.seen \subseteq Row
        /\ reader.kept \subseteq Row /\ p.next \in Int
    BY <1>1, <1>2, RowAssumption DEF Reader, Key, Row
  <2>2. /\ \A r \in reader.seen : reader.at <= r
        /\ \A r \in reader.kept : reader.at <= r => r \in reader.seen
        /\ reader.again = {}
    BY <1>6 DEF ListingsInv, ReaderInv
  <2>3. /\ p.more => p.next < reader.at
        /\ \A r \in p.ids : r < reader.at /\ (p.more => p.next <= r)
        /\ \A r \in Row : r < reader.at /\ (p.more => p.next <= r) /\ r \in p.kept => r \in p.ids
    BY <1>6 DEF Covers, Span
  <2>4. reader.seen \cap p.ids = {}
    BY <2>1, <2>2, <2>3
  <2>5. ASSUME NEW r \in reader.kept \cap p.kept, p.more => p.next <= r
        PROVE  r \in reader.seen \cup p.ids
    BY <2>1, <2>2, <2>3, <2>5
  <2> QED
    BY <2>2, <2>3, <2>4, <2>5
<1>7. ReaderInv'
  <2> SUFFICES ASSUME reader'.own PROVE ReaderInv'
    BY DEF ReaderInv
  <2> reader.own /\ p.own
    BY <1>1, <1>2, <1>3 DEF Reader
  <2>1. CASE list \in ByCursor /\ p.more
    <3>1. \A r \in reader'.seen : reader'.at <= r
      <4>1. reader.at \in Int /\ p.next \in Int /\ \A r \in reader.seen : r \in Int
        BY <1>1, <1>2, RowAssumption DEF Reader, Key, Row
      <4> QED
        BY <1>3, <1>6, <2>1, <4>1
    <3> QED
      BY <1>3, <1>6, <2>1, <3>1 DEF ReaderInv
  <2>2. CASE list \in ByCursor /\ ~p.more
    BY <1>3, <1>6, <2>2 DEF ReaderInv
  <2>3. CASE list \notin ByCursor
    BY <2>3 DEF ReaderInv
  <2> QED
    BY <2>1, <2>2, <2>3
<1>8. PagesInv' /\ EmptyHanded'
  <2>1. reader'.page = NoPage
    BY <1>1 DEF Take, Reader
  <2> QED
    BY <1>3, <2>1, NoPageType DEF PagesInv, EmptyHanded
<1> QED
  BY <1>5, <1>7, <1>8 DEF ListingsInv

LEMMA HitHolds == ListingsInv /\ Hit => ListingsInv'
<1> SUFFICES ASSUME ListingsInv, Hit PROVE ListingsInv'
  OBVIOUS
<1>1. reader.at \in Key /\ pages \in [Key -> SUBSET Page]
  BY DEF ListingsInv, ListingsTypeOK, Reader
<1>2. PICK p \in pages[reader.at] : Take(p)
  BY DEF Hit
<1>3. p \in Page /\ (list \in ByCursor /\ p.own => Covers(p, reader.at))
  BY <1>1, <1>2 DEF ListingsInv, PagesInv
<1>4. reader.step \in {"asked", "loading"} /\ UNCHANGED <<rows, list, asked, pages, changes>>
  BY DEF Hit
<1>5. list \in ByCursor => \A k \in Key : \A q \in pages'[k] : q.own => Covers(q, k)
  BY <1>4 DEF ListingsInv, PagesInv
<1> QED
  BY <1>1, <1>2, <1>3, <1>4, <1>5, TakeHolds

LEMMA BeginHolds == ListingsInv /\ Begin => ListingsInv'
<1> SUFFICES ASSUME ListingsInv, Begin PROVE ListingsInv'
  OBVIOUS
<1>1. /\ reader.step = "asked" /\ reader' = [reader EXCEPT !.step = "loading"]
      /\ UNCHANGED <<rows, list, asked, pages, changes>>
  BY DEF Begin
<1>2. reader' \in Reader /\ reader' = [reader EXCEPT !.step = "loading"]
  BY <1>1 DEF ListingsInv, ListingsTypeOK, Reader
<1>3. reader'.step = "loading" /\ reader'.page = reader.page /\ reader'.at = reader.at
      /\ reader'.seen = reader.seen /\ reader'.kept = reader.kept /\ reader'.again = reader.again
      /\ reader'.own = reader.own
  BY <1>1 DEF ListingsInv, ListingsTypeOK, Reader
<1>4. ~reader.page.read
  BY <1>1 DEF ListingsInv, EmptyHanded
<1> QED
  BY <1>1, <1>2, <1>3, <1>4 DEF ListingsInv, ListingsTypeOK, PagesInv, ReaderInv, EmptyHanded

\* The request's own read is that of a page which covers its span.
LEMMA ReadCursorPageHolds == ListingsInv /\ ReadCursorPage => ListingsInv'
<1> SUFFICES ASSUME ListingsInv, ReadCursorPage PROVE ListingsInv'
  OBVIOUS
<1>1. PICK p \in CursorPage(asked, reader.at) : reader' = [reader EXCEPT !.page = p]
  BY DEF ReadCursorPage
<1>2. reader.at \in Key /\ reader \in Reader
  BY DEF ListingsInv, ListingsTypeOK, Reader
<1>3. Covers(p, reader.at) /\ p \in Page
  BY <1>2, CursorPageCovers
<1>4. /\ reader' \in Reader /\ reader'.step = reader.step /\ reader'.at = reader.at
      /\ reader'.seen = reader.seen /\ reader'.kept = reader.kept /\ reader'.page = p
      /\ reader'.again = reader.again /\ reader'.own = reader.own
  BY <1>1, <1>2, <1>3 DEF Reader
<1>5. reader.step = "loading" /\ UNCHANGED <<rows, list, asked, pages, changes>>
  BY DEF ReadCursorPage
<1> QED
  BY <1>3, <1>4, <1>5 DEF ListingsInv, ListingsTypeOK, PagesInv, ReaderInv, EmptyHanded

\* The rows of a page by offset.
LEMMA OffsetRowsAreRows ==
  ASSUME NEW c, NEW k,
         NEW ids \in IF list \in Unordered THEN AnyRows ELSE OffsetRows(c, k)
  PROVE  ids \in SUBSET Row
BY DEF AnyRows, OffsetRows, Listed

LEMMA NumberedType ==
  ASSUME NEW p \in Page, NEW k \in Key
  PROVE  Numbered(p, k) \in Page /\ Numbered(p, k).own = p.own
<1>1. CASE k + Limit >= p.total
  BY <1>1 DEF Numbered
<1>2. CASE ~(k + Limit >= p.total)
  <2>1. Numbered(p, k) = [p EXCEPT !.more = TRUE, !.next = k + Limit]
    BY <1>2 DEF Numbered
  <2>2. p.total \in 0 .. MaxRow
    BY DEF Page
  <2>3. k + Limit \in Key
    BY <1>2, <2>2, RowAssumption DEF Key
  <2> QED
    BY <2>1, <2>3 DEF Page
<1> QED
  BY <1>1, <1>2

LEMMA OffsetPageType ==
  ASSUME NEW c, NEW k \in Key, NEW p \in OffsetPage(c, k)
  PROVE  p \in Page /\ (p.own <=> c = asked)
<1>1. PICK ids \in IF list \in Unordered THEN AnyRows ELSE OffsetRows(c, k) :
        p = Numbered([ids |-> ids, more |-> FALSE, next |-> 0, total |-> Cardinality(Listed(c)),
                      read |-> TRUE, counted |-> TRUE, kept |-> Listed(c), quiet |-> TRUE,
                      own |-> c = asked], k)
  BY DEF OffsetPage
<1>2. ids \in SUBSET Row
  BY OffsetRowsAreRows
<1>3. Listed(c) \in SUBSET Row
  BY DEF Listed
<1>4. Cardinality(Listed(c)) \in 0 .. MaxRow /\ 0 \in Key /\ (c = asked) \in BOOLEAN
  BY <1>3, RowsAreFew, RowAssumption DEF Key
<1> DEFINE q == [ids |-> ids, more |-> FALSE, next |-> 0, total |-> Cardinality(Listed(c)),
                 read |-> TRUE, counted |-> TRUE, kept |-> Listed(c), quiet |-> TRUE,
                 own |-> c = asked]
<1>5. q \in Page
  BY <1>2, <1>3, <1>4 DEF Page
<1>6. q.own = (c = asked) /\ p = Numbered(q, k)
  BY <1>1
<1> HIDE DEF q
<1> QED
  BY <1>5, <1>6, NumberedType

\* Offset lists are outside of the invariant: only the types are at stake.
LEMMA ReadOffsetHolds == ListingsInv /\ (ReadRows \/ CountRows) => ListingsInv'
<1> SUFFICES ASSUME ListingsInv, ReadRows \/ CountRows PROVE ListingsInv'
  OBVIOUS
<1>1. /\ reader.step = "loading" /\ list \notin ByCursor
      /\ UNCHANGED <<rows, list, asked, pages, changes>>
  BY DEF ReadRows, CountRows
<1>2. InList \in SUBSET Row /\ Cardinality(InList) \in 0 .. MaxRow
  BY RowsAreFew DEF InList, Listed
<1>3. reader \in Reader /\ reader.page \in Page
  BY DEF ListingsInv, ListingsTypeOK, Reader
<1>4. CASE ReadRows
  <2>1. PICK ids \in IF list \in Unordered THEN AnyRows ELSE OffsetRows(asked, reader.at) :
          reader' = [reader EXCEPT !.page.ids = ids, !.page.read = TRUE, !.page.kept = InList]
    BY <1>4 DEF ReadRows
  <2>2. ids \in SUBSET Row
    BY OffsetRowsAreRows
  <2>3. reader' \in Reader /\ reader'.step = reader.step
    BY <1>2, <1>3, <2>1, <2>2 DEF Reader, Page
  <2> QED
    BY <1>1, <2>3 DEF ListingsInv, ListingsTypeOK, PagesInv, ReaderInv, EmptyHanded
<1>5. CASE CountRows
  <2>1. reader' = [reader EXCEPT !.page.total = Cardinality(InList), !.page.counted = TRUE]
    BY <1>5 DEF CountRows
  <2>2. reader' \in Reader /\ reader'.step = reader.step
    BY <1>2, <1>3, <2>1 DEF Reader, Page
  <2> QED
    BY <1>1, <2>2 DEF ListingsInv, ListingsTypeOK, PagesInv, ReaderInv, EmptyHanded
<1> QED
  BY <1>4, <1>5

\* The page is kept as it is given out.
LEMMA AnswerHolds == ListingsInv /\ Answer => ListingsInv'
<1> SUFFICES ASSUME ListingsInv, Answer PROVE ListingsInv'
  OBVIOUS
<1> DEFINE p == IF list \in ByCursor THEN reader.page ELSE Numbered(reader.page, reader.at)
<1>1. /\ reader.step = "loading" /\ reader.page.read /\ Take(p)
      /\ pages' = IF list \in Cached THEN [pages EXCEPT ![reader.at] = {p}] ELSE pages
      /\ UNCHANGED <<rows, list, asked, changes>>
  BY DEF Answer
<1>2. reader.page \in Page /\ reader.at \in Key /\ pages \in [Key -> SUBSET Page]
  BY DEF ListingsInv, ListingsTypeOK, Reader
<1>3. p \in Page
  BY <1>2, NumberedType
<1>4. list \in ByCursor => p = reader.page
  OBVIOUS
<1>5. list \in ByCursor => Covers(p, reader.at)
  BY <1>1, <1>4 DEF ListingsInv, PagesInv
<1> HIDE DEF p
<1>6. pages' \in [Key -> SUBSET Page]
  BY <1>1, <1>2, <1>3
<1>7. list \in ByCursor => \A k \in Key : \A q \in pages'[k] : q.own => Covers(q, k)
  BY <1>1, <1>2, <1>5 DEF ListingsInv, PagesInv
<1> QED
  BY <1>1, <1>3, <1>5, <1>6, <1>7, TakeHolds

-----------------------------------------------------------------------------
(* The steps of the others *)

\* What another client is answered was not read for this one's criteria.
LEMMA AnswerAnotherHolds == ListingsInv /\ AnswerAnother => ListingsInv'
<1> SUFFICES ASSUME ListingsInv, AnswerAnother PROVE ListingsInv'
  OBVIOUS
<1>1. PICK c \in CriteriaOf(list) \ {asked}, o \in Key :
        \E p \in IF list \in ByCursor THEN CursorPage(c, o) ELSE OffsetPage(c, o) :
          pages' = [pages EXCEPT ![o] = {p}]
  BY DEF AnswerAnother
<1>2. PICK p \in IF list \in ByCursor THEN CursorPage(c, o) ELSE OffsetPage(c, o) :
        pages' = [pages EXCEPT ![o] = {p}]
  BY <1>1
<1>3. p \in Page /\ ~p.own
  <2>1. CASE list \in ByCursor
    BY <1>1, <2>1, CursorPageCovers
  <2>2. CASE list \notin ByCursor
    BY <1>1, <2>2, OffsetPageType
  <2> QED
    BY <2>1, <2>2
<1>4. UNCHANGED <<rows, list, asked, reader, changes>>
  BY DEF AnswerAnother
<1>5. pages \in [Key -> SUBSET Page]
  BY DEF ListingsInv, ListingsTypeOK
<1>6. pages' \in [Key -> SUBSET Page]
  BY <1>2, <1>3, <1>5
<1>7. ASSUME list \in ByCursor, NEW k \in Key, NEW q \in pages'[k], q.own PROVE Covers(q, k)
  <2>1. CASE k = o
    BY <1>2, <1>3, <1>5, <1>7, <2>1
  <2>2. CASE k # o
    BY <1>2, <1>5, <1>7, <2>2 DEF ListingsInv, PagesInv
  <2> QED
    BY <2>1, <2>2
<1> QED
  BY <1>4, <1>6, <1>7 DEF ListingsInv, ListingsTypeOK, PagesInv, ReaderInv, EmptyHanded

LEMMA EvictHolds == ListingsInv /\ Evict => ListingsInv'
<1> SUFFICES ASSUME ListingsInv, Evict PROVE ListingsInv'
  OBVIOUS
<1>1. PICK gone : pages' = [k \in Key |-> IF k \in gone THEN {} ELSE pages[k]]
  BY DEF Evict
<1>2. UNCHANGED <<rows, list, asked, reader, changes>>
  BY DEF Evict
<1>3. pages' \in [Key -> SUBSET Page]
  BY <1>1 DEF ListingsInv, ListingsTypeOK
<1> QED
  BY <1>1, <1>2, <1>3 DEF ListingsInv, ListingsTypeOK, PagesInv, ReaderInv, EmptyHanded

LEMMA RemainingCovers ==
  ASSUME NEW p \in Page, NEW k \in Key
  PROVE  /\ Remaining(p) \in Page /\ Remaining(p).own = p.own
         /\ Covers(p, k) => Covers(Remaining(p), k)
<1>1. /\ Remaining(p) \in Page
      /\ Remaining(p).ids = p.ids /\ Remaining(p).more = p.more
      /\ Remaining(p).next = p.next /\ Remaining(p).kept \subseteq p.kept
      /\ Remaining(p).read = p.read /\ Remaining(p).own = p.own
  BY DEF Remaining, Page
<1> QED
  BY <1>1 DEF Covers, Span

\* A write takes rows out of what stayed and does nothing else to a page.
LEMMA WriteHolds ==
  ASSUME ListingsInv, NEW r \in Row, NEW content \in Content, Write(r, content)
  PROVE  ListingsInv'
<1>1. /\ changes < MaxChanges /\ changes' = changes + 1
      /\ rows' = [rows EXCEPT ![r] = content]
      /\ UNCHANGED <<list, asked>>
      /\ pages' = [k \in Key |-> {Remaining(p) : p \in pages[k]}]
      /\ reader' = [Remaining(reader) EXCEPT !.page = Remaining(@)]
  BY DEF Write
<1>2. reader \in Reader /\ reader.page \in Page /\ reader.at \in Key
  BY DEF ListingsInv, ListingsTypeOK, Reader
<1>3. /\ Remaining(reader) \in Reader /\ Remaining(reader).page = reader.page
      /\ Remaining(reader).step = reader.step /\ Remaining(reader).at = reader.at
      /\ Remaining(reader).seen = reader.seen /\ Remaining(reader).again = reader.again
      /\ Remaining(reader).kept \subseteq reader.kept /\ Remaining(reader).own = reader.own
  BY <1>2 DEF Remaining, Reader
<1>4. Remaining(reader.page) \in Page /\ Remaining(reader.page).read = reader.page.read
  BY <1>2 DEF Remaining, Page
<1>5. /\ reader' \in Reader /\ reader'.page = Remaining(reader.page)
      /\ reader'.step = reader.step /\ reader'.at = reader.at
      /\ reader'.seen = reader.seen /\ reader'.again = reader.again
      /\ reader'.kept \subseteq reader.kept /\ reader'.own = reader.own
  BY <1>1, <1>3, <1>4 DEF Reader
<1>6. pages' \in [Key -> SUBSET Page]
  BY <1>1, RemainingCovers DEF ListingsInv, ListingsTypeOK
<1>7. changes' \in 0 .. MaxChanges /\ rows' \in [Row -> Content]
  BY <1>1, RowAssumption DEF ListingsInv, ListingsTypeOK
<1>8. ListingsTypeOK'
  BY <1>1, <1>5, <1>6, <1>7 DEF ListingsInv, ListingsTypeOK
<1>9. PagesInv'
  <2>1. ASSUME list \in ByCursor, NEW k \in Key, NEW q \in pages'[k], q.own PROVE Covers(q, k)
    <3>1. PICK p \in pages[k] : q = Remaining(p)
      BY <1>1, <2>1
    <3>2. p \in Page /\ Covers(p, k)
      BY <2>1, <3>1, RemainingCovers DEF ListingsInv, ListingsTypeOK, PagesInv
    <3> QED
      BY <3>1, <3>2, RemainingCovers
  <2>2. ASSUME list \in ByCursor, reader.step = "loading", reader.page.read
        PROVE  Covers(Remaining(reader.page), reader.at)
    BY <1>2, <2>2, RemainingCovers DEF ListingsInv, PagesInv
  <2> QED
    BY <1>1, <1>4, <1>5, <2>1, <2>2 DEF PagesInv
<1>10. ReaderInv' /\ EmptyHanded'
  BY <1>1, <1>4, <1>5 DEF ListingsInv, ReaderInv, EmptyHanded
<1> QED
  BY <1>8, <1>9, <1>10 DEF ListingsInv

LEMMA WritesHold == ListingsInv /\ (InsertRow \/ ChangeRow \/ DeleteRow) => ListingsInv'
<1> SUFFICES ASSUME ListingsInv, InsertRow \/ ChangeRow \/ DeleteRow PROVE ListingsInv'
  OBVIOUS
<1>1. \A r \in Row : [rows[r] EXCEPT !.there = FALSE] \in Content
  BY DEF ListingsInv, ListingsTypeOK, Content
<1>2. \E r \in Row, content \in Content : Write(r, content)
  BY <1>1 DEF InsertRow, ChangeRow, DeleteRow
<1> QED
  BY <1>2, WriteHolds

LEMMA ListingsStepHolds == ListingsInv /\ [ListingsNext]_listingVars => ListingsInv'
<1> SUFFICES ASSUME ListingsInv, [ListingsNext]_listingVars PROVE ListingsInv'
  OBVIOUS
<1>1. CASE ListingsNext
  BY <1>1, AskHolds, HitHolds, BeginHolds, ReadCursorPageHolds, ReadOffsetHolds, AnswerHolds,
     AnswerAnotherHolds, EvictHolds, WritesHold DEF ListingsNext
<1>2. CASE UNCHANGED listingVars
  BY <1>2 DEF listingVars, ListingsInv, ListingsTypeOK, PagesInv, ReaderInv, EmptyHanded
<1> QED
  BY <1>1, <1>2

-----------------------------------------------------------------------------

\* Rows, pages and the reader keep their types.
THEOREM ListingsTypeCorrect == ListingsSpec => []ListingsTypeOK
<1>1. ListingsInv => ListingsTypeOK
  BY DEF ListingsInv
<1> QED
  BY <1>1, ListingsInitHolds, ListingsStepHolds, PTL DEF ListingsSpec

\* Whoever reads a cursor list to its end has seen every row that stayed, and none
\* twice, for any page size, table, criteria, writes and age of the cached pages,
\* if all were read for its criteria: the keys of most lists see to that.
THEOREM PagesCover == ListingsSpec => []PagesCoverWhatStays
<1>1. ListingsInv => PagesCoverWhatStays
  BY DEF ListingsInv, ReaderInv, PagesCoverWhatStays
<1> QED
  BY <1>1, ListingsInitHolds, ListingsStepHolds, PTL DEF ListingsSpec

-----------------------------------------------------------------------------
(* Lists by offset, as long as nothing is written *)

\* The rows that tie with no other of the list, and their number in its order.
Untied == {r \in InList : Tied(asked, r) = {r}}

Number(r) == Cardinality(Ahead(asked, r)) + 1

\* A page at an offset has such a row if the row's number is one of the page's.
HasItsRows(ids, k) ==
  /\ ids \subseteq InList
  /\ \A r \in Untied : r \in ids <=> k < Number(r) /\ Number(r) <= k + Limit

\* A page kept under an offset that no write came after has the rows it would
\* have now, and knows whether there is one more.
Current(p, k) ==
  /\ HasItsRows(p.ids, k)
  /\ IF p.more THEN p.next = k + Limit ELSE Cardinality(InList) <= k + Limit

PageInHandInv ==
  /\ ~reader.page.more
  /\ reader.step # "loading" => ~reader.page.read /\ ~reader.page.counted
  /\ reader.page.quiet =>
       /\ reader.page.read => HasItsRows(reader.page.ids, reader.at)
       /\ reader.page.counted => reader.page.total = Cardinality(InList)

\* A reader at an offset has seen the rows numbered up to it.
QuietReaderInv == reader.quiet /\ reader.own =>
  /\ reader.step \in {"asked", "loading"} =>
       /\ reader.seen \subseteq InList
       /\ \A r \in Untied : (r \in reader.seen <=> Number(r) <= reader.at) /\ r \notin reader.again
  /\ reader.step = "done" =>
       /\ reader.seen \subseteq InList
       /\ \A r \in Untied : r \in reader.seen /\ r \notin reader.again

OffsetInv == list \in ByOffset =>
  /\ \A k \in Key : \A p \in pages[k] : p.quiet /\ p.own => Current(p, k)
  /\ PageInHandInv
  /\ QuietReaderInv

LEMMA OffsetLists == list \in ByOffset => list \notin ByCursor /\ list \notin Unordered
BY DEF ByOffset, ByCursor, Unordered

\* A row of the list has a number, at most as large as the list.
LEMMA NumberType ==
  ASSUME ListingsTypeOK, NEW r \in InList
  PROVE  Number(r) \in 1 .. Cardinality(InList) /\ Cardinality(InList) \in Nat
<1>1. InList \in SUBSET Row /\ InList = Listed(asked)
  BY DEF InList, Listed
<1>2. IsFiniteSet(InList) /\ Cardinality(InList) \in Nat
  BY <1>1, RowsAreFew, RowAssumption
<1>3. IsFiniteSet(InList \ {r}) /\ Cardinality(InList \ {r}) = Cardinality(InList) - 1
  BY <1>2, FS_RemoveElement
<1>4. rows[r].place \in Nat
  BY <1>1, PlaceAssumption DEF ListingsTypeOK, Content
<1>5. Ahead(asked, r) \in SUBSET (InList \ {r})
  BY <1>1, <1>4 DEF Ahead
<1>6. Cardinality(Ahead(asked, r)) <= Cardinality(InList \ {r})
  BY <1>3, <1>5, FS_Subset
<1>7. Cardinality(Ahead(asked, r)) \in Nat
  BY <1>1, <1>5, RowsAreFew, RowAssumption
<1> QED
  BY <1>2, <1>3, <1>6, <1>7 DEF Number

\* The rows of a page, as they are read, are those numbered as its own.
LEMMA OffsetRowsAreNumbered ==
  ASSUME ListingsTypeOK, NEW k \in Nat, NEW ids \in OffsetRows(asked, k)
  PROVE  HasItsRows(ids, k)
<1>1. ids \subseteq InList /\ InList \in SUBSET Row /\ InList = Listed(asked)
  BY DEF OffsetRows, InList, Listed
<1>2. ASSUME NEW r \in Untied
      PROVE  r \in ids <=> k < Number(r) /\ Number(r) <= k + Limit
  <2>1. r \in InList /\ Tied(asked, r) = {r} /\ rows[r].place \in Nat
    BY <1>1, PlaceAssumption DEF Untied, ListingsTypeOK, Content
  <2>2. Ahead(asked, r) \in SUBSET Row /\ r \notin Ahead(asked, r)
    BY <1>1, <2>1 DEF Ahead
  <2> DEFINE n == Number(r)
             N == (n .. n) \cap (k + 1 .. k + Limit)
  <2>3. IsFiniteSet(Ahead(asked, r)) /\ n \in Nat
    BY <1>1, <2>1, <2>2, RowsAreFew, NumberType
  <2>4. Cardinality(Ahead(asked, r) \cup {r}) = n
    BY <2>2, <2>3, FS_AddElement DEF Number
  <2>5. Cardinality(ids \cap Tied(asked, r)) =
          Cardinality((Cardinality(Ahead(asked, r)) + 1 ..
                       Cardinality(Ahead(asked, r) \cup Tied(asked, r))) \cap (k + 1 .. k + Limit))
    BY <1>1, <2>1 DEF OffsetRows
  <2>6. Cardinality(ids \cap {r}) = Cardinality(N)
    BY <2>1, <2>4, <2>5 DEF Number
  <2>7. N = IF k < n /\ n <= k + Limit THEN {n} ELSE {}
    BY <2>3, RowAssumption
  <2>8. ids \cap {r} = IF r \in ids THEN {r} ELSE {}
    OBVIOUS
  <2>9. Cardinality({r}) = 1 /\ Cardinality({n}) = 1 /\ Cardinality({}) = 0
    BY FS_Singleton, FS_EmptySet
  <2> HIDE DEF n, N
  <2>10. CASE r \in ids
    <3>1. Cardinality(N) = 1
      BY <2>6, <2>8, <2>9, <2>10
    <3>2. k < n /\ n <= k + Limit
      BY <2>7, <2>9, <3>1
    <3> QED
      BY <2>10, <3>2 DEF n
  <2>11. CASE r \notin ids
    <3>1. Cardinality(N) = 0
      BY <2>6, <2>8, <2>9, <2>11
    <3>2. ~(k < n /\ n <= k + Limit)
      BY <2>7, <2>9, <3>1
    <3> QED
      BY <2>11, <3>2 DEF n
  <2> QED
    BY <2>10, <2>11
<1> QED
  BY <1>1, <1>2 DEF HasItsRows

LEMMA OffsetInitHolds == ListingsInit => OffsetInv
<1> SUFFICES ASSUME ListingsInit PROVE OffsetInv
  OBVIOUS
<1>1. \A k \in Key : pages[k] = {}
  BY DEF ListingsInit
<1>2. /\ reader.step = "idle" /\ ~reader.page.more /\ ~reader.page.read
      /\ ~reader.page.counted
  BY DEF ListingsInit, NoPage
<1> QED
  BY <1>1, <1>2 DEF OffsetInv, PageInHandInv, QuietReaderInv

\* The rows of the list are what they were, and so is their order.
LEMMA ListStays ==
  ASSUME UNCHANGED <<rows, list, asked>>
  PROVE  /\ InList' = InList /\ Untied' = Untied
         /\ \A r : Number(r)' = Number(r)
         /\ \A ids, k : HasItsRows(ids, k)' <=> HasItsRows(ids, k)
<1>1. \A r : Matches(r, asked)' = Matches(r, asked)
  BY DEF Matches, Equal, AtAnEnd, Shipments, Parcels, Invoices, Requests, Quotations, Prices, Zones,
     Units, Locations, Users, Manifests, Trips, Vehicles, Tenants, Plans, Roles, Employees, Employees2
<1>2. Listed(asked)' = Listed(asked)
  BY <1>1 DEF Listed
<1>3. InList' = InList
  BY <1>2 DEF InList
<1>4. \A r : Tied(asked, r)' = Tied(asked, r) /\ Ahead(asked, r)' = Ahead(asked, r)
  BY <1>2 DEF Tied, Ahead
<1>5. Untied' = Untied
  BY <1>3, <1>4 DEF Untied
<1>6. \A r : Number(r)' = Number(r)
  BY <1>4 DEF Number
<1> QED
  BY <1>3, <1>5, <1>6 DEF HasItsRows

LEMMA PagesStayCurrent ==
  ASSUME OffsetInv, list \in ByOffset, UNCHANGED <<rows, list, asked, pages>>
  PROVE  \A k \in Key : \A p \in pages'[k] : p.quiet /\ p.own => Current(p, k)'
BY ListStays DEF OffsetInv, Current

\* Each page starts where the ones before it end.
LEMMA TakeIsNext ==
  ASSUME ListingsInv, OffsetInv, list \in ByOffset, reader.step \in {"asked", "loading"},
         NEW p \in Page, p.quiet /\ p.own => Current(p, reader.at), Take(p),
         UNCHANGED <<rows, list, asked>>
  PROVE  PageInHandInv' /\ QuietReaderInv'
<1>1. reader \in Reader /\ reader.at \in Nat /\ Limit \in Nat
  BY RowAssumption DEF ListingsInv, ListingsTypeOK, Reader, Key
<1>2. /\ reader'.step = IF p.more THEN "asked" ELSE "done"
      /\ reader'.at = p.next /\ reader'.page = NoPage
      /\ reader'.seen = reader.seen \cup p.ids
      /\ reader'.again = reader.again \cup (reader.seen \cap p.ids)
      /\ reader'.quiet = (reader.quiet /\ p.quiet)
      /\ reader'.own = (reader.own /\ p.own)
  BY <1>1 DEF Take, Reader
<1>3. PageInHandInv'
  BY <1>2 DEF PageInHandInv, NoPage
<1>4. ASSUME reader'.quiet, reader'.own
      PROVE  /\ reader'.seen \subseteq InList
             /\ \A r \in Untied : r \notin reader'.again
             /\ \A r \in Untied : r \in reader'.seen <=> Number(r) <= reader.at + Limit
             /\ IF p.more THEN p.next = reader.at + Limit
                          ELSE Cardinality(InList) <= reader.at + Limit
  <2>1. reader.quiet /\ p.quiet /\ reader.own /\ p.own
    BY <1>1, <1>2, <1>4 DEF Page, Reader
  <2>2. /\ reader.seen \subseteq InList
        /\ \A r \in Untied : r \in reader.seen <=> Number(r) <= reader.at
        /\ \A r \in Untied : r \notin reader.again
    BY <2>1 DEF OffsetInv, QuietReaderInv
  <2>3. /\ p.ids \subseteq InList
        /\ \A r \in Untied : r \in p.ids <=> reader.at < Number(r) /\ Number(r) <= reader.at + Limit
        /\ IF p.more THEN p.next = reader.at + Limit
                     ELSE Cardinality(InList) <= reader.at + Limit
    BY <2>1 DEF Current, HasItsRows
  <2>4. ASSUME NEW r \in Untied
        PROVE  /\ r \notin reader'.again
               /\ r \in reader'.seen <=> Number(r) <= reader.at + Limit
    <3>1. Number(r) \in Nat
      BY NumberType DEF Untied, ListingsInv
    <3>2. /\ r \in reader.seen <=> Number(r) <= reader.at
          /\ r \in p.ids <=> reader.at < Number(r) /\ Number(r) <= reader.at + Limit
          /\ r \notin reader.again
      BY <2>2, <2>3, <2>4
    <3> HIDE DEF Number
    <3>3. r \in reader.seen \cup p.ids <=> Number(r) <= reader.at + Limit
      BY <1>1, <3>1, <3>2
    <3>4. r \notin reader.seen \cap p.ids
      BY <1>1, <3>1, <3>2
    <3> QED
      BY <1>2, <3>2, <3>3, <3>4
  <2> QED
    BY <1>2, <2>2, <2>3, <2>4
<1>5. QuietReaderInv'
  <2> SUFFICES ASSUME reader'.quiet, reader'.own PROVE QuietReaderInv'
    BY DEF QuietReaderInv
  <2>1. InList' = InList /\ Untied' = Untied /\ \A r : Number(r)' = Number(r)
    BY ListStays
  <2>2. CASE p.more
    BY <1>2, <1>4, <2>1, <2>2 DEF QuietReaderInv
  <2>3. CASE ~p.more
    <3>1. ASSUME NEW r \in Untied PROVE r \in reader'.seen
      <4>1. Number(r) \in 1 .. Cardinality(InList) /\ Cardinality(InList) \in Nat
        BY NumberType DEF Untied, ListingsInv
      <4>2. Cardinality(InList) <= reader.at + Limit
        BY <1>4, <2>3
      <4> HIDE DEF Number
      <4>3. Number(r) <= reader.at + Limit
        BY <1>1, <4>1, <4>2
      <4> QED
        BY <1>4, <3>1, <4>3
    <3> QED
      BY <1>2, <1>4, <2>1, <2>3, <3>1 DEF QuietReaderInv
  <2> QED
    BY <2>2, <2>3
<1> QED
  BY <1>3, <1>5

LEMMA AskIsFirst ==
  ASSUME ListingsInv, OffsetInv, list \in ByOffset, Ask
  PROVE  OffsetInv'
<1>1. /\ reader' = [step |-> "asked", at |-> FirstKey, page |-> NoPage, seen |-> {},
                    again |-> {}, kept |-> Row, quiet |-> TRUE, own |-> TRUE]
      /\ UNCHANGED <<rows, list, asked, pages>>
  BY DEF Ask
<1>2. reader'.at = 0 /\ reader'.seen = {} /\ reader'.again = {} /\ reader'.step = "asked"
      /\ reader'.page = NoPage
  BY <1>1, OffsetLists DEF FirstKey
<1>3. Untied' = Untied /\ \A r : Number(r)' = Number(r)
  BY <1>1, ListStays
<1>4. QuietReaderInv'
  <2>1. ASSUME NEW r \in Untied PROVE ~(Number(r) <= 0)
    <3>1. Number(r) \in 1 .. Cardinality(InList) /\ Cardinality(InList) \in Nat
      BY NumberType DEF Untied, ListingsInv
    <3> HIDE DEF Number
    <3> QED
      BY <3>1
  <2> QED
    BY <1>2, <1>3, <2>1 DEF QuietReaderInv
<1>5. PageInHandInv'
  BY <1>2 DEF PageInHandInv, NoPage
<1> QED
  BY <1>1, <1>4, <1>5, PagesStayCurrent DEF OffsetInv

LEMMA HitIsNext ==
  ASSUME ListingsInv, OffsetInv, list \in ByOffset, Hit
  PROVE  OffsetInv'
<1>1. reader.step = "asked" /\ UNCHANGED <<rows, list, asked, pages>>
  BY DEF Hit
<1>2. reader.at \in Key /\ pages \in [Key -> SUBSET Page]
  BY DEF ListingsInv, ListingsTypeOK, Reader
<1>3. PICK p \in pages[reader.at] : Take(p)
  BY DEF Hit
<1>4. p \in Page /\ (p.quiet /\ p.own => Current(p, reader.at))
  BY <1>2, <1>3 DEF OffsetInv
<1> QED
  BY <1>1, <1>3, <1>4, TakeIsNext, PagesStayCurrent DEF OffsetInv

\* The rows and the count are read in either order; a write between them is known.
LEMMA LoadingIsCurrent ==
  ASSUME ListingsInv, OffsetInv, list \in ByOffset, Begin \/ ReadRows \/ CountRows
  PROVE  OffsetInv'
<1>1. UNCHANGED <<rows, list, asked, pages>>
  BY DEF Begin, ReadRows, CountRows
<1>2. /\ InList' = InList /\ Untied' = Untied /\ \A r : Number(r)' = Number(r)
      /\ \A ids, k : HasItsRows(ids, k)' <=> HasItsRows(ids, k)
  BY <1>1, ListStays
<1>3. reader \in Reader /\ reader.page \in Page
  BY DEF ListingsInv, ListingsTypeOK, Reader
<1>4. PageInHandInv /\ QuietReaderInv
  BY DEF OffsetInv
<1>5. /\ reader'.at = reader.at /\ reader'.seen = reader.seen /\ reader'.again = reader.again
      /\ reader'.quiet = reader.quiet /\ reader'.own = reader.own
      /\ reader.step \in {"asked", "loading"} /\ reader'.step = "loading"
  BY <1>3 DEF Begin, ReadRows, CountRows, Reader
<1>6. QuietReaderInv'
  BY <1>2, <1>4, <1>5 DEF QuietReaderInv
<1>7. PageInHandInv'
  <2>1. CASE Begin
    <3>1. reader.step = "asked" /\ reader'.page = reader.page
      BY <1>3, <2>1 DEF Begin, Reader
    <3> QED
      BY <1>2, <1>4, <1>5, <3>1 DEF PageInHandInv
  <2>2. CASE ReadRows
    <3>1. PICK ids \in IF list \in Unordered THEN AnyRows ELSE OffsetRows(asked, reader.at) :
            reader' = [reader EXCEPT !.page.ids = ids, !.page.read = TRUE, !.page.kept = InList]
      BY <2>2 DEF ReadRows
    <3>2. reader.at \in Nat
      BY <1>3, RowAssumption DEF Reader, Key
    <3>3. HasItsRows(ids, reader.at) /\ reader.step = "loading"
      BY <2>2, <3>1, <3>2, OffsetLists, OffsetRowsAreNumbered DEF ReadRows, ListingsInv
    <3>4. /\ reader'.page.ids = ids /\ reader'.page.more = reader.page.more
          /\ reader'.page.quiet = reader.page.quiet
          /\ reader'.page.counted = reader.page.counted
          /\ reader'.page.total = reader.page.total
      BY <1>3, <3>1 DEF Reader, Page
    <3> QED
      BY <1>2, <1>4, <1>5, <3>3, <3>4 DEF PageInHandInv
  <2>3. CASE CountRows
    <3>1. /\ reader' = [reader EXCEPT !.page.total = Cardinality(InList), !.page.counted = TRUE]
          /\ reader.step = "loading"
      BY <2>3 DEF CountRows
    <3>2. /\ reader'.page.ids = reader.page.ids /\ reader'.page.more = reader.page.more
          /\ reader'.page.quiet = reader.page.quiet /\ reader'.page.read = reader.page.read
          /\ reader'.page.total = Cardinality(InList)
      BY <1>3, <3>1 DEF Reader, Page
    <3> QED
      BY <1>2, <1>4, <1>5, <3>1, <3>2 DEF PageInHandInv
  <2> QED
    BY <2>1, <2>2, <2>3
<1> QED
  BY <1>1, <1>6, <1>7, PagesStayCurrent DEF OffsetInv

\* What is answered is kept: the offset after it only if the count says so.
LEMMA AnswerIsCurrent ==
  ASSUME ListingsInv, OffsetInv, list \in ByOffset, Answer
  PROVE  OffsetInv'
<1> DEFINE p == Numbered(reader.page, reader.at)
<1>1. /\ reader.step = "loading" /\ reader.page.read /\ reader.page.counted /\ Take(p)
      /\ pages' = IF list \in Cached THEN [pages EXCEPT ![reader.at] = {p}] ELSE pages
      /\ UNCHANGED <<rows, list, asked>>
  BY OffsetLists DEF Answer
<1>2. /\ reader.page \in Page /\ reader.at \in Key /\ pages \in [Key -> SUBSET Page]
      /\ reader.at \in Nat /\ reader.page.total \in 0 .. MaxRow /\ Limit \in Nat
  BY RowAssumption DEF ListingsInv, ListingsTypeOK, Reader, Page, Key
<1>3. InList' = InList /\ \A ids, k : HasItsRows(ids, k)' <=> HasItsRows(ids, k)
  BY <1>1, ListStays
<1>4. p \in Page /\ (p.quiet => Current(p, reader.at))
  <2>1. /\ ~reader.page.more
        /\ reader.page.quiet => /\ HasItsRows(reader.page.ids, reader.at)
                                /\ reader.page.total = Cardinality(InList)
    BY <1>1 DEF OffsetInv, PageInHandInv
  <2>2. CASE reader.at + Limit >= reader.page.total
    <3>1. p = reader.page
      BY <2>2 DEF Numbered
    <3> HIDE DEF p
    <3> QED
      BY <1>2, <2>1, <2>2, <3>1 DEF Current
  <2>3. CASE ~(reader.at + Limit >= reader.page.total)
    <3>1. p = [reader.page EXCEPT !.more = TRUE, !.next = reader.at + Limit]
      BY <2>3 DEF Numbered
    <3>2. reader.at + Limit \in Key
      BY <1>2, <2>3, RowAssumption DEF Key
    <3> HIDE DEF p
    <3>3. /\ p \in Page /\ p.more /\ p.next = reader.at + Limit /\ p.ids = reader.page.ids
          /\ p.quiet = reader.page.quiet
      BY <1>2, <3>1, <3>2 DEF Page
    <3> QED
      BY <2>1, <3>3 DEF Current
  <2> QED
    BY <2>2, <2>3
<1> HIDE DEF p
<1>5. \A k \in Key : \A q \in pages'[k] : q.quiet /\ q.own => Current(q, k)'
  <2>1. ASSUME NEW k \in Key, NEW q \in pages'[k], q.quiet, q.own PROVE Current(q, k)
    BY <1>1, <1>2, <1>4, <2>1 DEF OffsetInv
  <2> QED
    BY <1>3, <2>1 DEF Current
<1> QED
  BY <1>1, <1>4, <1>5, TakeIsNext DEF OffsetInv

\* What another client is answered is not this one's.
LEMMA AnotherIsNotOwn ==
  ASSUME ListingsInv, OffsetInv, list \in ByOffset, AnswerAnother
  PROVE  OffsetInv'
<1>1. UNCHANGED <<rows, list, asked, reader>> /\ list \notin ByCursor
  BY OffsetLists DEF AnswerAnother
<1>2. PICK c \in CriteriaOf(list) \ {asked}, o \in Key :
        \E p \in OffsetPage(c, o) : pages' = [pages EXCEPT ![o] = {p}]
  BY <1>1 DEF AnswerAnother
<1>3. PICK p \in OffsetPage(c, o) : pages' = [pages EXCEPT ![o] = {p}]
  BY <1>2
<1>4. ~p.own /\ pages \in [Key -> SUBSET Page]
  BY <1>2, OffsetPageType DEF ListingsInv, ListingsTypeOK
<1>5. \A k \in Key : \A q \in pages'[k] : q.own => q \in pages[k]
  BY <1>3, <1>4
<1> QED
  BY <1>1, <1>5, ListStays DEF OffsetInv, PageInHandInv, QuietReaderInv, Current

\* After a write nothing is quiet.
LEMMA WriteIsHeard ==
  ASSUME ListingsInv, OffsetInv, list \in ByOffset,
         NEW r \in Row, NEW content \in Content, Write(r, content)
  PROVE  OffsetInv'
<1>1. /\ UNCHANGED list
      /\ pages' = [k \in Key |-> {Remaining(p) : p \in pages[k]}]
      /\ reader' = [Remaining(reader) EXCEPT !.page = Remaining(@)]
  BY DEF Write
<1>2. reader \in Reader /\ reader.page \in Page /\ pages \in [Key -> SUBSET Page]
  BY DEF ListingsInv, ListingsTypeOK, Reader
<1>3. /\ Remaining(reader) \in Reader /\ ~Remaining(reader).quiet
      /\ Remaining(reader).page = reader.page /\ Remaining(reader).step = reader.step
  BY <1>2 DEF Remaining, Reader
<1>4. ASSUME NEW p \in Page
      PROVE  /\ Remaining(p) \in Page /\ ~Remaining(p).quiet
             /\ Remaining(p).more = p.more /\ Remaining(p).read = p.read
             /\ Remaining(p).counted = p.counted
  BY DEF Remaining, Page
<1>5. /\ reader'.page = Remaining(reader.page) /\ reader'.step = reader.step
      /\ ~reader'.quiet
  BY <1>1, <1>2, <1>3, <1>4 DEF Reader
<1>6. PageInHandInv' /\ QuietReaderInv'
  BY <1>2, <1>4, <1>5 DEF OffsetInv, PageInHandInv, QuietReaderInv
<1>7. \A k \in Key : \A q \in pages'[k] : ~q.quiet
  BY <1>1, <1>2, <1>4
<1> QED
  BY <1>1, <1>6, <1>7 DEF OffsetInv

LEMMA OffsetStepHolds == ListingsInv /\ OffsetInv /\ [ListingsNext]_listingVars => OffsetInv'
<1> SUFFICES ASSUME ListingsInv, OffsetInv, [ListingsNext]_listingVars PROVE OffsetInv'
  OBVIOUS
<1>1. list' = list
  BY DEF ListingsNext, listingVars, Ask, Hit, Begin, ReadCursorPage, ReadRows, CountRows, Answer,
     AnswerAnother, Evict, InsertRow, ChangeRow, DeleteRow, Write
<1>2. CASE list \notin ByOffset
  BY <1>1, <1>2 DEF OffsetInv
<1> SUFFICES ASSUME list \in ByOffset PROVE OffsetInv'
  BY <1>2
<1>3. CASE ReadCursorPage
  BY <1>3, OffsetLists DEF ReadCursorPage
<1>4. CASE Evict
  <2>1. PICK gone : pages' = [k \in Key |-> IF k \in gone THEN {} ELSE pages[k]]
    BY <1>4 DEF Evict
  <2>2. UNCHANGED <<rows, list, asked, reader>>
    BY <1>4 DEF Evict
  <2> QED
    BY <2>1, <2>2, ListStays DEF OffsetInv, PageInHandInv, QuietReaderInv, Current
<1>5. CASE InsertRow \/ ChangeRow \/ DeleteRow
  <2>1. \A r \in Row : [rows[r] EXCEPT !.there = FALSE] \in Content
    BY DEF ListingsInv, ListingsTypeOK, Content
  <2>2. \E r \in Row, content \in Content : Write(r, content)
    BY <1>5, <2>1 DEF InsertRow, ChangeRow, DeleteRow
  <2> QED
    BY <2>2, WriteIsHeard
<1>6. CASE UNCHANGED listingVars
  <2>1. UNCHANGED <<rows, list, asked, pages, reader>>
    BY <1>6 DEF listingVars
  <2> QED
    BY <2>1, ListStays DEF OffsetInv, PageInHandInv, QuietReaderInv, Current
<1> QED
  BY <1>3, <1>4, <1>5, <1>6, AskIsFirst, HitIsNext, LoadingIsCurrent, AnswerIsCurrent,
     AnotherIsNotOwn DEF ListingsNext

\* A quiet reading of an ordered offset list sees each row that ties with no other
\* once, for any table, order, page size and criteria.
THEOREM QuietListsAreWhole == ListingsSpec => []QuietListIsReadWhole
<1>1. OffsetInv => QuietListIsReadWhole
  BY DEF OffsetInv, QuietReaderInv, QuietListIsReadWhole, Untied
<1>2. ListingsSpec => [](ListingsInv /\ OffsetInv)
  <2>1. ListingsInit => ListingsInv /\ OffsetInv
    BY ListingsInitHolds, OffsetInitHolds
  <2>2. ListingsInv /\ OffsetInv /\ [ListingsNext]_listingVars => (ListingsInv /\ OffsetInv)'
    BY ListingsStepHolds, OffsetStepHolds
  <2> QED
    BY <2>1, <2>2, PTL DEF ListingsSpec
<1> QED
  BY <1>1, <1>2, PTL

-----------------------------------------------------------------------------
(* The tenant: the inductive invariant *)

\* What an open command relies on: its new row is its own and uncommitted, and
\* the rows it cancels or found have been committed, which no row unlearns.
CommandsInv == \A m \in Manager :
  /\ command[m].step = "replacing" =>
       /\ subs[command[m].sub].status = "uncommitted"
       /\ command[m].replaces \subseteq Committed
       /\ \A n \in Manager \ {m} :
            command[n].step = "replacing" => command[n].sub # command[m].sub
  /\ command[m].step = "found" =>
       command[m].sub \in Committed /\ command[m].to \in {"ACTIVE", "SUSPENDED", "CANCELLED"}

\* Until two commands have overlapped, one is open at most.
AloneInv == ~overlapped =>
  \A m, n \in Manager : command[m].step # "idle" /\ command[n].step # "idle" => m = n

\* The ids are used without a gap, and only the latest committed row is active.
OrderInv == ~overlapped => \A s, o \in Sub : s < o =>
  /\ subs[o].status # "none" => subs[s].status # "none"
  /\ o \in Committed => s \notin ActiveSubs

\* The row a command replaces all the active ones by comes last, and one that is
\* resumed is the latest.
LastInv == ~overlapped => \A m \in Manager :
  /\ command[m].step = "replacing" =>
       /\ command[m].replaces = ActiveSubs
       /\ \A o \in Sub : command[m].sub < o => subs[o].status = "none"
  /\ command[m].step = "found" /\ command[m].to = "ACTIVE" =>
       \A o \in Committed : o <= command[m].sub

AtMost(limit, bound) == bound = -1 \/ (limit # -1 /\ limit <= bound)

\* Whatever limit is in a row, in the cache or in a request was granted once.
GrantedInv == \A t \in OrgType :
  /\ \A s \in Committed : AtMost(subs[s].max[t], granted[t])
  /\ \A max \in limits : AtMost(max[t], granted[t])
  /\ \A c \in Clerk :
       /\ \A max \in opening[c].load : AtMost(max[t], granted[t])
       /\ opening[c].step = "limited" /\ opening[c].type = t =>
            AtMost(opening[c].max, granted[t])

Counted(t) == {c \in Clerk : opening[c].step = "counted" /\ opening[c].type = t}

\* The units there are and those that are about to be.
UnitsInv == \A t \in OrgType : granted[t] # -1 =>
  /\ granted[t] = 0 => Counted(t) = {}
  /\ units[t] + Cardinality(Counted(t)) <= granted[t] + Cardinality(Clerk) - 1 + retyped[t]

SubscriptionsInv == CommandsInv /\ AloneInv /\ OrderInv /\ LastInv

TenancyInv == TenancyTypeOK /\ SubscriptionsInv /\ GrantedInv /\ UnitsInv

LEMMA NoCommandType == NoCommand \in Command /\ NoCommand.step = "idle"
BY TenancyBounds DEF NoCommand, Command, Sub, Status

LEMMA NoOpeningType ==
  NoOpening \in Opening /\ NoOpening.step = "idle" /\ NoOpening.load = {}
<1>1. (CHOOSE t \in OrgType : TRUE) \in OrgType
  BY TenancyBounds
<1> QED
  BY <1>1, TenancyBounds DEF NoOpening, Opening, PlanLimit

LEMMA TenancyInitHolds == TenancyInit => TenancyInv
<1> SUFFICES ASSUME TenancyInit PROVE TenancyInv
  OBVIOUS
<1>1. 0 \in PlanLimit /\ 0 \in 0 .. MaxUnits
  BY TenancyBounds DEF PlanLimit
<1>2. /\ company = "none" /\ limits = {} /\ overlapped = FALSE
      /\ \A t \in OrgType : units[t] = 0 /\ granted[t] = 0 /\ retyped[t] = 0
      /\ \A s \in Sub : subs[s].status = "none"
      /\ \A m \in Manager : command[m].step = "idle"
      /\ \A c \in Clerk : opening[c].step = "idle" /\ opening[c].load = {}
  BY NoCommandType, NoOpeningType DEF TenancyInit
<1>3. TenancyTypeOK
  <2>1. subs \in [Sub -> Subscription]
    <3>1. [status: {"none"}, max: {[t \in OrgType |-> 0]}] \subseteq Subscription
      BY <1>1 DEF Subscription, Status
    <3> QED
      BY <3>1 DEF TenancyInit
  <2>2. command \in [Manager -> Command]
    BY NoCommandType DEF TenancyInit
  <2>3. opening \in [Clerk -> Opening]
    BY NoOpeningType DEF TenancyInit
  <2>4. /\ units \in [OrgType -> 0 .. MaxUnits] /\ retyped \in [OrgType -> 0 .. MaxUnits]
        /\ granted \in [OrgType -> PlanLimit]
    BY <1>1 DEF TenancyInit
  <2> QED
    BY <1>2, <2>1, <2>2, <2>3, <2>4 DEF TenancyTypeOK
<1>4. SubscriptionsInv
  BY <1>2 DEF SubscriptionsInv, CommandsInv, AloneInv, OrderInv, LastInv, Committed, ActiveSubs
<1>5. GrantedInv
  BY <1>2 DEF GrantedInv, Committed
<1>6. UnitsInv
  <2>1. Cardinality(Clerk) \in Nat /\ Cardinality(Clerk) # 0
    BY ClerkAssumption, FS_CardinalityType, FS_EmptySet
  <2>2. ASSUME NEW t \in OrgType PROVE Counted(t) = {} /\ Cardinality(Counted(t)) = 0
    <3>1. Counted(t) = {}
      BY <1>2 DEF Counted
    <3> QED
      BY <3>1, FS_EmptySet
  <2> QED
    BY <1>2, <2>1, <2>2 DEF UnitsInv
<1> QED
  BY <1>3, <1>4, <1>5, <1>6 DEF TenancyInv

\* A command that opens while no other is open overlaps none.
LEMMA OpensOne ==
  ASSUME TenancyInv, NEW m \in Manager, NEW c \in Command, Opens(m, c)
  PROVE  /\ command' \in [Manager -> Command] /\ command'[m] = c /\ overlapped' \in BOOLEAN
         /\ command[m].step = "idle"
         /\ \A n \in Manager : n # m => command'[n] = command[n]
         /\ ~overlapped' => ~overlapped /\ \A n \in Manager : command[n].step = "idle"
BY DEF TenancyInv, TenancyTypeOK, Opens

LEMMA ClosesOne ==
  ASSUME TenancyInv, NEW m \in Manager, Closes(m)
  PROVE  /\ command' \in [Manager -> Command] /\ command'[m].step = "idle"
         /\ \A n \in Manager : n # m => command'[n] = command[n]
BY NoCommandType DEF TenancyInv, TenancyTypeOK, Closes

\* The only one open, unless two have overlapped.
LEMMA OnlyOne ==
  ASSUME TenancyInv, NEW m \in Manager, command[m].step # "idle", ~overlapped
  PROVE  \A n \in Manager : n # m => command[n].step = "idle"
BY DEF TenancyInv, SubscriptionsInv, AloneInv

LEMMA RowType ==
  ASSUME TenancyInv
  PROVE  /\ Sub \subseteq Int
         /\ \A m \in Manager : command[m].sub \in Sub /\ command[m].replaces \subseteq Sub
         /\ \A s \in Sub : subs[s] \in Subscription /\ subs[s].max \in [OrgType -> PlanLimit]
         /\ ActiveSubs \subseteq Committed /\ Committed \subseteq Sub
         /\ \A s \in Committed : subs[s].status \notin {"none", "uncommitted"}
BY TenancyBounds DEF TenancyInv, TenancyTypeOK, Command, Subscription, Sub, ActiveSubs, Committed

\* The limits: what is at most a bound is at most a higher one.
LEMMA HigherBounds ==
  ASSUME NEW a \in PlanLimit, NEW b \in PlanLimit
  PROVE  /\ Higher(a, b) \in PlanLimit
         /\ AtMost(b, Higher(a, b))
         /\ \A c \in PlanLimit : AtMost(c, a) => AtMost(c, Higher(a, b))
         /\ Higher(a, b) # -1 => a # -1 /\ a <= Higher(a, b)
BY TenancyBounds DEF PlanLimit, Higher, AtMost

LEMMA SubscriptionsStay ==
  ASSUME TenancyInv, UNCHANGED <<subs, command, overlapped>>
  PROVE  SubscriptionsInv'
BY DEF TenancyInv, SubscriptionsInv, CommandsInv, AloneInv, OrderInv, LastInv, Committed,
   ActiveSubs

LEMMA UnitsStay ==
  ASSUME TenancyInv, UNCHANGED <<units, opening, retyped, granted>>
  PROVE  UnitsInv'
BY DEF TenancyInv, UnitsInv, Counted

\* There are finitely many clerks, and so of those that have counted.
LEMMA CountedCards ==
  ASSUME NEW t
  PROVE  /\ IsFiniteSet(Counted(t)) /\ Cardinality(Counted(t)) \in Nat
         /\ Cardinality(Clerk) \in Nat /\ Cardinality(Clerk) # 0
         /\ Cardinality(Counted(t)) <= Cardinality(Clerk)
<1>1. Counted(t) \subseteq Clerk
  BY DEF Counted
<1> QED
  BY <1>1, ClerkAssumption, FS_CardinalityType, FS_EmptySet, FS_Subset

-----------------------------------------------------------------------------
(* The tenant: its subscriptions *)

\* A new row is the first whose id is free, and nobody has it yet.
LEMMA AssignHolds ==
  ASSUME TenancyInv, NEW m \in Manager, Assign(m)
  PROVE  TenancyInv'
<1>1. PICK s \in Sub, plan \in PlanRows :
        /\ subs[s].status = "none" /\ \A o \in 1 .. s - 1 : subs[o].status # "none"
        /\ Opens(m, [step |-> "replacing", to |-> "ACTIVE", sub |-> s, replaces |-> ActiveSubs])
        /\ subs' = [subs EXCEPT ![s] = [status |-> "uncommitted", max |-> plan]]
  BY DEF Assign
<1>2. UNCHANGED <<company, limits, granted, units, opening, retyped>>
  BY DEF Assign, unitVars
<1> DEFINE c == [step |-> "replacing", to |-> "ACTIVE", sub |-> s, replaces |-> ActiveSubs]
<1>3. /\ c \in Command /\ c.step = "replacing" /\ c.sub = s /\ c.replaces = ActiveSubs
      /\ c.to = "ACTIVE"
  BY DEF Command, Status, ActiveSubs
<1>4. Opens(m, c)
  BY <1>1
<1> HIDE DEF c
<1>5. /\ command' \in [Manager -> Command] /\ command'[m] = c /\ overlapped' \in BOOLEAN
      /\ \A n \in Manager : n # m => command'[n] = command[n]
      /\ ~overlapped' => ~overlapped /\ \A n \in Manager : command[n].step = "idle"
  BY <1>3, <1>4, OpensOne
<1>6. /\ subs' \in [Sub -> Subscription] /\ subs'[s].status = "uncommitted"
      /\ \A o \in Sub : o # s => subs'[o] = subs[o]
  <2>1. [status |-> "uncommitted", max |-> plan] \in Subscription
    BY PlanAssumption DEF Subscription, Status, PlanLimit
  <2> QED
    BY <1>1, <2>1 DEF TenancyInv, TenancyTypeOK
<1>7. Committed' = Committed /\ ActiveSubs' = ActiveSubs /\ s \notin Committed
  BY <1>1, <1>6 DEF Committed, ActiveSubs
<1>8. TenancyTypeOK'
  BY <1>2, <1>5, <1>6 DEF TenancyInv, TenancyTypeOK
<1>9. CommandsInv'
  <2>1. ASSUME NEW n \in Manager, command[n].step = "replacing" PROVE command[n].sub # s
    BY <1>1, <2>1 DEF TenancyInv, SubscriptionsInv, CommandsInv
  <2>2. ASSUME NEW n \in Manager, n # m, command'[n].step = "replacing"
        PROVE  /\ subs'[command'[n].sub].status = "uncommitted"
               /\ command'[n].replaces \subseteq Committed'
               /\ \A k \in Manager \ {n} :
                    command'[k].step = "replacing" => command'[k].sub # command'[n].sub
    BY <1>3, <1>5, <1>6, <1>7, <2>1, <2>2, RowType
       DEF TenancyInv, SubscriptionsInv, CommandsInv
  <2>3. /\ subs'[command'[m].sub].status = "uncommitted"
        /\ command'[m].replaces \subseteq Committed'
        /\ \A k \in Manager \ {m} :
             command'[k].step = "replacing" => command'[k].sub # command'[m].sub
    BY <1>3, <1>5, <1>6, <1>7, <2>1, RowType
  <2>4. ASSUME NEW n \in Manager, command'[n].step = "found"
        PROVE  /\ command'[n].sub \in Committed'
               /\ command'[n].to \in {"ACTIVE", "SUSPENDED", "CANCELLED"}
    BY <1>3, <1>5, <1>7, <2>4 DEF TenancyInv, SubscriptionsInv, CommandsInv
  <2> QED
    BY <2>2, <2>3, <2>4 DEF CommandsInv
<1>10. AloneInv'
  BY <1>5 DEF AloneInv
<1>11. ASSUME ~overlapped', NEW o \in Sub, s < o PROVE subs[o].status = "none"
  BY <1>1, <1>5, <1>11 DEF TenancyInv, SubscriptionsInv, OrderInv
<1>12. OrderInv'
  <2>1. ASSUME NEW r \in Sub, NEW o \in Sub, r < o, ~overlapped', subs'[o].status # "none"
        PROVE  subs'[r].status # "none"
    <3>1. CASE o = s
      <4>1. r \in 1 .. s - 1 /\ r # s
        BY <2>1, <3>1, TenancyBounds DEF Sub
      <4> QED
        BY <1>1, <1>6, <4>1
    <3>2. CASE o # s
      BY <1>5, <1>6, <2>1, <3>2 DEF TenancyInv, SubscriptionsInv, OrderInv
    <3> QED
      BY <3>1, <3>2
  <2>2. ASSUME NEW r \in Sub, NEW o \in Sub, r < o, ~overlapped', o \in Committed'
        PROVE  r \notin ActiveSubs'
    BY <1>5, <1>7, <2>2 DEF TenancyInv, SubscriptionsInv, OrderInv
  <2> QED
    BY <2>1, <2>2 DEF OrderInv
<1>13. LastInv'
  <2>1. ASSUME ~overlapped', NEW n \in Manager, command'[n].step # "idle" PROVE n = m
    BY <1>5, <2>1
  <2>2. ASSUME ~overlapped', NEW o \in Sub, s < o PROVE subs'[o].status = "none"
    BY <1>6, <1>11, <2>2, RowType
  <2> QED
    BY <1>3, <1>5, <1>7, <2>1, <2>2 DEF LastInv
<1>14. GrantedInv'
  BY <1>2, <1>6, <1>7, RowType DEF TenancyInv, GrantedInv
<1> QED
  BY <1>2, <1>8, <1>9, <1>10, <1>12, <1>13, <1>14, UnitsStay DEF TenancyInv, SubscriptionsInv

\* The new row is active alone, and its limits are granted.
LEMMA CommitAssignHolds ==
  ASSUME TenancyInv, NEW m \in Manager, CommitAssign(m)
  PROVE  TenancyInv'
<1> PICK s \in Sub : s = command[m].sub
  BY RowType
<1> PICK old \in SUBSET Sub : old = command[m].replaces
  BY RowType
<1>1. /\ command[m].step = "replacing"
      /\ subs' = [o \in Sub |-> IF o = s THEN [subs[o] EXCEPT !.status = "ACTIVE"]
                               ELSE IF o \in old THEN [subs[o] EXCEPT !.status = "CANCELLED"]
                               ELSE subs[o]]
      /\ granted' = [t \in OrgType |-> Higher(granted[t], subs[s].max[t])]
      /\ Closes(m)
      /\ UNCHANGED <<company, limits, overlapped, units, opening, retyped>>
  BY DEF CommitAssign, unitVars
<1>2. /\ command' \in [Manager -> Command] /\ command'[m].step = "idle"
      /\ \A n \in Manager : n # m => command'[n] = command[n]
  BY <1>1, ClosesOne
<1>3. /\ subs[s].status = "uncommitted" /\ s \notin old /\ old \subseteq Committed
      /\ \A n \in Manager : n # m /\ command[n].step = "replacing" => command[n].sub # s
  BY <1>1 DEF TenancyInv, SubscriptionsInv, CommandsInv, Committed
<1>4. ASSUME NEW o \in Sub
      PROVE  /\ subs'[o] \in Subscription /\ subs'[o].max = subs[o].max
             /\ o = s => subs'[o].status = "ACTIVE"
             /\ o \in old => subs'[o].status = "CANCELLED"
             /\ o # s /\ o \notin old => subs'[o].status = subs[o].status
  BY <1>1, <1>3, RowType DEF Subscription, Status
<1>5. subs' \in [Sub -> Subscription]
  BY <1>1, <1>4
<1>6. granted \in [OrgType -> PlanLimit] /\ subs[s].max \in [OrgType -> PlanLimit]
  BY RowType DEF TenancyInv, TenancyTypeOK
<1>7. granted' \in [OrgType -> PlanLimit]
  BY <1>1, <1>6, HigherBounds
<1>8. TenancyTypeOK'
  BY <1>1, <1>2, <1>5, <1>7 DEF TenancyInv, TenancyTypeOK
<1>9. /\ Committed' = Committed \cup {s}
      /\ ActiveSubs' = (ActiveSubs \ old) \cup {s}
  BY <1>3, <1>4 DEF Committed, ActiveSubs
<1>10. CommandsInv'
  <2>1. ASSUME NEW n \in Manager, command'[n].step # "idle"
        PROVE  n # m /\ command'[n] = command[n]
    BY <1>2, <2>1
  <2>2. ASSUME NEW n \in Manager, command'[n].step = "replacing"
        PROVE  subs'[command'[n].sub].status = "uncommitted"
    <3>1. subs[command[n].sub].status = "uncommitted" /\ command[n].sub # s
      BY <1>3, <2>1, <2>2 DEF TenancyInv, SubscriptionsInv, CommandsInv
    <3>2. command[n].sub \notin old
      BY <1>3, <3>1 DEF Committed
    <3> QED
      BY <1>4, <2>1, <2>2, <3>1, <3>2, RowType
  <2> QED
    BY <1>9, <2>1, <2>2 DEF TenancyInv, SubscriptionsInv, CommandsInv
<1>11. AloneInv'
  BY <1>1, <1>2 DEF TenancyInv, SubscriptionsInv, AloneInv
<1>12. ASSUME ~overlapped
       PROVE  /\ old = ActiveSubs /\ \A o \in Sub : s < o => subs[o].status = "none"
  BY <1>1, <1>12 DEF TenancyInv, SubscriptionsInv, LastInv
<1>13. OrderInv'
  <2>1. \A o \in Sub : subs'[o].status = "none" <=> subs[o].status = "none"
    BY <1>3, <1>4, RowType
  <2>2. ASSUME ~overlapped, NEW r \in Sub, NEW o \in Sub, r < o, o \in Committed'
        PROVE  r \notin ActiveSubs'
    <3>1. ActiveSubs' = {s}
      BY <1>9, <1>12, <2>2
    <3>2. r # s
      BY <1>9, <1>12, <2>2, RowType
    <3> QED
      BY <3>1, <3>2
  <2> QED
    BY <1>1, <2>1, <2>2 DEF TenancyInv, SubscriptionsInv, OrderInv
<1>14. LastInv'
  BY <1>1, <1>2, OnlyOne DEF LastInv
<1>15. ASSUME NEW t \in OrgType
       PROVE  /\ granted[t] \in PlanLimit /\ granted'[t] \in PlanLimit
              /\ AtMost(subs[s].max[t], granted'[t])
              /\ \A c \in PlanLimit : AtMost(c, granted[t]) => AtMost(c, granted'[t])
              /\ granted'[t] # -1 => granted[t] # -1 /\ granted[t] <= granted'[t]
  BY <1>1, <1>6, HigherBounds
<1>16. GrantedInv'
  <2>1. ASSUME NEW t \in OrgType, NEW o \in Committed' PROVE AtMost(subs'[o].max[t], granted'[t])
    <3>1. o \in Sub /\ subs'[o].max = subs[o].max /\ subs[o].max[t] \in PlanLimit
      BY <1>4, <1>9, <2>1, RowType
    <3>2. CASE o = s
      BY <1>15, <3>1, <3>2
    <3>3. CASE o # s
      BY <1>9, <1>15, <2>1, <3>1, <3>3 DEF TenancyInv, GrantedInv
    <3> QED
      BY <3>2, <3>3
  <2>2. ASSUME NEW t \in OrgType, NEW max \in limits PROVE AtMost(max[t], granted'[t])
    <3>1. max[t] \in PlanLimit
      BY <2>2 DEF TenancyInv, TenancyTypeOK
    <3> QED
      BY <1>15, <2>2, <3>1 DEF TenancyInv, GrantedInv
  <2>3. ASSUME NEW t \in OrgType, NEW c \in Clerk, NEW max \in opening[c].load
        PROVE  AtMost(max[t], granted'[t])
    <3>1. max[t] \in PlanLimit
      BY <2>3 DEF TenancyInv, TenancyTypeOK, Opening
    <3> QED
      BY <1>15, <2>3, <3>1 DEF TenancyInv, GrantedInv
  <2>4. ASSUME NEW t \in OrgType, NEW c \in Clerk, opening[c].step = "limited",
               opening[c].type = t
        PROVE  AtMost(opening[c].max, granted'[t])
    <3>1. opening[c].max \in PlanLimit
      BY <2>4 DEF TenancyInv, TenancyTypeOK, Opening
    <3> QED
      BY <1>15, <2>4, <3>1 DEF TenancyInv, GrantedInv
  <2> QED
    BY <1>1, <2>1, <2>2, <2>3, <2>4 DEF GrantedInv
<1>17. UnitsInv'
  <2>1. ASSUME NEW t \in OrgType
        PROVE  /\ units[t] \in Nat /\ retyped[t] \in Nat
               /\ Cardinality(Counted(t)) \in Nat /\ Cardinality(Clerk) \in Nat
    BY CountedCards DEF TenancyInv, TenancyTypeOK
  <2>2. ASSUME NEW t \in OrgType, granted'[t] # -1
        PROVE  /\ granted'[t] = 0 => Counted(t) = {}
               /\ units[t] + Cardinality(Counted(t))
                    <= granted'[t] + Cardinality(Clerk) - 1 + retyped[t]
    <3>1. /\ granted[t] \in Nat /\ granted'[t] \in Nat /\ granted[t] <= granted'[t]
          /\ granted[t] # -1
      BY <1>15, <2>2, TenancyBounds DEF PlanLimit
    <3> QED
      BY <2>1, <3>1 DEF TenancyInv, UnitsInv
  <2> QED
    BY <1>1, <2>2 DEF UnitsInv, Counted
<1> QED
  BY <1>8, <1>10, <1>11, <1>13, <1>14, <1>16, <1>17 DEF TenancyInv, SubscriptionsInv

\* What is rolled back was nobody else's, and the last of all.
LEMMA RollBackAssignHolds ==
  ASSUME TenancyInv, NEW m \in Manager, RollBackAssign(m)
  PROVE  TenancyInv'
<1> PICK s \in Sub : s = command[m].sub
  BY RowType
<1>1. /\ command[m].step = "replacing"
      /\ subs' = [subs EXCEPT ![s] = [status |-> "none", max |-> [t \in OrgType |-> 0]]]
      /\ Closes(m)
      /\ UNCHANGED <<company, limits, overlapped, granted, units, opening, retyped>>
  BY DEF RollBackAssign, unitVars
<1>2. /\ command' \in [Manager -> Command] /\ command'[m].step = "idle"
      /\ \A n \in Manager : n # m => command'[n] = command[n]
  BY <1>1, ClosesOne
<1>3. /\ subs[s].status = "uncommitted" /\ s \notin Committed
      /\ \A n \in Manager : n # m /\ command[n].step = "replacing" => command[n].sub # s
  BY <1>1 DEF TenancyInv, SubscriptionsInv, CommandsInv, Committed
<1>4. /\ subs' \in [Sub -> Subscription] /\ subs'[s].status = "none"
      /\ \A o \in Sub : o # s => subs'[o] = subs[o]
  <2>1. [status |-> "none", max |-> [t \in OrgType |-> 0]] \in Subscription
    BY TenancyBounds DEF Subscription, Status, PlanLimit
  <2> QED
    BY <1>1, <2>1 DEF TenancyInv, TenancyTypeOK
<1>5. Committed' = Committed /\ ActiveSubs' = ActiveSubs
  BY <1>3, <1>4 DEF Committed, ActiveSubs
<1>6. TenancyTypeOK'
  BY <1>1, <1>2, <1>4 DEF TenancyInv, TenancyTypeOK
<1>7. CommandsInv'
  <2>1. ASSUME NEW n \in Manager, command'[n].step # "idle"
        PROVE  n # m /\ command'[n] = command[n]
    BY <1>2, <2>1
  <2>2. ASSUME NEW n \in Manager, command'[n].step = "replacing"
        PROVE  subs'[command'[n].sub].status = "uncommitted"
    BY <1>3, <1>4, <2>1, <2>2, RowType DEF TenancyInv, SubscriptionsInv, CommandsInv
  <2> QED
    BY <1>5, <2>1, <2>2 DEF TenancyInv, SubscriptionsInv, CommandsInv
<1>8. AloneInv'
  BY <1>1, <1>2 DEF TenancyInv, SubscriptionsInv, AloneInv
<1>9. OrderInv'
  <2>1. ASSUME ~overlapped, NEW r \in Sub, NEW o \in Sub, r < o, subs'[o].status # "none"
        PROVE  subs'[r].status # "none"
    <3>1. o # s /\ subs[o].status # "none" /\ subs[r].status # "none"
      BY <1>4, <2>1 DEF TenancyInv, SubscriptionsInv, OrderInv
    <3>2. r # s
      BY <1>1, <2>1, <3>1 DEF TenancyInv, SubscriptionsInv, LastInv
    <3> QED
      BY <1>4, <3>1, <3>2
  <2> QED
    BY <1>1, <1>5, <2>1 DEF TenancyInv, SubscriptionsInv, OrderInv
<1>10. LastInv'
  BY <1>1, <1>2, OnlyOne DEF LastInv
<1>11. GrantedInv'
  BY <1>1, <1>3, <1>4, <1>5, RowType DEF TenancyInv, GrantedInv
<1> QED
  BY <1>1, <1>6, <1>7, <1>8, <1>9, <1>10, <1>11, UnitsStay DEF TenancyInv, SubscriptionsInv

\* Suspend, Resume, Cancel: a committed row is found.
LEMMA FindsHolds ==
  ASSUME TenancyInv, NEW m \in Manager, NEW S \in SUBSET Committed,
         NEW to \in {"ACTIVE", "SUSPENDED", "CANCELLED"}, Finds(m, S, to),
         to = "ACTIVE" => \A s \in S, o \in Committed : o <= s
  PROVE  TenancyInv'
<1>1. PICK s \in S :
        /\ Opens(m, [step |-> "found", to |-> to, sub |-> s, replaces |-> {}])
        /\ UNCHANGED <<company, subs, limits, granted, units, opening, retyped>>
  BY DEF Finds, unitVars
<1> DEFINE c == [step |-> "found", to |-> to, sub |-> s, replaces |-> {}]
<1>2. c \in Command /\ c.step = "found" /\ c.sub = s /\ c.to = to
  BY RowType DEF Command, Status
<1>3. Opens(m, c)
  BY <1>1
<1> HIDE DEF c
<1>4. /\ command' \in [Manager -> Command] /\ command'[m] = c /\ overlapped' \in BOOLEAN
      /\ \A n \in Manager : n # m => command'[n] = command[n]
      /\ ~overlapped' => ~overlapped /\ \A n \in Manager : command[n].step = "idle"
  BY <1>2, <1>3, OpensOne
<1>5. Committed' = Committed /\ ActiveSubs' = ActiveSubs
  BY <1>1 DEF Committed, ActiveSubs
<1>6. TenancyTypeOK'
  BY <1>1, <1>4 DEF TenancyInv, TenancyTypeOK
<1>7. CommandsInv'
  BY <1>1, <1>2, <1>4, <1>5 DEF TenancyInv, SubscriptionsInv, CommandsInv
<1>8. AloneInv'
  BY <1>4 DEF AloneInv
<1>9. OrderInv'
  BY <1>1, <1>4, <1>5 DEF TenancyInv, SubscriptionsInv, OrderInv
<1>10. LastInv'
  <2>1. ASSUME ~overlapped', NEW n \in Manager, command'[n].step # "idle" PROVE n = m
    BY <1>4, <2>1
  <2> QED
    BY <1>1, <1>2, <1>4, <1>5, <2>1 DEF LastInv
<1>11. GrantedInv'
  BY <1>1, <1>5 DEF TenancyInv, GrantedInv
<1> QED
  BY <1>1, <1>6, <1>7, <1>8, <1>9, <1>10, <1>11, UnitsStay DEF TenancyInv, SubscriptionsInv

\* The row that is written by id is committed, and is the latest where it is
\* made active again and nothing overlapped.
LEMMA WriteStatusHolds ==
  ASSUME TenancyInv, NEW m \in Manager, WriteStatus(m)
  PROVE  TenancyInv'
<1> PICK s \in Sub : s = command[m].sub
  BY RowType
<1> PICK to \in {"ACTIVE", "SUSPENDED", "CANCELLED"} : to = command[m].to
  BY DEF WriteStatus, TenancyInv, SubscriptionsInv, CommandsInv
<1>1. /\ command[m].step = "found"
      /\ subs' = [subs EXCEPT ![s].status = to]
      /\ command' = [command EXCEPT ![m].step = "written"]
      /\ UNCHANGED <<company, limits, overlapped, granted, units, opening, retyped>>
  BY DEF WriteStatus, unitVars
<1>2. /\ command' \in [Manager -> Command] /\ command'[m].step = "written"
      /\ \A n \in Manager : n # m => command'[n] = command[n]
  BY <1>1 DEF TenancyInv, TenancyTypeOK, Command
<1>3. s \in Committed
  BY <1>1 DEF TenancyInv, SubscriptionsInv, CommandsInv
<1>4. /\ subs' \in [Sub -> Subscription] /\ subs'[s].status = to /\ subs'[s].max = subs[s].max
      /\ \A o \in Sub : o # s => subs'[o] = subs[o]
  <2>1. subs[s] \in Subscription /\ to \in Status
    BY RowType DEF Status
  <2> QED
    BY <1>1, <2>1 DEF TenancyInv, TenancyTypeOK, Subscription
<1>5. /\ Committed' = Committed
      /\ ActiveSubs' = IF to = "ACTIVE" THEN ActiveSubs \cup {s} ELSE ActiveSubs \ {s}
  BY <1>3, <1>4 DEF Committed, ActiveSubs
<1>6. TenancyTypeOK'
  BY <1>1, <1>2, <1>4 DEF TenancyInv, TenancyTypeOK
<1>7. CommandsInv'
  <2>1. ASSUME NEW n \in Manager, command'[n].step \in {"replacing", "found"}
        PROVE  n # m /\ command'[n] = command[n]
    BY <1>2, <2>1
  <2>2. ASSUME NEW n \in Manager, command'[n].step = "replacing"
        PROVE  subs'[command'[n].sub].status = "uncommitted"
    <3>1. subs[command[n].sub].status = "uncommitted"
      BY <2>1, <2>2 DEF TenancyInv, SubscriptionsInv, CommandsInv
    <3> QED
      BY <1>3, <1>4, <2>1, <2>2, <3>1, RowType
  <2> QED
    BY <1>5, <2>1, <2>2 DEF TenancyInv, SubscriptionsInv, CommandsInv
<1>8. AloneInv'
  BY <1>1, <1>2 DEF TenancyInv, SubscriptionsInv, AloneInv
<1>9. OrderInv'
  <2>1. \A o \in Sub : subs'[o].status = "none" <=> subs[o].status = "none"
    BY <1>3, <1>4, RowType
  <2>2. ASSUME ~overlapped, NEW r \in Sub, NEW o \in Sub, r < o, o \in Committed
        PROVE  r \notin ActiveSubs'
    <3>1. r \notin ActiveSubs
      BY <2>2 DEF TenancyInv, SubscriptionsInv, OrderInv
    <3>2. CASE to = "ACTIVE"
      <4>1. o <= s
        BY <1>1, <2>2, <3>2 DEF TenancyInv, SubscriptionsInv, LastInv
      <4> QED
        BY <1>5, <2>2, <3>1, <3>2, <4>1, RowType
    <3>3. CASE to # "ACTIVE"
      BY <1>5, <3>1, <3>3
    <3> QED
      BY <3>2, <3>3
  <2> QED
    BY <1>1, <1>5, <2>1, <2>2 DEF TenancyInv, SubscriptionsInv, OrderInv
<1>10. LastInv'
  BY <1>1, <1>2, OnlyOne DEF LastInv
<1>11. GrantedInv'
  <2>1. \A o \in Sub : subs'[o].max = subs[o].max
    BY <1>4
  <2> QED
    BY <1>1, <1>5, <2>1, RowType DEF TenancyInv, GrantedInv
<1> QED
  BY <1>1, <1>6, <1>7, <1>8, <1>9, <1>10, <1>11, UnitsStay DEF TenancyInv, SubscriptionsInv

\* The history is written; what was cached may go.
LEMMA RecordHolds ==
  ASSUME TenancyInv, NEW m \in Manager, Record(m)
  PROVE  TenancyInv'
<1>1. /\ command[m].step = "written" /\ Closes(m) /\ limits' \in {{}, limits}
      /\ UNCHANGED <<company, subs, overlapped, granted, units, opening, retyped>>
  BY DEF Record, unitVars
<1>2. /\ command' \in [Manager -> Command] /\ command'[m].step = "idle"
      /\ \A n \in Manager : n # m => command'[n] = command[n]
  BY <1>1, ClosesOne
<1>3. TenancyTypeOK'
  BY <1>1, <1>2 DEF TenancyInv, TenancyTypeOK
<1>4. Committed' = Committed /\ ActiveSubs' = ActiveSubs
  BY <1>1 DEF Committed, ActiveSubs
<1>5. CommandsInv' /\ AloneInv' /\ OrderInv' /\ LastInv'
  BY <1>1, <1>2, <1>4 DEF TenancyInv, SubscriptionsInv, CommandsInv, AloneInv, OrderInv, LastInv
<1>6. GrantedInv'
  BY <1>1, <1>4 DEF TenancyInv, GrantedInv
<1> QED
  BY <1>1, <1>3, <1>5, <1>6, UnitsStay DEF TenancyInv, SubscriptionsInv

-----------------------------------------------------------------------------
(* The tenant: its units *)

\* What a clerk's request becomes; the others keep theirs.
LEMMA OpeningOne ==
  ASSUME TenancyInv, NEW c \in Clerk, NEW o \in Opening, opening' = [opening EXCEPT ![c] = o]
  PROVE  /\ opening' \in [Clerk -> Opening] /\ opening'[c] = o
         /\ \A d \in Clerk : d # c => opening'[d] = opening[d]
BY DEF TenancyInv, TenancyTypeOK

LEMMA OpeningType ==
  ASSUME TenancyInv, NEW c \in Clerk
  PROVE  /\ opening[c] \in Opening /\ opening[c].type \in OrgType
         /\ opening[c].max \in PlanLimit /\ opening[c].load \subseteq [OrgType -> PlanLimit]
BY DEF TenancyInv, TenancyTypeOK, Opening

\* What is left to show of a step of a clerk that inserts nothing.
LEMMA ClerkHolds ==
  ASSUME TenancyInv, NEW c \in Clerk, NEW o \in Opening, opening' = [opening EXCEPT ![c] = o],
         limits' \in SUBSET [OrgType -> PlanLimit],
         UNCHANGED <<units, retyped, company, subs, command, overlapped, granted>>,
         \A t \in OrgType :
           /\ \A max \in limits' \cup o.load : AtMost(max[t], granted[t])
           /\ o.step = "limited" /\ o.type = t => AtMost(o.max, granted[t]),
         o.step = "counted" =>
           granted[o.type] = -1 \/ (granted[o.type] # 0 /\ units[o.type] < granted[o.type])
  PROVE  TenancyInv'
<1>1. /\ opening' \in [Clerk -> Opening] /\ opening'[c] = o
      /\ \A d \in Clerk : d # c => opening'[d] = opening[d]
  BY OpeningOne
<1>2. TenancyTypeOK'
  BY <1>1 DEF TenancyInv, TenancyTypeOK
<1>3. GrantedInv'
  <2>1. Committed' = Committed
    BY DEF Committed
  <2> QED
    BY <1>1, <2>1 DEF TenancyInv, GrantedInv
<1>4. UnitsInv'
  <2>1. ASSUME NEW t \in OrgType, granted[t] # -1
        PROVE  /\ granted[t] = 0 => Counted(t)' = {}
               /\ units[t] + Cardinality(Counted(t)')
                    <= granted[t] + Cardinality(Clerk) - 1 + retyped[t]
    <3>1. /\ IsFiniteSet(Counted(t)) /\ Cardinality(Counted(t)) \in Nat
          /\ Cardinality(Clerk) \in Nat
      BY CountedCards
    <3>2. units[t] \in Nat /\ retyped[t] \in Nat /\ granted[t] \in Nat
      BY <2>1, TenancyBounds DEF TenancyInv, TenancyTypeOK, PlanLimit
    <3>3. CASE o.step = "counted" /\ o.type = t
      <4>1. granted[t] # 0 /\ units[t] + 1 <= granted[t]
        BY <2>1, <3>2, <3>3
      <4>2. Counted(t)' \subseteq Clerk
        BY DEF Counted
      <4>3. /\ Cardinality(Counted(t)') \in Nat
            /\ Cardinality(Counted(t)') <= Cardinality(Clerk)
        BY <4>2, ClerkAssumption, FS_CardinalityType, FS_Subset
      <4> QED
        BY <3>1, <3>2, <4>1, <4>3
    <3>4. CASE ~(o.step = "counted" /\ o.type = t)
      <4>1. Counted(t)' \subseteq Counted(t)
        BY <1>1, <3>4 DEF Counted
      <4>2. /\ Cardinality(Counted(t)') \in Nat
            /\ Cardinality(Counted(t)') <= Cardinality(Counted(t))
        BY <3>1, <4>1, FS_CardinalityType, FS_Subset
      <4>3. /\ granted[t] = 0 => Counted(t) = {}
            /\ units[t] + Cardinality(Counted(t))
                 <= granted[t] + Cardinality(Clerk) - 1 + retyped[t]
        BY <2>1 DEF TenancyInv, UnitsInv
      <4> QED
        BY <3>1, <3>2, <4>1, <4>2, <4>3
    <3> QED
      BY <3>3, <3>4
  <2> QED
    BY <2>1 DEF UnitsInv
<1> QED
  BY <1>2, <1>3, <1>4, SubscriptionsStay DEF TenancyInv

\* A limit that is read is at most what was granted; none is nothing.
LEMMA LimitFromBounds ==
  ASSUME TenancyInv, NEW c \in Clerk, NEW S \in SUBSET [OrgType -> PlanLimit],
         \A t \in OrgType : \A max \in S : AtMost(max[t], granted[t])
  PROVE  /\ LimitFrom(c, S) \in PlanLimit
         /\ AtMost(LimitFrom(c, S), granted[opening[c].type])
<1>1. opening[c].type \in OrgType
  BY OpeningType
<1>2. CASE S = {}
  <2>1. LimitFrom(c, S) = 0
    BY <1>2 DEF LimitFrom
  <2> QED
    BY <1>1, <2>1, TenancyBounds DEF AtMost, TenancyInv, TenancyTypeOK, PlanLimit
<1>3. CASE S # {}
  <2>1. PICK max \in S : LimitFrom(c, S) = max[opening[c].type]
    BY <1>3 DEF LimitFrom
  <2> QED
    BY <1>1, <2>1
<1> QED
  BY <1>2, <1>3

LEMMA LimitsBounds ==
  ASSUME TenancyInv
  PROVE  /\ limits \in SUBSET [OrgType -> PlanLimit]
         /\ \A t \in OrgType :
              /\ \A max \in limits : AtMost(max[t], granted[t])
              /\ \A c \in Clerk : \A max \in opening[c].load : AtMost(max[t], granted[t])
BY DEF TenancyInv, TenancyTypeOK, GrantedInv

LEMMA OpenUnitHolds ==
  ASSUME TenancyInv, NEW c \in Clerk, OpenUnit(c)
  PROVE  TenancyInv'
<1>1. PICK t \in OrgType :
        opening' = [opening EXCEPT ![c] = [NoOpening EXCEPT !.step = "asked", !.type = t]]
  BY DEF OpenUnit
<1> DEFINE o == [NoOpening EXCEPT !.step = "asked", !.type = t]
<1>2. o \in Opening /\ o.step = "asked" /\ o.load = {}
  BY NoOpeningType DEF Opening
<1>3. opening' = [opening EXCEPT ![c] = o]
  BY <1>1
<1> HIDE DEF o
<1>4. UNCHANGED <<limits, units, retyped, company, subs, command, overlapped, granted>>
  BY DEF OpenUnit, subscriptionVars
<1> QED
  BY <1>2, <1>3, <1>4, LimitsBounds, ClerkHolds

LEMMA CachedLimitHolds ==
  ASSUME TenancyInv, NEW c \in Clerk, CachedLimit(c)
  PROVE  TenancyInv'
<1> PICK limit \in PlanLimit :
      limit = LimitFrom(c, limits) /\ AtMost(limit, granted[opening[c].type])
  BY LimitFromBounds, LimitsBounds
<1> DEFINE o == [opening[c] EXCEPT !.step = "limited", !.max = limit]
<1>1. opening[c] \in Opening
  BY OpeningType
<1>2. /\ o \in Opening /\ o.step = "limited" /\ o.type = opening[c].type /\ o.max = limit
      /\ o.load = opening[c].load
  BY <1>1 DEF Opening
<1>3. opening' = [opening EXCEPT ![c] = o]
  BY <1>1 DEF CachedLimit, TenancyInv, TenancyTypeOK
<1> HIDE DEF o
<1>4. UNCHANGED <<limits, units, retyped, company, subs, command, overlapped, granted>>
  BY DEF CachedLimit, subscriptionVars
<1> QED
  BY <1>2, <1>3, <1>4, LimitsBounds, ClerkHolds

\* The active row that is loaded has been committed.
LEMMA LoadLimitHolds ==
  ASSUME TenancyInv, NEW c \in Clerk, LoadLimit(c)
  PROVE  TenancyInv'
<1> PICK load \in SUBSET [OrgType -> PlanLimit] :
      /\ load = ActiveLimits
      /\ \A t \in OrgType : \A max \in load : AtMost(max[t], granted[t])
  <2>1. ASSUME NEW max \in ActiveLimits PROVE \E s \in Committed : max = subs[s].max
    BY <2>1, RowType DEF ActiveLimits, Latest
  <2> QED
    BY <2>1, RowType DEF TenancyInv, GrantedInv
<1> DEFINE o == [opening[c] EXCEPT !.step = "loaded", !.load = load]
<1>1. opening[c] \in Opening
  BY OpeningType
<1>2. o \in Opening /\ o.step = "loaded" /\ o.load = load
  BY <1>1 DEF Opening
<1>3. opening' = [opening EXCEPT ![c] = o]
  BY <1>1 DEF LoadLimit, TenancyInv, TenancyTypeOK
<1> HIDE DEF o
<1>4. UNCHANGED <<limits, units, retyped, company, subs, command, overlapped, granted>>
  BY DEF LoadLimit, subscriptionVars
<1> QED
  BY <1>2, <1>3, <1>4, LimitsBounds, ClerkHolds

LEMMA KeepLimitHolds ==
  ASSUME TenancyInv, NEW c \in Clerk, KeepLimit(c)
  PROVE  TenancyInv'
<1> PICK load \in SUBSET [OrgType -> PlanLimit] :
      /\ load = opening[c].load
      /\ \A t \in OrgType : \A max \in load : AtMost(max[t], granted[t])
  BY OpeningType, LimitsBounds
<1> PICK limit \in PlanLimit :
      limit = LimitFrom(c, load) /\ AtMost(limit, granted[opening[c].type])
  BY LimitFromBounds
<1> DEFINE o == [opening[c] EXCEPT !.step = "limited", !.load = {}, !.max = limit]
<1>1. opening[c] \in Opening
  BY OpeningType
<1>2. /\ o \in Opening /\ o.step = "limited" /\ o.type = opening[c].type /\ o.max = limit
      /\ o.load = {}
  BY <1>1 DEF Opening
<1>3. opening' = [opening EXCEPT ![c] = o]
  BY <1>1 DEF KeepLimit, TenancyInv, TenancyTypeOK
<1> HIDE DEF o
<1>4. UNCHANGED <<units, retyped, company, subs, command, overlapped, granted>>
  BY DEF KeepLimit, subscriptionVars
<1>5. limits' \in {limits, load}
  BY DEF KeepLimit
<1> QED
  BY <1>2, <1>3, <1>4, <1>5, LimitsBounds, ClerkHolds

\* Below a limit that is at most what was granted.
LEMMA CountHolds ==
  ASSUME TenancyInv, NEW c \in Clerk, Count(c)
  PROVE  TenancyInv'
<1> DEFINE o == IF BelowLimit(c) THEN [opening[c] EXCEPT !.step = "counted"] ELSE NoOpening
<1>1. opening[c] \in Opening
  BY OpeningType
<1>2. /\ o \in Opening /\ o.load \subseteq opening[c].load /\ o.step \in {"counted", "idle"}
      /\ o.step = "counted" => BelowLimit(c) /\ o.type = opening[c].type
  BY <1>1, NoOpeningType DEF Opening
<1>3. opening' = [opening EXCEPT ![c] = o]
  BY <1>1 DEF Count, TenancyInv, TenancyTypeOK
<1> HIDE DEF o
<1>4. UNCHANGED <<limits, units, retyped, company, subs, command, overlapped, granted>>
  BY DEF Count, subscriptionVars
<1>5. BelowLimit(c) => \/ granted[opening[c].type] = -1
                       \/ /\ granted[opening[c].type] # 0
                          /\ units[opening[c].type] < granted[opening[c].type]
  <2> PICK t \in OrgType : t = opening[c].type
    BY OpeningType
  <2>1. AtMost(opening[c].max, granted[t])
    BY DEF Count, TenancyInv, GrantedInv
  <2>2. units[t] \in Nat /\ granted[t] \in PlanLimit /\ opening[c].max \in PlanLimit
    BY OpeningType DEF TenancyInv, TenancyTypeOK
  <2> QED
    BY <2>1, <2>2, TenancyBounds DEF AtMost, BelowLimit, PlanLimit
<1> QED
  BY <1>2, <1>3, <1>4, <1>5, LimitsBounds, ClerkHolds

LEMMA GivesUpHolds ==
  ASSUME TenancyInv, NEW c \in Clerk, GivesUp(c)
  PROVE  TenancyInv'
<1>1. opening' = [opening EXCEPT ![c] = NoOpening]
  BY DEF GivesUp
<1>2. UNCHANGED <<limits, units, retyped, company, subs, command, overlapped, granted>>
  BY DEF GivesUp, subscriptionVars
<1> QED
  BY <1>1, <1>2, NoOpeningType, LimitsBounds, ClerkHolds

\* One unit more, and one clerk less that is about to make one.
LEMMA InsertUnitHolds ==
  ASSUME TenancyInv, NEW c \in Clerk, InsertUnit(c)
  PROVE  TenancyInv'
<1> PICK type \in OrgType : type = opening[c].type
  BY OpeningType
<1>1. /\ opening[c].step = "counted" /\ units[type] < MaxUnits
      /\ units' = [units EXCEPT ![type] = @ + 1]
      /\ opening' = [opening EXCEPT ![c] = NoOpening]
      /\ UNCHANGED <<limits, retyped, company, subs, command, overlapped, granted>>
  BY DEF InsertUnit, subscriptionVars
<1>2. /\ opening' \in [Clerk -> Opening] /\ opening'[c] = NoOpening
      /\ \A d \in Clerk : d # c => opening'[d] = opening[d]
  BY <1>1, NoOpeningType, OpeningOne
<1>3. /\ units' \in [OrgType -> 0 .. MaxUnits] /\ units'[type] = units[type] + 1
      /\ \A t \in OrgType : t # type => units'[t] = units[t]
  BY <1>1, TenancyBounds DEF TenancyInv, TenancyTypeOK
<1>4. TenancyTypeOK'
  BY <1>1, <1>2, <1>3 DEF TenancyInv, TenancyTypeOK
<1>5. GrantedInv'
  <2>1. Committed' = Committed
    BY <1>1 DEF Committed
  <2> QED
    BY <1>1, <1>2, <2>1, NoOpeningType DEF TenancyInv, GrantedInv
<1>6. UnitsInv'
  <2>1. ASSUME NEW t \in OrgType, granted[t] # -1
        PROVE  /\ granted[t] = 0 => Counted(t)' = {}
               /\ units'[t] + Cardinality(Counted(t)')
                    <= granted[t] + Cardinality(Clerk) - 1 + retyped[t]
    <3>1. /\ IsFiniteSet(Counted(t)) /\ Cardinality(Counted(t)) \in Nat
          /\ Cardinality(Clerk) \in Nat
      BY CountedCards
    <3>2. units[t] \in Nat /\ retyped[t] \in Nat /\ granted[t] \in Nat
      BY <2>1, TenancyBounds DEF TenancyInv, TenancyTypeOK, PlanLimit
    <3>3. /\ granted[t] = 0 => Counted(t) = {}
          /\ units[t] + Cardinality(Counted(t))
               <= granted[t] + Cardinality(Clerk) - 1 + retyped[t]
      BY <2>1 DEF TenancyInv, UnitsInv
    <3>4. Counted(t)' = Counted(t) \ {c}
      BY <1>2, NoOpeningType DEF Counted
    <3>5. CASE t = type
      <4>1. c \in Counted(t)
        BY <1>1, <3>5 DEF Counted
      <4>2. Cardinality(Counted(t)') = Cardinality(Counted(t)) - 1
        BY <3>1, <3>4, <4>1, FS_RemoveElement
      <4> QED
        BY <1>3, <3>1, <3>2, <3>3, <3>4, <3>5, <4>1, <4>2
    <3>6. CASE t # type
      <4>1. Counted(t)' = Counted(t)
        BY <3>4, <3>6 DEF Counted
      <4> QED
        BY <1>3, <3>3, <3>6, <4>1
    <3> QED
      BY <3>5, <3>6
  <2> QED
    BY <1>1, <2>1 DEF UnitsInv
<1> QED
  BY <1>1, <1>4, <1>5, <1>6, SubscriptionsStay DEF TenancyInv

\* A unit that changes its type is counted as one that did.
LEMMA UpdateUnitHolds ==
  ASSUME TenancyInv, UpdateUnit
  PROVE  TenancyInv'
<1>1. PICK from \in OrgType, to \in OrgType :
        /\ from # to /\ units[from] > 0 /\ units[to] < MaxUnits
        /\ units' = [units EXCEPT ![from] = @ - 1, ![to] = @ + 1]
        /\ retyped' = [retyped EXCEPT ![to] = IF @ < MaxUnits THEN @ + 1 ELSE @]
        /\ UNCHANGED <<limits, opening, company, subs, command, overlapped, granted>>
  BY DEF UpdateUnit, subscriptionVars
<1>2. /\ units' \in [OrgType -> 0 .. MaxUnits]
      /\ units'[from] = units[from] - 1 /\ units'[to] = units[to] + 1
      /\ \A t \in OrgType \ {from, to} : units'[t] = units[t]
  BY <1>1, TenancyBounds DEF TenancyInv, TenancyTypeOK
<1>3. /\ retyped' \in [OrgType -> 0 .. MaxUnits]
      /\ retyped'[to] = IF retyped[to] < MaxUnits THEN retyped[to] + 1 ELSE MaxUnits
      /\ \A t \in OrgType \ {to} : retyped'[t] = retyped[t]
  BY <1>1, TenancyBounds DEF TenancyInv, TenancyTypeOK
<1>4. TenancyTypeOK'
  BY <1>1, <1>2, <1>3 DEF TenancyInv, TenancyTypeOK
<1>5. GrantedInv'
  BY <1>1 DEF TenancyInv, GrantedInv, Committed
<1>6. UnitsInv'
  <2>1. ASSUME NEW t \in OrgType, granted[t] # -1
        PROVE  /\ granted[t] = 0 => Counted(t) = {}
               /\ units'[t] + Cardinality(Counted(t))
                    <= granted[t] + Cardinality(Clerk) - 1 + retyped'[t]
    <3>1. /\ Cardinality(Counted(t)) \in Nat /\ Cardinality(Clerk) \in Nat
          /\ Cardinality(Clerk) # 0 /\ Cardinality(Counted(t)) <= Cardinality(Clerk)
          /\ Counted(t) = {} => Cardinality(Counted(t)) = 0
      BY CountedCards, FS_EmptySet
    <3>2. units[t] \in Nat /\ retyped[t] \in Nat /\ granted[t] \in Nat /\ MaxUnits \in Nat
      BY <2>1, TenancyBounds DEF TenancyInv, TenancyTypeOK, PlanLimit
    <3>3. /\ granted[t] = 0 => Counted(t) = {}
          /\ units[t] + Cardinality(Counted(t))
               <= granted[t] + Cardinality(Clerk) - 1 + retyped[t]
      BY <2>1 DEF TenancyInv, UnitsInv
    <3>4. Cardinality(Counted(t)) <= granted[t] + Cardinality(Clerk) - 1
      BY <3>1, <3>2, <3>3
    <3>5. CASE t = to
      BY <1>1, <1>2, <1>3, <3>1, <3>2, <3>3, <3>4, <3>5
    <3>6. CASE t = from
      <4>1. units'[t] = units[t] - 1 /\ retyped'[t] = retyped[t]
        BY <1>1, <1>2, <1>3, <3>6
      <4> QED
        BY <3>1, <3>2, <3>3, <4>1
    <3>7. CASE t \notin {from, to}
      BY <1>2, <1>3, <3>3, <3>7
    <3> QED
      BY <3>5, <3>6, <3>7
  <2>2. \A t \in OrgType : Counted(t)' = Counted(t)
    BY <1>1 DEF Counted
  <2> QED
    BY <1>1, <2>1, <2>2 DEF UnitsInv
<1> QED
  BY <1>1, <1>4, <1>5, <1>6, SubscriptionsStay DEF TenancyInv

-----------------------------------------------------------------------------

\* The company's status, and what is no longer cached, change nothing else.
LEMMA RestHolds ==
  ASSUME TenancyInv, company' \in {"none", "ACTIVE", "SUSPENDED"}, limits' \in {{}, limits},
         UNCHANGED <<subs, command, overlapped, granted, units, opening, retyped>>
  PROVE  TenancyInv'
<1>1. TenancyTypeOK'
  BY DEF TenancyInv, TenancyTypeOK
<1>2. GrantedInv'
  BY DEF TenancyInv, GrantedInv, Committed
<1> QED
  BY <1>1, <1>2, SubscriptionsStay, UnitsStay DEF TenancyInv

LEMMA TenancyStepHolds == TenancyInv /\ [TenancyNext]_tenancyVars => TenancyInv'
<1> SUFFICES ASSUME TenancyInv, [TenancyNext]_tenancyVars PROVE TenancyInv'
  OBVIOUS
<1>0. company \in {"none", "ACTIVE", "SUSPENDED"}
  BY DEF TenancyInv, TenancyTypeOK
<1>1. CASE TenantController
  BY <1>0, <1>1, RestHolds DEF TenantController, CreateTenant, SetTenantStatus, unitVars
<1>2. ASSUME LimitsExpire \/ \E m \in Manager : EvictInside(m)
      PROVE  TenancyInv'
  BY <1>0, <1>2, RestHolds DEF LimitsExpire, EvictInside, subscriptionVars, unitVars
<1>3. ASSUME NEW m \in Manager, SubscriptionController(m)
      PROVE  TenancyInv'
  <2>1. CASE Assign(m)
    BY <2>1, AssignHolds
  <2>2. Latest(ActiveSubs) \in SUBSET Committed
    BY RowType DEF Latest
  <2>3. CASE Suspend(m) \/ Cancel(m)
    BY <2>2, <2>3, FindsHolds DEF Suspend, Cancel
  <2>4. CASE Resume(m)
    <3> DEFINE S == {s \in Latest(Committed) : subs[s].status = "SUSPENDED"}
    <3>1. S \in SUBSET Committed /\ \A s \in S, o \in Committed : o <= s
      BY DEF Latest
    <3>2. Finds(m, S, "ACTIVE")
      BY <2>4 DEF Resume
    <3> HIDE DEF S
    <3> QED
      BY <3>1, <3>2, FindsHolds
  <2> QED
    BY <1>3, <2>1, <2>3, <2>4 DEF SubscriptionController
<1>4. CASE \E c \in Clerk :
             \/ CachedLimit(c) \/ LoadLimit(c) \/ KeepLimit(c)
             \/ Count(c) \/ InsertUnit(c) \/ GivesUp(c)
  BY <1>4, CachedLimitHolds, LoadLimitHolds, KeepLimitHolds, CountHolds, InsertUnitHolds,
     GivesUpHolds
<1>5. CASE OrganizationUnitController
  BY <1>5, OpenUnitHolds, UpdateUnitHolds DEF OrganizationUnitController
<1>6. CASE UNCHANGED tenancyVars
  BY <1>0, <1>6, RestHolds DEF tenancyVars
<1> QED
  BY <1>1, <1>2, <1>3, <1>4, <1>5, <1>6, CommitAssignHolds, RollBackAssignHolds, WriteStatusHolds,
     RecordHolds DEF TenancyNext

\* Companies, subscriptions, limits, units and the requests about them keep their
\* types.
THEOREM TenancyTypeCorrect == TenancySpec => []TenancyTypeOK
<1>1. TenancyInv => TenancyTypeOK
  BY DEF TenancyInv
<1> QED
  BY <1>1, TenancyInitHolds, TenancyStepHolds, PTL DEF TenancySpec

\* One subscription is active at most, for any number of plans assigned, commands
\* and failures one after the other.
THEOREM OneIsActive == TenancySpec => []OneActiveSubscription
<1>1. TenancyInv => OneActiveSubscription
  <2> SUFFICES ASSUME TenancyInv, ~overlapped PROVE Cardinality(ActiveSubs) <= 1
    BY DEF OneActiveSubscription
  <2>1. ASSUME NEW s \in ActiveSubs, NEW o \in ActiveSubs PROVE s = o
    <3>1. s \in Sub /\ o \in Sub /\ s \in Committed /\ o \in Committed
      BY <2>1, RowType
    <3>2. s \in Int /\ o \in Int
      BY <3>1, RowType
    <3> QED
      BY <2>1, <3>1, <3>2 DEF TenancyInv, SubscriptionsInv, OrderInv
  <2>2. CASE ActiveSubs = {}
    BY <2>2, FS_EmptySet
  <2>3. CASE ActiveSubs # {}
    <3>1. PICK s \in ActiveSubs : ActiveSubs = {s}
      BY <2>1, <2>3
    <3>2. Cardinality({s}) = 1
      BY FS_Singleton
    <3> QED
      BY <3>1, <3>2
  <2> QED
    BY <2>2, <2>3
<1> QED
  BY <1>1, TenancyInitHolds, TenancyStepHolds, PTL DEF TenancySpec

\* Units are beyond what was granted by the clerks that counted together and by
\* those that changed their type, for any number of clerks, plans and units.
THEOREM UnitsStayWithinLimit == TenancySpec => []UnitsWithinLimit
<1>1. TenancyInv => UnitsWithinLimit
  <2> SUFFICES ASSUME TenancyInv, NEW t \in OrgType, granted[t] # -1
               PROVE  units[t] <= granted[t] + Cardinality(Clerk) - 1 + retyped[t]
    BY DEF UnitsWithinLimit
  <2>1. /\ units[t] \in Nat /\ retyped[t] \in Nat /\ granted[t] \in Nat
        /\ Cardinality(Counted(t)) \in Nat /\ Cardinality(Clerk) \in Nat
    BY CountedCards, TenancyBounds DEF TenancyInv, TenancyTypeOK, PlanLimit
  <2> QED
    BY <2>1 DEF TenancyInv, UnitsInv
<1> QED
  BY <1>1, TenancyInitHolds, TenancyStepHolds, PTL DEF TenancySpec

-----------------------------------------------------------------------------
(* Seeding: what the lists say of each other *)

Companies == {masarat, qadmous, trojan}

LEMMA CompaniesAreSeeded ==
  /\ SeededTenants = Companies
  /\ \A t \in SEEDED_TENANTS : t[2] \in SEEDED_USERS
<1>1. SeededTenants = Companies
  BY DEF SeededTenants, SEEDED_TENANTS, Companies
<1> QED
  BY <1>1 DEF SEEDED_TENANTS, SEEDED_USERS

LEMMA ListsOfTheCompanies ==
  /\ /\ branchesForTenant(masarat) = MASARAT_UNITS
     /\ branchesForTenant(qadmous) = QADMOUS_UNITS
     /\ branchesForTenant(trojan) = TROJAN_UNITS
  /\ /\ zonesByTenant(masarat) = MASARAT_ZONES
     /\ zonesByTenant(qadmous) = QADMOUS_ZONES
     /\ zonesByTenant(trojan) = TROJAN_ZONES
BY DEF branchesForTenant, zonesByTenant, masarat, qadmous, trojan

LEMMA UnitsAreListed ==
  ASSUME NEW firm \in Companies, NEW u \in branchesForTenant(firm)
  PROVE  <<firm, u[1]>> \in SeededUnits
BY CompaniesAreSeeded DEF SeededUnits

\* The units that other lists name.
LEMMA UnitNames ==
  /\ {masarat} \X {"HUB", "WAREHOUSE", "JARAMANA", "ALEPPO", "IDLIB", "LATAKIA", "TARTOUS", "HOMS",
                   "HAMA", "DARAA", "SWEIDA", "DEIR", "RAQQA", "HASAKAH"} \subseteq SeededUnits
  /\ {qadmous} \X {"HUB", "DAMASCUS", "JARAMANA", "ALEPPO", "HOMS", "HAMA"} \subseteq SeededUnits
  /\ {trojan} \X {"HUB", "DAMASCUS", "ALEPPO", "RAQQA", "HOMS"} \subseteq SeededUnits
<1>1. ASSUME NEW n \in {"HUB", "WAREHOUSE", "JARAMANA", "ALEPPO", "IDLIB", "LATAKIA", "TARTOUS",
                        "HOMS", "HAMA", "DARAA", "SWEIDA", "DEIR", "RAQQA", "HASAKAH"}
      PROVE  <<masarat, n>> \in SeededUnits
  <2>1. \E u \in MASARAT_UNITS : u[1] = n
    BY DEF MASARAT_UNITS
  <2> QED
    BY <2>1, ListsOfTheCompanies, UnitsAreListed DEF Companies
<1>2. ASSUME NEW n \in {"HUB", "DAMASCUS", "JARAMANA", "ALEPPO", "HOMS", "HAMA"}
      PROVE  <<qadmous, n>> \in SeededUnits
  <2>1. \E u \in QADMOUS_UNITS : u[1] = n
    BY DEF QADMOUS_UNITS
  <2> QED
    BY <2>1, ListsOfTheCompanies, UnitsAreListed DEF Companies
<1>3. ASSUME NEW n \in {"HUB", "DAMASCUS", "ALEPPO", "RAQQA", "HOMS"}
      PROVE  <<trojan, n>> \in SeededUnits
  <2>1. \E u \in TROJAN_UNITS : u[1] = n
    BY DEF TROJAN_UNITS
  <2> QED
    BY <2>1, ListsOfTheCompanies, UnitsAreListed DEF Companies
<1> QED
  BY <1>1, <1>2, <1>3

LEMMA ZonesHavePrices ==
  ASSUME NEW firm \in Companies,
         NEW a \in zonesByTenant(firm), NEW b \in zonesByTenant(firm), a # b
  PROVE  <<firm, <<a, b>>>> \in SeededPrices
<1>1. zonesByTenant(firm) \subseteq MASARAT_ZONES
  BY ListsOfTheCompanies DEF Companies, MASARAT_ZONES, QADMOUS_ZONES, TROJAN_ZONES
<1>2. {a, b} \in PAIR_BASE_PRICE
  BY <1>1 DEF MASARAT_ZONES, PAIR_BASE_PRICE
<1>3. <<a, b>> \in {q \in zonesByTenant(firm) \X zonesByTenant(firm) :
                      q[1] # q[2] /\ {q[1], q[2]} \in PAIR_BASE_PRICE}
  BY <1>2
<1>4. firm \in SeededTenants
  BY CompaniesAreSeeded
<1> QED
  BY <1>3, <1>4 DEF SeededPrices

CustomerNames == {c[1] : c \in CUSTOMERS}

EmployeeNames == {<<e[1], e[2]>> : e \in EMPLOYEES}

LEMMA EmployeesAreKnown ==
  /\ \A e \in EMPLOYEES :
       e[1] \in Companies /\ e[2] \in SEEDED_USERS /\ <<e[1], e[4]>> \in SeededUnits
  /\ \A firm \in Companies : \E e \in EMPLOYEES : e[1] = firm
<1>1. \A e \in EMPLOYEES : e[1] \in Companies /\ e[2] \in SEEDED_USERS
  BY DEF EMPLOYEES, SEEDED_USERS, Companies
<1>2. \A e \in EMPLOYEES : <<e[1], e[4]>> \in SeededUnits
  BY UnitNames DEF EMPLOYEES
<1>3. \A firm \in Companies : \E e \in EMPLOYEES : e[1] = firm
  BY DEF EMPLOYEES, Companies
<1> QED
  BY <1>1, <1>2, <1>3

LEMMA CustomersAreUsers == CustomerNames \subseteq SEEDED_USERS
<1>1. \A c \in CUSTOMERS : c[1] \in SEEDED_USERS
  BY DEF CUSTOMERS, SEEDED_USERS
<1> QED
  BY <1>1 DEF CustomerNames

LEMMA ShipmentsAreKnown ==
  ASSUME NEW s \in AllShipments
  PROVE  /\ s[2] \in Companies /\ s[3] \in CustomerNames
         /\ <<s[2], s[6]>> \in SeededUnits /\ <<s[2], s[7]>> \in SeededUnits
<1>1. {"john.doe", "jane.smith", "omar.najjar", "hiba.atri", "bassam.qabbani", "ghadah.hamdan",
       "tareq.atasi"} \subseteq CustomerNames
  <2>1. \A n \in {"john.doe", "jane.smith", "omar.najjar", "hiba.atri", "bassam.qabbani",
                  "ghadah.hamdan", "tareq.atasi"} : \E c \in CUSTOMERS : c[1] = n
    BY DEF CUSTOMERS
  <2> QED
    BY <2>1 DEF CustomerNames
<1>2. CASE s \in OLD_SHIPMENTS
  BY <1>1, <1>2, UnitNames DEF OLD_SHIPMENTS, Companies
<1>3. CASE s \in NEW_SHIPMENTS
  BY <1>1, <1>3, UnitNames DEF NEW_SHIPMENTS, Companies
<1>4. CASE s \in EXTRA_SHIPMENTS
  BY <1>1, <1>4, UnitNames DEF EXTRA_SHIPMENTS, Companies
<1> QED
  BY <1>2, <1>3, <1>4 DEF AllShipments, SHIPMENTS

ShipmentIds == {s[8] : s \in AllShipments} \ {0}

LEMMA ShipmentsHaveIds ==
  {821, 824, 822, 823, 870, 871, 872, 873, 874, 875, 876, 880, 881, 882, 883, 884, 885, 886, 887,
   888, 889, 890, 891, 892, 893, 894, 895, 896, 897} \subseteq ShipmentIds
<1>1. \A n \in {821, 824, 822, 823} : \E s \in OLD_SHIPMENTS : s[8] = n
  BY DEF OLD_SHIPMENTS
<1>2. \A n \in {870, 871, 872, 873, 874, 875, 876} : \E s \in NEW_SHIPMENTS : s[8] = n
  BY DEF NEW_SHIPMENTS
<1>3. \A n \in {880, 881, 882, 883, 884, 885, 886, 887, 888, 889, 890, 891, 892, 893, 894, 895,
                896, 897} : \E s \in EXTRA_SHIPMENTS : s[8] = n
  BY DEF EXTRA_SHIPMENTS
<1> QED
  BY <1>1, <1>2, <1>3 DEF ShipmentIds, AllShipments, SHIPMENTS

LEMMA InvoicesAreKnown ==
  \A i \in INVOICES : i[1] \in Companies /\ i[2] \in ShipmentIds
BY ShipmentsHaveIds DEF INVOICES, Companies

ParcelIds == {p[1] : p \in AllParcels}

LEMMA ParcelsAreShipped ==
  \A p \in AllParcels : p[2] \in ShipmentIds
BY ShipmentsHaveIds DEF AllParcels, PARCELS, EXTRA_PARCELS

LEMMA RoutesAreKnown ==
  \A m \in MARKETPLACE_ROUTES :
    m[1] \in Companies /\ <<m[1], m[2]>> \in SeededUnits /\ <<m[1], m[3]>> \in SeededUnits
BY UnitNames DEF MARKETPLACE_ROUTES, Companies

LEMMA DriversAreEmployees ==
  ASSUME NEW v \in VEHICLES, v[3] # "none"
  PROVE  v[3] \in SEEDED_USERS /\ <<v[1], v[3]>> \in EmployeeNames
<1>1. v[3] \in SEEDED_USERS
  BY DEF VEHICLES, SEEDED_USERS
<1>2. \E e \in EMPLOYEES : e[1] = v[1] /\ e[2] = v[3]
  BY DEF VEHICLES, EMPLOYEES
<1> QED
  BY <1>1, <1>2 DEF EmployeeNames

LEMMA TripsAreKnown ==
  ASSUME NEW t \in trips
  PROVE  /\ \E e \in EMPLOYEES : e[1] = t[2] /\ e[3] = t[3]
         /\ <<t[2], t[4]>> \in SeededUnits /\ <<t[2], t[5]>> \in SeededUnits
<1>1. \E e \in EMPLOYEES : e[1] = t[2] /\ e[3] = t[3]
  BY DEF trips, EMPLOYEES
<1>2. <<t[2], t[4]>> \in SeededUnits /\ <<t[2], t[5]>> \in SeededUnits
  BY UnitNames DEF trips
<1> QED
  BY <1>1, <1>2

LEMMA ParcelIdsAreListed ==
  {1101, 1102, 1103, 1104, 1105, 1107, 1110, 1111, 1112, 1113, 1114, 1115, 1116, 1117, 1118, 1119,
   1120, 1121, 1122, 1123, 1124, 1126, 1127, 1128, 1129, 1130, 1131, 1132, 1133, 1134, 1135, 1137,
   1138, 1139, 1141, 1142} \subseteq ParcelIds
<1>1. \A n \in {1101, 1102, 1103, 1104, 1105, 1107, 1110, 1111, 1112, 1113, 1114, 1115, 1116} :
        \E p \in PARCELS : p[1] = n
  BY DEF PARCELS
<1>2. \A n \in {1117, 1118, 1119, 1120, 1121, 1122, 1123, 1124, 1126, 1127, 1128, 1129, 1130, 1131,
                1132, 1133, 1134, 1135, 1137, 1138, 1139, 1141, 1142} :
        \E p \in EXTRA_PARCELS : p[1] = n
  BY DEF EXTRA_PARCELS
<1> QED
  BY <1>1, <1>2 DEF ParcelIds, AllParcels

LEMMA ManifestsAreKnown ==
  ASSUME NEW m \in manifests
  PROVE  /\ <<m[2], m[3]>> \in SeededUnits /\ <<m[2], m[4]>> \in SeededUnits
         /\ m[6] \subseteq ParcelIds
<1>1. CASE m \in openManifests
  BY <1>1, UnitNames, ParcelIdsAreListed DEF openManifests
<1>2. CASE m \in readyManifests
  BY <1>2, UnitNames, ParcelIdsAreListed DEF readyManifests
<1>3. CASE m \in assignedManifests
  BY <1>3, UnitNames, ParcelIdsAreListed DEF assignedManifests
<1>4. CASE m \in loadingManifests
  BY <1>4, UnitNames, ParcelIdsAreListed DEF loadingManifests
<1>5. CASE m \in inTransitManifests
  BY <1>5, UnitNames, ParcelIdsAreListed DEF inTransitManifests
<1>6. CASE m \in completedManifests
  BY <1>6, UnitNames, ParcelIdsAreListed DEF completedManifests
<1> QED
  BY <1>1, <1>2, <1>3, <1>4, <1>5, <1>6 DEF manifests

-----------------------------------------------------------------------------
(* Seeding: the inductive invariant *)

\* The run that truncated the tables last is past this seeder.
Past(r, seeder) == last = {r} /\ \E k \in DOMAIN Order : Order[k] = seeder /\ k < at[r]

RoleRows == SeededTenants \X SEEDED_ROLES

GrantRows == SeededTenants \X SEEDED_ROLES \X {"all"}

PostRows == {<<e[1], e[2], e[4]>> : e \in EMPLOYEES}

DutyRows == UNION {{<<e[1], e[2], role>> : role \in SEEDED_ROLES} : e \in EMPLOYEES}

MembershipRows == UNION {{c[1]} \X c[2] : c \in CUSTOMERS}

QuotationRows == {<<s[1], s[2]>> : s \in AllShipments}

MarketRows == {<<856, m[1]>> : m \in MARKETPLACE_ROUTES}

InvoiceRows == {i[2] : i \in INVOICES}

ItemRows == UNION {{m[1]} \X m[6] : m \in manifests}

\* What a seeder adds to a table, whatever other runs have added before it.
Promised == {
  <<"Permission", "permissions", {"all"}>>,
  <<"User", "users", SEEDED_USERS>>,
  <<"Tenant", "owners", SEEDED_TENANTS>>,
  <<"Role", "roles", RoleRows>>,
  <<"Role", "grants", GrantRows>>,
  <<"Zone", "prices", SeededPrices>>,
  <<"OrganizationUnit", "units", SeededUnits>>,
  <<"Employee", "employees", EmployeeNames>>,
  <<"Employee", "posts", PostRows>>,
  <<"Employee", "duties", DutyRows>>,
  <<"Customer", "profiles", CustomerNames>>,
  <<"Customer", "memberships", MembershipRows>>,
  <<"ShipmentRequest", "quotations", QuotationRows>>,
  <<"ShipmentRequest", "shipments", ShipmentIds>>,
  <<"MarketplaceQuotes", "quotations", MarketRows>>,
  <<"Billing", "invoices", InvoiceRows>>,
  <<"Parcel", "parcels", ParcelIds>>,
  <<"Manifest", "items", ItemRows>>,
  <<"ProofAndMovement", "movements", {1101}>>,
  <<"ProofAndMovement", "proofs", {1107}>>,
  <<"SupportNotification", "tickets", {1301}>>}

PromisesInv == \A r \in Run, p \in Promised : Past(r, p[1]) => p[3] \subseteq seeded[p[2]]

\* A trip is in the table, with whatever vehicle its driver had.
TripsInv == \A r \in Run : Past(r, "Trip") => \A t \in trips : \E x \in seeded.trips : x[1] = t[1]

DriversListed == {<<v[2], v[3]>> : v \in {x \in VEHICLES : x[3] # "none"}}

\* Alone, a run comes to vehicles that nobody drives, and leaves none without a driver.
DriversInv == \A r \in Run : last = {r} /\ alone =>
  /\ Past(r, "VehicleAssignment") => DriversListed \subseteq seeded.drivers
  /\ at[r] \in DOMAIN Order /\ ~Past(r, "VehicleAssignment") => seeded.drivers = {}

GrantsInv ==
  /\ seeded.permissions \subseteq {"all"}
  /\ seeded.grants \subseteq SeededTenants \X SEEDED_ROLES \X seeded.permissions

SeedingInv == SeedingTypeOK /\ PromisesInv /\ TripsInv /\ DriversInv /\ GrantsInv

-----------------------------------------------------------------------------
(* Seeding: the order of the seeders *)

LEMMA OrderIsFinite == DOMAIN Order = 1 .. 23 /\ Len(Order) = 23
BY DEF Order

\* A seeder comes after those whose rows it looks up.
LEMMA LookedUpBefore ==
  ASSUME NEW r \in Run, last = {r}, at[r] \in DOMAIN Order
  PROVE  /\ Order[at[r]] = "Tenant" => Past(r, "User")
         /\ Order[at[r]] = "Role" => Past(r, "Permission")
         /\ Order[at[r]] = "Employee" =>
              Past(r, "User") /\ Past(r, "Role") /\ Past(r, "OrganizationUnit")
         /\ Order[at[r]] = "Customer" => Past(r, "User")
         /\ Order[at[r]] \in {"ShipmentRequest", "MarketplaceQuotes"} =>
              /\ Past(r, "User") /\ Past(r, "OrganizationUnit")
              /\ Past(r, "Employee") /\ Past(r, "Customer")
         /\ Order[at[r]] = "Billing" =>
              Past(r, "OrganizationUnit") /\ Past(r, "Employee") /\ Past(r, "ShipmentRequest")
         /\ Order[at[r]] = "VehicleAssignment" =>
              Past(r, "User") /\ Past(r, "Employee") /\ ~Past(r, "VehicleAssignment")
         /\ Order[at[r]] = "Parcel" => Past(r, "ShipmentRequest")
         /\ Order[at[r]] = "Trip" => Past(r, "Employee") /\ Past(r, "OrganizationUnit")
         /\ Order[at[r]] = "Manifest" => Past(r, "OrganizationUnit") /\ Past(r, "Parcel")
         /\ Order[at[r]] = "ProofAndMovement" =>
              Past(r, "Employee") /\ Past(r, "OrganizationUnit") /\ Past(r, "Parcel")
         /\ Order[at[r]] = "SupportNotification" => Past(r, "User")
         /\ Order[at[r]] = "SuperUser" => Past(r, "VehicleAssignment")
<1>1. PICK n \in 1 .. 23 : n = at[r]
  BY OrderIsFinite
<1>2. /\ Order[n] = "Tenant" => n = 7
      /\ Order[n] = "Role" => n = 8
      /\ Order[n] = "Employee" => n = 11
      /\ Order[n] = "Customer" => n = 12
      /\ Order[n] = "ShipmentRequest" => n = 13
      /\ Order[n] = "MarketplaceQuotes" => n = 14
      /\ Order[n] = "Billing" => n = 15
      /\ Order[n] = "VehicleAssignment" => n = 17
      /\ Order[n] = "Parcel" => n = 18
      /\ Order[n] = "Trip" => n = 19
      /\ Order[n] = "Manifest" => n = 20
      /\ Order[n] = "ProofAndMovement" => n = 21
      /\ Order[n] = "SupportNotification" => n = 22
      /\ Order[n] = "SuperUser" => n = 23
  BY DEF Order
<1>3. \A k \in 1 .. 23 : k < n => Past(r, Order[k])
  BY <1>1, OrderIsFinite DEF Past
<1>4. /\ Order[2] = "Permission" /\ Order[4] = "User" /\ Order[8] = "Role"
      /\ Order[10] = "OrganizationUnit" /\ Order[11] = "Employee" /\ Order[12] = "Customer"
      /\ Order[13] = "ShipmentRequest" /\ Order[17] = "VehicleAssignment" /\ Order[18] = "Parcel"
  BY DEF Order
<1>5. \A k \in 1 .. 23 : Order[k] = "VehicleAssignment" => k = 17
  BY DEF Order
<1>6. Order[n] = "VehicleAssignment" => ~Past(r, "VehicleAssignment")
  BY <1>1, <1>2, <1>5, OrderIsFinite DEF Past
<1> QED
  BY <1>1, <1>2, <1>3, <1>4, <1>6

LEMMA PastIsPast ==
  ASSUME NEW r \in Run, last = {r}, Finished(r), at[r] \in Nat
  PROVE  \A k \in DOMAIN Order : Past(r, Order[k])
BY OrderIsFinite DEF Past, Finished

\* Nobody is past a seeder after a step who was not before it, but the run
\* whose turn it was.
LEMMA TurnPasses ==
  ASSUME NEW q \in Run, NEW s, Turn(q, s), last' = last, at \in [Run -> 0 .. Len(Order) + 1],
         NEW r \in Run, NEW x, Past(r, x)'
  PROVE  Past(r, x) \/ (r = q /\ x = s)
<1>1. PICK k \in DOMAIN Order : Order[k] = x /\ k < at'[r]
  BY DEF Past
<1>2. CASE r = q
  <2>1. at'[r] = at[r] + 1 /\ Order[at[r]] = s
    BY <1>2 DEF Turn
  <2>2. k < at[r] \/ k = at[r]
    BY <1>1, <2>1, OrderIsFinite
  <2> QED
    BY <1>1, <1>2, <2>1, <2>2 DEF Past
<1>3. CASE r # q
  BY <1>1, <1>3 DEF Past, Turn
<1> QED
  BY <1>2, <1>3

-----------------------------------------------------------------------------
(* Seeding: what a seeder must show *)

LEMMA PromisesAreOfTables ==
  ASSUME NEW p \in Promised PROVE p[2] \in Table
BY DEF Promised, Table

\* A table has what it had, and what the seeder adds to it.
LEMMA UpsertGrows ==
  ASSUME SeedingInv, NEW q \in Run, NEW s, NEW new, Upserts(q, s, new)
  PROVE  /\ DOMAIN seeded' = Table
         /\ \A t \in Table :
              seeded'[t] = IF t \in DOMAIN new THEN seeded[t] \cup new[t] ELSE seeded[t]
         /\ \A t \in Table : seeded[t] \subseteq seeded'[t]
         /\ at' \in [Run -> 0 .. Len(Order) + 1]
         /\ last' = last /\ last \subseteq Run /\ alone' \in BOOLEAN
         /\ alone' => alone /\ last = {q}
<1>1. at \in [Run -> 0 .. Len(Order) + 1] /\ last \subseteq Run /\ alone \in BOOLEAN
  BY DEF SeedingInv, SeedingTypeOK
<1>2. at' \in [Run -> 0 .. Len(Order) + 1]
  <2>1. at[q] \in 1 .. 23 /\ at' = [at EXCEPT ![q] = at[q] + 1]
    BY OrderIsFinite DEF Upserts, Turn
  <2> QED
    BY <2>1, <1>1, OrderIsFinite
<1>3. alone' \in BOOLEAN /\ (alone' => alone /\ last = {q})
  BY <1>1 DEF Upserts
<1>4. DOMAIN seeded' = Table /\ last' = last
  BY DEF Upserts
<1>5. \A t \in Table :
        seeded'[t] = IF t \in DOMAIN new THEN seeded[t] \cup new[t] ELSE seeded[t]
  BY DEF Upserts
<1>6. \A t \in Table : seeded[t] \subseteq seeded'[t]
  BY <1>5
<1> QED
  BY <1>1, <1>2, <1>3, <1>4, <1>5, <1>6

\* What is promised of a seeder stays, and of the one that ran is there.
LEMMA PromisesHold ==
  ASSUME SeedingInv, NEW q \in Run, NEW s, NEW new, Upserts(q, s, new),
         last = {q} => \A p \in Promised :
           p[1] = s => p[2] \in DOMAIN new /\ p[3] \subseteq new[p[2]]
  PROVE  PromisesInv'
<1>1. ASSUME NEW r \in Run, NEW p \in Promised, Past(r, p[1])'
      PROVE  p[3] \subseteq seeded'[p[2]]
  <2>1. p[2] \in Table /\ last' = last
    BY PromisesAreOfTables, UpsertGrows
  <2>2. Past(r, p[1]) \/ (r = q /\ p[1] = s)
    BY <1>1, <2>1, TurnPasses DEF SeedingInv, SeedingTypeOK, Upserts
  <2>3. CASE Past(r, p[1])
    <3>1. p[3] \subseteq seeded[p[2]]
      BY <2>3 DEF SeedingInv, PromisesInv
    <3> QED
      BY <3>1, <2>1, UpsertGrows
  <2>4. CASE r = q /\ p[1] = s
    <3>1. last = {q}
      BY <1>1, <2>1, <2>4 DEF Past
    <3> QED
      BY <3>1, <2>1, <2>4, UpsertGrows
  <2> QED
    BY <2>2, <2>3, <2>4
<1> QED
  BY <1>1 DEF PromisesInv, Past, Promised

LEMMA TripsStay ==
  ASSUME SeedingInv, NEW q \in Run, NEW s, s # "Trip", NEW new, Upserts(q, s, new)
  PROVE  TripsInv'
<1>1. ASSUME NEW r \in Run, Past(r, "Trip")', NEW t \in trips
      PROVE  \E x \in seeded'.trips : x[1] = t[1]
  <2>1. last' = last
    BY UpsertGrows
  <2>2. Past(r, "Trip")
    BY <1>1, <2>1, TurnPasses DEF SeedingInv, SeedingTypeOK, Upserts
  <2>3. \E x \in seeded.trips : x[1] = t[1]
    BY <2>2 DEF SeedingInv, TripsInv
  <2>4. seeded.trips \subseteq seeded'.trips
    BY UpsertGrows DEF Table
  <2> QED
    BY <2>3, <2>4
<1> QED
  BY <1>1 DEF TripsInv

\* Another seeder than that of the drivers leaves them alone, or comes after it.
LEMMA DriversStay ==
  ASSUME SeedingInv, NEW q \in Run, NEW s, s # "VehicleAssignment",
         NEW new, Upserts(q, s, new),
         "drivers" \in DOMAIN new /\ last = {q} => Past(q, "VehicleAssignment")
  PROVE  DriversInv'
<1> SUFFICES ASSUME NEW r \in Run, last' = {r}, alone'
             PROVE  /\ Past(r, "VehicleAssignment")' => DriversListed \subseteq seeded'.drivers
                    /\ at'[r] \in DOMAIN Order /\ ~Past(r, "VehicleAssignment")' =>
                         seeded'.drivers = {}
  BY DEF DriversInv
<1>1. last = {r} /\ alone /\ r = q
  BY UpsertGrows
<1>2. /\ seeded.drivers \subseteq seeded'.drivers
      /\ "drivers" \notin DOMAIN new => seeded'.drivers = seeded.drivers
  BY UpsertGrows DEF Table
<1>3. CASE Past(r, "VehicleAssignment")
  <2>1. DriversListed \subseteq seeded.drivers
    BY <1>1, <1>3 DEF SeedingInv, DriversInv
  <2>2. Past(r, "VehicleAssignment")'
    <3>1. at[q] \in Nat /\ at'[q] = at[q] + 1
      BY OrderIsFinite DEF Upserts, Turn, SeedingInv, SeedingTypeOK
    <3> QED
      BY <1>1, <1>3, <3>1, OrderIsFinite DEF Past
  <2> QED
    BY <2>1, <2>2, <1>2
<1>4. CASE ~Past(r, "VehicleAssignment")
  <2>1. ~Past(r, "VehicleAssignment")'
    <3>1. last' = last
      BY UpsertGrows
    <3> QED
      BY <1>4, <3>1, TurnPasses DEF SeedingInv, SeedingTypeOK, Upserts
  <2>2. at[r] \in DOMAIN Order
    BY <1>1 DEF Upserts, Turn
  <2>3. seeded.drivers = {}
    BY <1>1, <1>4, <2>2 DEF SeedingInv, DriversInv
  <2> QED
    BY <1>1, <1>2, <1>4, <2>1, <2>3
<1> QED
  BY <1>3, <1>4

\* The tables a type or a grant is about.
Bounded(new) ==
  /\ "users" \in DOMAIN new => new["users"] \subseteq SEEDED_USERS \cup {"super"}
  /\ "units" \in DOMAIN new => new["units"] \subseteq SeededUnits
  /\ "parcels" \in DOMAIN new => new["parcels"] \subseteq ParcelIds
  /\ "permissions" \in DOMAIN new => new["permissions"] \subseteq {"all"}
  /\ "grants" \in DOMAIN new =>
       new["grants"] \subseteq SeededTenants \X SEEDED_ROLES \X seeded.permissions

LEMMA BoundsHold ==
  ASSUME SeedingInv, NEW q \in Run, NEW s, NEW new, Upserts(q, s, new), Bounded(new)
  PROVE  SeedingTypeOK' /\ GrantsInv'
<1>1. /\ \A t \in Table :
           seeded'[t] = IF t \in DOMAIN new THEN seeded[t] \cup new[t] ELSE seeded[t]
      /\ \A t \in Table : seeded[t] \subseteq seeded'[t]
  BY UpsertGrows
<1>2. {"users", "units", "parcels", "permissions", "grants"} \subseteq Table
  BY DEF Table
<1>3. /\ seeded.users \subseteq SEEDED_USERS \cup {"super"}
      /\ seeded.units \subseteq SeededUnits
      /\ seeded.parcels \subseteq ParcelIds
      /\ seeded.permissions \subseteq {"all"}
      /\ seeded.grants \subseteq SeededTenants \X SEEDED_ROLES \X seeded.permissions
  BY DEF SeedingInv, SeedingTypeOK, GrantsInv, ParcelIds
<1>4. /\ seeded'["users"] \subseteq SEEDED_USERS \cup {"super"}
      /\ seeded'["units"] \subseteq SeededUnits
      /\ seeded'["parcels"] \subseteq ParcelIds
      /\ seeded'["permissions"] \subseteq {"all"}
  BY <1>1, <1>2, <1>3 DEF Bounded
<1>5. seeded'["grants"] \subseteq SeededTenants \X SEEDED_ROLES \X seeded.permissions
  BY <1>1, <1>2, <1>3 DEF Bounded
<1>6. SeedingTypeOK'
  BY <1>4, UpsertGrows DEF SeedingTypeOK, ParcelIds
<1>7. seeded.permissions \subseteq seeded'.permissions
  BY <1>1, <1>2
<1> QED
  BY <1>4, <1>5, <1>6, <1>7 DEF GrantsInv

\* A seeder of neither trips nor drivers.
LEMMA SeederHolds ==
  ASSUME SeedingInv, NEW q \in Run, NEW s, s \notin {"Trip", "VehicleAssignment"},
         NEW new, Upserts(q, s, new), Bounded(new), "drivers" \notin DOMAIN new,
         last = {q} => \A p \in Promised :
           p[1] = s => p[2] \in DOMAIN new /\ p[3] \subseteq new[p[2]]
  PROVE  SeedingInv'
BY BoundsHold, PromisesHold, TripsStay, DriversStay DEF SeedingInv

-----------------------------------------------------------------------------
(* Seeding: each seeder *)

LEMMA PromisesOf ==
  ASSUME NEW p \in Promised
  PROVE  /\ p[1] = "Permission" => p[2] = "permissions" /\ p[3] = {"all"}
         /\ p[1] = "User" => p[2] = "users" /\ p[3] = SEEDED_USERS
         /\ p[1] = "Tenant" => p[2] = "owners" /\ p[3] = SEEDED_TENANTS
         /\ p[1] = "Role" => \/ p[2] = "roles" /\ p[3] = RoleRows
                             \/ p[2] = "grants" /\ p[3] = GrantRows
         /\ p[1] = "Zone" => p[2] = "prices" /\ p[3] = SeededPrices
         /\ p[1] = "OrganizationUnit" => p[2] = "units" /\ p[3] = SeededUnits
         /\ p[1] = "Employee" => \/ p[2] = "employees" /\ p[3] = EmployeeNames
                                 \/ p[2] = "posts" /\ p[3] = PostRows
                                 \/ p[2] = "duties" /\ p[3] = DutyRows
         /\ p[1] = "Customer" => \/ p[2] = "profiles" /\ p[3] = CustomerNames
                                 \/ p[2] = "memberships" /\ p[3] = MembershipRows
         /\ p[1] = "ShipmentRequest" => \/ p[2] = "quotations" /\ p[3] = QuotationRows
                                        \/ p[2] = "shipments" /\ p[3] = ShipmentIds
         /\ p[1] = "MarketplaceQuotes" => p[2] = "quotations" /\ p[3] = MarketRows
         /\ p[1] = "Billing" => p[2] = "invoices" /\ p[3] = InvoiceRows
         /\ p[1] = "Parcel" => p[2] = "parcels" /\ p[3] = ParcelIds
         /\ p[1] = "Manifest" => p[2] = "items" /\ p[3] = ItemRows
         /\ p[1] = "ProofAndMovement" => \/ p[2] = "movements" /\ p[3] = {1101}
                                         \/ p[2] = "proofs" /\ p[3] = {1107}
         /\ p[1] = "SupportNotification" => p[2] = "tickets" /\ p[3] = {1301}
BY DEF Promised

LEMMA NothingIsPromisedOf ==
  ASSUME NEW p \in Promised
  PROVE  p[1] \notin {"SeedCleanup", "SubscriptionPlan", "PlatformOwner", "GlobalLocation",
                      "Vehicle", "VehicleAssignment", "Trip", "SuperUser"}
BY DEF Promised

\* What a seeder finds, once the run is past the seeders that promised it.
LEMMA Found ==
  ASSUME SeedingInv, NEW r \in Run
  PROVE  /\ Past(r, "Permission") => {"all"} \subseteq seeded.permissions
         /\ Past(r, "User") => SEEDED_USERS \subseteq seeded.users
         /\ Past(r, "Role") => RoleRows \subseteq seeded.roles
         /\ Past(r, "OrganizationUnit") => SeededUnits \subseteq seeded.units
         /\ Past(r, "Employee") => EmployeeNames \subseteq seeded.employees
         /\ Past(r, "Customer") => CustomerNames \subseteq seeded.profiles
         /\ Past(r, "ShipmentRequest") => ShipmentIds \subseteq seeded.shipments
         /\ Past(r, "Parcel") => ParcelIds \subseteq seeded.parcels
<1>1. {<<"Permission", "permissions", {"all"}>>, <<"User", "users", SEEDED_USERS>>,
       <<"Role", "roles", RoleRows>>, <<"OrganizationUnit", "units", SeededUnits>>,
       <<"Employee", "employees", EmployeeNames>>, <<"Customer", "profiles", CustomerNames>>,
       <<"ShipmentRequest", "shipments", ShipmentIds>>, <<"Parcel", "parcels", ParcelIds>>}
        \subseteq Promised
  BY DEF Promised
<1>2. ASSUME NEW x, NEW t, NEW S, <<x, t, S>> \in Promised, Past(r, x)
      PROVE  S \subseteq seeded[t]
  BY <1>2 DEF SeedingInv, PromisesInv
<1> QED
  BY <1>1, <1>2

LEMMA PermissionStep ==
  ASSUME SeedingInv, NEW q \in Run, PermissionSeeder(q) PROVE SeedingInv'
<1>1. PICK new : new = [permissions |-> {"all"}]
  OBVIOUS
<1>2. Upserts(q, "Permission", new)
  BY <1>1 DEF PermissionSeeder
<1>3. Bounded(new) /\ "drivers" \notin DOMAIN new
  BY <1>1 DEF Bounded
<1>4. \A p \in Promised : p[1] = "Permission" => p[2] \in DOMAIN new /\ p[3] \subseteq new[p[2]]
  BY <1>1, PromisesOf
<1> QED
  BY <1>2, <1>3, <1>4, SeederHolds

LEMMA UserStep ==
  ASSUME SeedingInv, NEW q \in Run, UserSeeder(q) PROVE SeedingInv'
<1>1. PICK new : new = [users |-> SEEDED_USERS,
                        admins |-> {"owner@logisticsplatform"} \cap SEEDED_USERS]
  OBVIOUS
<1>2. Upserts(q, "User", new)
  BY <1>1 DEF UserSeeder
<1>3. Bounded(new) /\ "drivers" \notin DOMAIN new
  BY <1>1 DEF Bounded
<1>4. \A p \in Promised : p[1] = "User" => p[2] \in DOMAIN new /\ p[3] \subseteq new[p[2]]
  BY <1>1, PromisesOf
<1> QED
  BY <1>2, <1>3, <1>4, SeederHolds

\* The seeders of which nothing is promised.
LEMMA NothingPromisedHolds ==
  ASSUME SeedingInv, NEW q \in Run,
         NEW s \in {"SubscriptionPlan", "PlatformOwner", "GlobalLocation", "Vehicle"},
         NEW new, Upserts(q, s, new), Bounded(new), "drivers" \notin DOMAIN new
  PROVE  SeedingInv'
<1>1. \A p \in Promised : p[1] = s => p[2] \in DOMAIN new /\ p[3] \subseteq new[p[2]]
  BY NothingIsPromisedOf
<1> QED
  BY <1>1, SeederHolds

LEMMA OtherSteps ==
  ASSUME SeedingInv, NEW q \in Run,
         \/ SubscriptionPlanSeeder(q) \/ PlatformOwnerSeeder(q) \/ GlobalLocationSeeder(q)
         \/ VehicleSeeder(q)
  PROVE  SeedingInv'
<1>1. CASE SubscriptionPlanSeeder(q)
  <2>1. PICK new : new = [plans |-> SUBSCRIPTION_PLANS]
    OBVIOUS
  <2>2. Upserts(q, "SubscriptionPlan", new) /\ Bounded(new) /\ "drivers" \notin DOMAIN new
    BY <1>1, <2>1 DEF SubscriptionPlanSeeder, Bounded
  <2> QED
    BY <2>2, NothingPromisedHolds
<1>2. CASE PlatformOwnerSeeder(q)
  <2>1. PICK new : new = [users |-> {"owner@logisticsplatform"},
                          admins |-> {"owner@logisticsplatform"}]
    OBVIOUS
  <2>2. "owner@logisticsplatform" \in SEEDED_USERS
    BY DEF SEEDED_USERS
  <2>3. Upserts(q, "PlatformOwner", new) /\ Bounded(new) /\ "drivers" \notin DOMAIN new
    BY <1>2, <2>1, <2>2 DEF PlatformOwnerSeeder, Bounded
  <2> QED
    BY <2>3, NothingPromisedHolds
<1>3. CASE GlobalLocationSeeder(q)
  <2>1. PICK new : new = [locations |-> SeededLocations]
    OBVIOUS
  <2>2. Upserts(q, "GlobalLocation", new) /\ Bounded(new) /\ "drivers" \notin DOMAIN new
    BY <1>3, <2>1 DEF GlobalLocationSeeder, Bounded
  <2> QED
    BY <2>2, NothingPromisedHolds
<1>4. CASE VehicleSeeder(q)
  <2>1. PICK new : Upserts(q, "Vehicle", new) /\ DOMAIN new = {"vehicles"}
    BY <1>4 DEF VehicleSeeder
  <2>2. Bounded(new) /\ "drivers" \notin DOMAIN new
    BY <2>1 DEF Bounded
  <2> QED
    BY <2>1, <2>2, NothingPromisedHolds
<1> QED
  BY <1>1, <1>2, <1>3, <1>4

LEMMA TenantStep ==
  ASSUME SeedingInv, NEW q \in Run, TenantSeeder(q) PROVE SeedingInv'
<1>1. PICK new : new = [tenants |-> SeededTenants,
                        owners |-> {t \in SEEDED_TENANTS : t[2] \in seeded.users}]
  OBVIOUS
<1>2. Upserts(q, "Tenant", new)
  BY <1>1 DEF TenantSeeder
<1>3. Bounded(new) /\ "drivers" \notin DOMAIN new
  BY <1>1 DEF Bounded
<1>4. ASSUME last = {q}
      PROVE  \A p \in Promised : p[1] = "Tenant" => p[2] \in DOMAIN new /\ p[3] \subseteq new[p[2]]
  <2>1. SEEDED_USERS \subseteq seeded.users
    BY <1>2, <1>4, LookedUpBefore, Found DEF Upserts, Turn
  <2>2. SEEDED_TENANTS \subseteq new.owners
    BY <1>1, <2>1, CompaniesAreSeeded
  <2> QED
    BY <1>1, <2>2, PromisesOf
<1> QED
  BY <1>2, <1>3, <1>4, SeederHolds

LEMMA RoleStep ==
  ASSUME SeedingInv, NEW q \in Run, RoleSeeder(q) PROVE SeedingInv'
<1>1. PICK new : new = [roles |-> SeededTenants \X SEEDED_ROLES,
                        grants |-> SeededTenants \X SEEDED_ROLES \X seeded.permissions]
  OBVIOUS
<1>2. Upserts(q, "Role", new)
  BY <1>1 DEF RoleSeeder
<1>3. Bounded(new) /\ "drivers" \notin DOMAIN new
  BY <1>1 DEF Bounded
<1>4. ASSUME last = {q}
      PROVE  \A p \in Promised : p[1] = "Role" => p[2] \in DOMAIN new /\ p[3] \subseteq new[p[2]]
  <2>1. {"all"} \subseteq seeded.permissions
    BY <1>2, <1>4, LookedUpBefore, Found DEF Upserts, Turn
  <2>2. RoleRows \subseteq new.roles /\ GrantRows \subseteq new.grants
    BY <1>1, <2>1 DEF RoleRows, GrantRows
  <2> QED
    BY <1>1, <2>2, PromisesOf
<1> QED
  BY <1>2, <1>3, <1>4, SeederHolds

LEMMA ZoneStep ==
  ASSUME SeedingInv, NEW q \in Run, ZoneSeeder(q) PROVE SeedingInv'
<1>1. PICK new : /\ Upserts(q, "Zone", new) /\ DOMAIN new = {"zones", "prices"}
                 /\ new.prices = SeededPrices
  BY DEF ZoneSeeder
<1>2. Bounded(new) /\ "drivers" \notin DOMAIN new
  BY <1>1 DEF Bounded
<1>3. \A p \in Promised : p[1] = "Zone" => p[2] \in DOMAIN new /\ p[3] \subseteq new[p[2]]
  BY <1>1, PromisesOf
<1> QED
  BY <1>1, <1>2, <1>3, SeederHolds

LEMMA OrganizationUnitStep ==
  ASSUME SeedingInv, NEW q \in Run, OrganizationUnitSeeder(q) PROVE SeedingInv'
<1>1. PICK new : /\ Upserts(q, "OrganizationUnit", new) /\ DOMAIN new = {"units", "coverage"}
                 /\ new.units = SeededUnits
  BY DEF OrganizationUnitSeeder
<1>2. Bounded(new) /\ "drivers" \notin DOMAIN new
  BY <1>1 DEF Bounded
<1>3. \A p \in Promised :
        p[1] = "OrganizationUnit" => p[2] \in DOMAIN new /\ p[3] \subseteq new[p[2]]
  BY <1>1, PromisesOf
<1> QED
  BY <1>1, <1>2, <1>3, SeederHolds

LEMMA EmployeeStep ==
  ASSUME SeedingInv, NEW q \in Run, EmployeeSeeder(q) PROVE SeedingInv'
<1> DEFINE found  == {e \in EMPLOYEES : e[2] \in seeded.users}
           posted == {e \in found : HasUnit(e[1], e[4])}
<1>1. PICK new :
        new = [employees |-> {<<e[1], e[2]>> : e \in found},
               posts |-> {<<e[1], e[2], e[4]>> : e \in posted},
               duties |-> UNION {{<<e[1], e[2], d[2]>> : d \in {x \in seeded.roles : x[1] = e[1]}}
                                   : e \in posted}]
  OBVIOUS
<1>2. Upserts(q, "Employee", new)
  BY <1>1 DEF EmployeeSeeder
<1>3. Bounded(new) /\ "drivers" \notin DOMAIN new
  BY <1>1 DEF Bounded
<1>4. ASSUME last = {q}
      PROVE  \A p \in Promised :
               p[1] = "Employee" => p[2] \in DOMAIN new /\ p[3] \subseteq new[p[2]]
  <2>1. /\ SEEDED_USERS \subseteq seeded.users /\ RoleRows \subseteq seeded.roles
        /\ SeededUnits \subseteq seeded.units
    BY <1>2, <1>4, LookedUpBefore, Found DEF Upserts, Turn
  <2>2. found = EMPLOYEES
    BY <2>1, EmployeesAreKnown
  <2>3. posted = EMPLOYEES
    BY <2>1, <2>2, EmployeesAreKnown DEF HasUnit
  <2>4. EmployeeNames \subseteq new.employees /\ PostRows \subseteq new.posts
    BY <1>1, <2>2, <2>3 DEF EmployeeNames, PostRows
  <2>5. ASSUME NEW e \in EMPLOYEES, NEW role \in SEEDED_ROLES
        PROVE  <<e[1], e[2], role>> \in new.duties
    <3>1. e[1] \in SeededTenants
      BY EmployeesAreKnown, CompaniesAreSeeded
    <3>2. <<e[1], role>> \in seeded.roles
      BY <2>1, <3>1 DEF RoleRows
    <3>3. <<e[1], role>> \in {x \in seeded.roles : x[1] = e[1]}
      BY <3>2
    <3>4. <<e[1], e[2], role>> \in
            {<<e[1], e[2], d[2]>> : d \in {x \in seeded.roles : x[1] = e[1]}}
      BY <3>3
    <3> HIDE DEF found
    <3> QED
      BY <1>1, <2>3, <3>4
  <2>6. DutyRows \subseteq new.duties
    BY <2>5 DEF DutyRows
  <2> QED
    BY <1>1, <2>4, <2>6, PromisesOf
<1> QED
  BY <1>2, <1>3, <1>4, SeederHolds

LEMMA CustomerStep ==
  ASSUME SeedingInv, NEW q \in Run, CustomerSeeder(q) PROVE SeedingInv'
<1> DEFINE found == {c \in CUSTOMERS : c[1] \in seeded.users}
<1>1. PICK new : new = [profiles |-> {c[1] : c \in found},
                        memberships |-> UNION {{c[1]} \X c[2] : c \in found}]
  OBVIOUS
<1>2. Upserts(q, "Customer", new)
  BY <1>1 DEF CustomerSeeder
<1>3. Bounded(new) /\ "drivers" \notin DOMAIN new
  BY <1>1 DEF Bounded
<1>4. ASSUME last = {q}
      PROVE  \A p \in Promised :
               p[1] = "Customer" => p[2] \in DOMAIN new /\ p[3] \subseteq new[p[2]]
  <2>1. SEEDED_USERS \subseteq seeded.users
    BY <1>2, <1>4, LookedUpBefore, Found DEF Upserts, Turn
  <2>2. found = CUSTOMERS
    BY <2>1, CustomersAreUsers DEF CustomerNames
  <2>3. CustomerNames \subseteq new.profiles /\ MembershipRows \subseteq new.memberships
    BY <1>1, <2>2 DEF CustomerNames, MembershipRows
  <2> QED
    BY <1>1, <2>3, PromisesOf
<1> QED
  BY <1>2, <1>3, <1>4, SeederHolds

\* Every firm has employees once the seeder of employees is done.
LEMMA CompaniesAreStaffed ==
  ASSUME EmployeeNames \subseteq seeded.employees, NEW firm \in Companies
  PROVE  Staffed(firm)
<1>1. PICK e \in EMPLOYEES : e[1] = firm
  BY EmployeesAreKnown
<1>2. <<e[1], e[2]>> \in seeded.employees
  BY DEF EmployeeNames
<1> QED
  BY <1>1, <1>2 DEF Staffed

LEMMA ShipmentRequestStep ==
  ASSUME SeedingInv, NEW q \in Run, ShipmentRequestSeeder(q) PROVE SeedingInv'
<1> DEFINE found == {s \in AllShipments :
                      /\ s[3] \in seeded.users /\ s[3] \in seeded.profiles
                      /\ HasUnit(s[2], s[6]) /\ HasUnit(s[2], s[7]) /\ Staffed(s[2])}
<1>1. PICK new : new = [requests |-> {s[1] : s \in found},
                        quotations |-> {<<s[1], s[2]>> : s \in found},
                        shipments |-> {s[8] : s \in found} \ {0}]
  OBVIOUS
<1>2. Upserts(q, "ShipmentRequest", new)
  BY <1>1 DEF ShipmentRequestSeeder
<1>3. Bounded(new) /\ "drivers" \notin DOMAIN new
  BY <1>1 DEF Bounded
<1>4. ASSUME last = {q}
      PROVE  \A p \in Promised :
               p[1] = "ShipmentRequest" => p[2] \in DOMAIN new /\ p[3] \subseteq new[p[2]]
  <2>1. /\ SEEDED_USERS \subseteq seeded.users /\ CustomerNames \subseteq seeded.profiles
        /\ SeededUnits \subseteq seeded.units /\ EmployeeNames \subseteq seeded.employees
    BY <1>2, <1>4, LookedUpBefore, Found DEF Upserts, Turn
  <2>2. ASSUME NEW s \in AllShipments PROVE s \in found
    <3>1. /\ s[2] \in Companies /\ s[3] \in CustomerNames
          /\ <<s[2], s[6]>> \in SeededUnits /\ <<s[2], s[7]>> \in SeededUnits
      BY ShipmentsAreKnown
    <3>2. Staffed(s[2])
      BY <2>1, <3>1, CompaniesAreStaffed
    <3> QED
      BY <2>1, <3>1, <3>2, CustomersAreUsers DEF HasUnit
  <2>3. found = AllShipments
    BY <2>2
  <2> HIDE DEF found
  <2>4. QuotationRows \subseteq new.quotations /\ ShipmentIds \subseteq new.shipments
    BY <1>1, <2>3 DEF QuotationRows, ShipmentIds
  <2> QED
    BY <1>1, <2>4, PromisesOf
<1> QED
  BY <1>2, <1>3, <1>4, SeederHolds

LEMMA MarketplaceQuotesStep ==
  ASSUME SeedingInv, NEW q \in Run, seedMarketplaceQuotes(q) PROVE SeedingInv'
<1> DEFINE found   == IF "john.doe" \in seeded.users \cap seeded.profiles THEN {856} ELSE {}
           quoting == {m \in MARKETPLACE_ROUTES :
                         HasUnit(m[1], m[2]) /\ HasUnit(m[1], m[3]) /\ Staffed(m[1])}
<1> HIDE DEF found, quoting
<1>1. PICK new : new = [requests |-> found, quotations |-> found \X {m[1] : m \in quoting}]
  OBVIOUS
<1>2. Upserts(q, "MarketplaceQuotes", new)
  BY <1>1 DEF seedMarketplaceQuotes, found, quoting
<1>3. Bounded(new) /\ "drivers" \notin DOMAIN new
  BY <1>1 DEF Bounded
<1>4. ASSUME last = {q}
      PROVE  \A p \in Promised :
               p[1] = "MarketplaceQuotes" => p[2] \in DOMAIN new /\ p[3] \subseteq new[p[2]]
  <2>1. /\ SEEDED_USERS \subseteq seeded.users /\ CustomerNames \subseteq seeded.profiles
        /\ SeededUnits \subseteq seeded.units /\ EmployeeNames \subseteq seeded.employees
    BY <1>2, <1>4, LookedUpBefore, Found DEF Upserts, Turn
  <2>2. \E c \in CUSTOMERS : c[1] = "john.doe"
    BY DEF CUSTOMERS
  <2>3. "john.doe" \in CustomerNames
    BY <2>2 DEF CustomerNames
  <2>4. found = {856}
    BY <2>1, <2>3, CustomersAreUsers DEF found
  <2>5. ASSUME NEW m \in MARKETPLACE_ROUTES PROVE m \in quoting
    BY <2>1, RoutesAreKnown, CompaniesAreStaffed DEF HasUnit, quoting
  <2>6. quoting = MARKETPLACE_ROUTES
    BY <2>5 DEF quoting
  <2>7. MarketRows \subseteq new.quotations
    BY <1>1, <2>4, <2>6 DEF MarketRows
  <2> QED
    BY <1>1, <2>7, PromisesOf
<1> QED
  BY <1>2, <1>3, <1>4, SeederHolds

LEMMA BillingStep ==
  ASSUME SeedingInv, NEW q \in Run, BillingSeeder(q) PROVE SeedingInv'
<1> DEFINE found == {i \in INVOICES : /\ i[2] \in seeded.shipments /\ Staffed(i[1])
                                      /\ \E u \in seeded.units : u[1] = i[1]}
<1>1. PICK new : new = [invoices |-> {i[2] : i \in found},
                        payments |-> {i[2] : i \in {f \in found : f[3] = "PAID"}}]
  OBVIOUS
<1>2. Upserts(q, "Billing", new)
  BY <1>1 DEF BillingSeeder
<1>3. Bounded(new) /\ "drivers" \notin DOMAIN new
  BY <1>1 DEF Bounded
<1>4. ASSUME last = {q}
      PROVE  \A p \in Promised : p[1] = "Billing" => p[2] \in DOMAIN new /\ p[3] \subseteq new[p[2]]
  <2>1. /\ ShipmentIds \subseteq seeded.shipments /\ SeededUnits \subseteq seeded.units
        /\ EmployeeNames \subseteq seeded.employees
    BY <1>2, <1>4, LookedUpBefore, Found DEF Upserts, Turn
  <2>2. ASSUME NEW i \in INVOICES PROVE i \in found
    <3>1. i[1] \in Companies /\ i[2] \in ShipmentIds
      BY InvoicesAreKnown
    <3>2. <<i[1], "HUB">> \in SeededUnits
      BY <3>1, UnitNames DEF Companies
    <3> QED
      BY <2>1, <3>1, <3>2, CompaniesAreStaffed
  <2>3. found = INVOICES
    BY <2>2
  <2> HIDE DEF found
  <2>4. InvoiceRows \subseteq new.invoices
    BY <1>1, <2>3 DEF InvoiceRows
  <2> QED
    BY <1>1, <2>4, PromisesOf
<1> QED
  BY <1>2, <1>3, <1>4, SeederHolds

LEMMA ParcelStep ==
  ASSUME SeedingInv, NEW q \in Run, ParcelSeeder(q) PROVE SeedingInv'
<1> DEFINE found == {x \in AllParcels : x[2] \in seeded.shipments}
<1>1. PICK new : new = [parcels |-> {p[1] : p \in found}]
  OBVIOUS
<1>2. Upserts(q, "Parcel", new)
  BY <1>1 DEF ParcelSeeder
<1>3. Bounded(new) /\ "drivers" \notin DOMAIN new
  BY <1>1 DEF Bounded, ParcelIds
<1>4. ASSUME last = {q}
      PROVE  \A p \in Promised : p[1] = "Parcel" => p[2] \in DOMAIN new /\ p[3] \subseteq new[p[2]]
  <2>1. ShipmentIds \subseteq seeded.shipments
    BY <1>2, <1>4, LookedUpBefore, Found DEF Upserts, Turn
  <2>2. found = AllParcels
    BY <2>1, ParcelsAreShipped
  <2>3. ParcelIds \subseteq new.parcels
    BY <1>1, <2>2 DEF ParcelIds
  <2> QED
    BY <1>1, <2>3, PromisesOf
<1> QED
  BY <1>2, <1>3, <1>4, SeederHolds

LEMMA ManifestStep ==
  ASSUME SeedingInv, NEW q \in Run, upsertManifest(q) PROVE SeedingInv'
<1> DEFINE found == {m \in manifests : HasUnit(m[2], m[3]) /\ HasUnit(m[2], m[4])}
<1>1. PICK new : new = [manifests |-> {m[1] : m \in found},
                        items |-> UNION {{m[1]} \X (m[6] \cap seeded.parcels) : m \in found}]
  OBVIOUS
<1>2. Upserts(q, "Manifest", new)
  BY <1>1 DEF upsertManifest
<1>3. Bounded(new) /\ "drivers" \notin DOMAIN new
  BY <1>1 DEF Bounded
<1>4. ASSUME last = {q}
      PROVE  \A p \in Promised :
               p[1] = "Manifest" => p[2] \in DOMAIN new /\ p[3] \subseteq new[p[2]]
  <2>1. SeededUnits \subseteq seeded.units /\ ParcelIds \subseteq seeded.parcels
    BY <1>2, <1>4, LookedUpBefore, Found DEF Upserts, Turn
  <2>2. found = manifests
    BY <2>1, ManifestsAreKnown DEF HasUnit
  <2> HIDE DEF found
  <2>3. \A m \in manifests : {m[1]} \X m[6] = {m[1]} \X (m[6] \cap seeded.parcels)
    BY <2>1, ManifestsAreKnown
  <2>4. ItemRows \subseteq new.items
    BY <1>1, <2>2, <2>3 DEF ItemRows
  <2> QED
    BY <1>1, <2>4, PromisesOf
<1> QED
  BY <1>2, <1>3, <1>4, SeederHolds

LEMMA ProofAndMovementStep ==
  ASSUME SeedingInv, NEW q \in Run, seedProofAndMovement(q) PROVE SeedingInv'
<1> DEFINE driver == Coded(masarat, "EMP-102")
           loaded == IF driver # {} /\ HasUnit(masarat, "HUB") THEN {1101} \cap seeded.parcels
                     ELSE {}
           handed == IF driver # {} THEN {1107} \cap seeded.parcels ELSE {}
<1> HIDE DEF driver, loaded, handed
<1>1. PICK new : new = [movements |-> loaded, proofs |-> handed]
  OBVIOUS
<1>2. Upserts(q, "ProofAndMovement", new)
  BY <1>1 DEF seedProofAndMovement, driver, loaded, handed
<1>3. Bounded(new) /\ "drivers" \notin DOMAIN new
  BY <1>1 DEF Bounded
<1>4. ASSUME last = {q}
      PROVE  \A p \in Promised :
               p[1] = "ProofAndMovement" => p[2] \in DOMAIN new /\ p[3] \subseteq new[p[2]]
  <2>1. /\ SeededUnits \subseteq seeded.units /\ ParcelIds \subseteq seeded.parcels
        /\ EmployeeNames \subseteq seeded.employees
    BY <1>2, <1>4, LookedUpBefore, Found DEF Upserts, Turn
  <2>2. driver # {}
    <3>1. PICK e \in EMPLOYEES : e[1] = masarat /\ e[3] = "EMP-102"
      BY DEF EMPLOYEES
    <3>2. <<masarat, e[2]>> \in seeded.employees
      BY <2>1, <3>1 DEF EmployeeNames
    <3> QED
      BY <3>1, <3>2 DEF driver, Coded
  <2>3. <<masarat, "HUB">> \in SeededUnits
    BY UnitNames
  <2>4. {1101, 1107} \subseteq seeded.parcels
    BY <2>1, ParcelIdsAreListed
  <2>5. loaded = {1101} /\ handed = {1107}
    BY <2>1, <2>2, <2>3, <2>4 DEF loaded, handed, HasUnit
  <2> QED
    BY <1>1, <2>5, PromisesOf
<1> QED
  BY <1>2, <1>3, <1>4, SeederHolds

LEMMA SupportNotificationStep ==
  ASSUME SeedingInv, NEW q \in Run, SupportNotificationSeeder(q) PROVE SeedingInv'
<1> DEFINE ticket == IF {"john.doe", "admin@fastship"} \subseteq seeded.users THEN {1301} ELSE {}
<1> HIDE DEF ticket
<1>1. PICK new : new = [tickets |-> ticket]
  OBVIOUS
<1>2. Upserts(q, "SupportNotification", new)
  BY <1>1 DEF SupportNotificationSeeder, ticket
<1>3. Bounded(new) /\ "drivers" \notin DOMAIN new
  BY <1>1 DEF Bounded
<1>4. ASSUME last = {q}
      PROVE  \A p \in Promised :
               p[1] = "SupportNotification" => p[2] \in DOMAIN new /\ p[3] \subseteq new[p[2]]
  <2>1. SEEDED_USERS \subseteq seeded.users
    BY <1>2, <1>4, LookedUpBefore, Found DEF Upserts, Turn
  <2>2. ticket = {1301}
    BY <2>1 DEF ticket, SEEDED_USERS
  <2> QED
    BY <1>1, <2>2, PromisesOf
<1> QED
  BY <1>2, <1>3, <1>4, SeederHolds

\* The drivers' vehicles, if nobody else writes: none of them has a driver yet.
LEMMA VehicleAssignmentStep ==
  ASSUME SeedingInv, NEW q \in Run, seedVehicleAssignments(q) PROVE SeedingInv'
<1> DEFINE assigned == {v \in VEHICLES :
             /\ v[3] \in seeded.users /\ <<v[1], v[3]>> \in seeded.employees
             /\ ActiveDriver(v[2]) = {} /\ Drives(v[3]) = {}}
<1>1. PICK new : new = [drivers |-> {<<v[2], v[3]>> : v \in assigned}]
  OBVIOUS
<1>2. Upserts(q, "VehicleAssignment", new)
  BY <1>1 DEF seedVehicleAssignments
<1>3. Bounded(new)
  BY <1>1 DEF Bounded
<1>4. PromisesInv' /\ TripsInv'
  BY <1>2, NothingIsPromisedOf, PromisesHold, TripsStay
<1>5. DriversInv'
  <2> SUFFICES ASSUME NEW r \in Run, last' = {r}, alone'
               PROVE  /\ DriversListed \subseteq seeded'.drivers
                      /\ at'[r] \in DOMAIN Order => Past(r, "VehicleAssignment")'
    BY DEF DriversInv
  <2>1. last = {r} /\ alone /\ r = q /\ last' = last
    BY <1>2, UpsertGrows
  <2>2. at[q] \in DOMAIN Order /\ Order[at[q]] = "VehicleAssignment" /\ at'[q] = at[q] + 1
    BY <1>2 DEF Upserts, Turn, SeedingInv, SeedingTypeOK
  <2>3. SEEDED_USERS \subseteq seeded.users /\ EmployeeNames \subseteq seeded.employees
    BY <2>1, <2>2, LookedUpBefore, Found
  <2>4. seeded.drivers = {}
    BY <2>1, <2>2, LookedUpBefore DEF SeedingInv, DriversInv
  <2>5. \A v \in VEHICLES : ActiveDriver(v[2]) = {} /\ Drives(v[3]) = {}
    BY <2>4 DEF ActiveDriver, Drives
  <2>6. \A v \in VEHICLES : v[3] # "none" => v \in assigned
    BY <2>3, <2>5, DriversAreEmployees
  <2>7. DriversListed \subseteq new.drivers
    BY <1>1, <2>6 DEF DriversListed
  <2>8. new.drivers \subseteq seeded'.drivers
    BY <1>1, <1>2 DEF Upserts, Table
  <2>9. at[q] < at'[r]
    BY <2>1, <2>2, OrderIsFinite
  <2> QED
    BY <2>1, <2>2, <2>7, <2>8, <2>9 DEF Past
<1> QED
  BY <1>2, <1>3, <1>4, <1>5, BoundsHold DEF SeedingInv

\* The trips: their drivers and units are there.
LEMMA TripStep ==
  ASSUME SeedingInv, NEW q \in Run, upsertTrip(q) PROVE SeedingInv'
<1> DEFINE found == {t \in trips : /\ Coded(t[2], t[3]) # {}
                                   /\ HasUnit(t[2], t[4]) /\ HasUnit(t[2], t[5])}
           vehicle(t) == UNION {TripVehicle(d) : d \in Coded(t[2], t[3])}
<1>1. PICK new : new = [trips |-> {<<t[1], vehicle(t)>> : t \in found}]
  OBVIOUS
<1>2. Upserts(q, "Trip", new)
  BY <1>1 DEF upsertTrip
<1>3. Bounded(new) /\ "drivers" \notin DOMAIN new
  BY <1>1 DEF Bounded
<1>4. PromisesInv'
  BY <1>2, NothingIsPromisedOf, PromisesHold
<1>5. DriversInv'
  BY <1>2, <1>3, DriversStay
<1>6. TripsInv'
  <2>1. seeded'.trips = seeded.trips \cup new.trips
    BY <1>1, <1>2 DEF Upserts, Table
  <2>2. ASSUME NEW r \in Run, Past(r, "Trip")', NEW t \in trips
        PROVE  \E x \in seeded'.trips : x[1] = t[1]
    <3>1. last' = last
      BY <1>2, UpsertGrows
    <3>2. Past(r, "Trip") \/ r = q
      BY <1>2, <2>2, <3>1, TurnPasses DEF Upserts, SeedingInv, SeedingTypeOK
    <3>3. CASE Past(r, "Trip")
      BY <2>1, <3>3 DEF SeedingInv, TripsInv
    <3>4. CASE r = q
      <4>1. last = {q}
        BY <2>2, <3>1, <3>4 DEF Past
      <4>2. SeededUnits \subseteq seeded.units /\ EmployeeNames \subseteq seeded.employees
        BY <1>2, <4>1, LookedUpBefore, Found DEF Upserts, Turn
      <4>3. PICK e \in EMPLOYEES : e[1] = t[2] /\ e[3] = t[3]
        BY TripsAreKnown
      <4>4. <<e[1], e[2]>> \in seeded.employees
        BY <4>2 DEF EmployeeNames
      <4>5. Coded(t[2], t[3]) # {}
        BY <4>3, <4>4 DEF Coded
      <4>6. t \in found
        BY <4>2, <4>5, TripsAreKnown DEF HasUnit
      <4> HIDE DEF found, vehicle
      <4>7. <<t[1], vehicle(t)>> \in new.trips
        BY <1>1, <4>6
      <4> QED
        BY <2>1, <4>7
    <3> QED
      BY <3>2, <3>3, <3>4
  <2> QED
    BY <2>2 DEF TripsInv
<1> QED
  BY <1>2, <1>3, <1>4, <1>5, <1>6, BoundsHold DEF SeedingInv

\* The last seeder: it may take a vehicle, after those that are in the list.
LEMMA SuperUserStep ==
  ASSUME SeedingInv, NEW q \in Run, SuperUserSeeder(q) PROVE SeedingInv'
<1> DEFINE branches == {u \in seeded.units : u[1] = masarat}
           roles == {d[2] : d \in {x \in seeded.roles : branches # {} /\ x[1] = masarat}}
           profiles(taken) ==
             [users |-> {"super"}, admins |-> {"super"}, owners |-> {<<masarat, "super">>},
              employees |-> {<<masarat, "super">>}, profiles |-> {"super"},
              posts |-> IF branches = {} THEN {} ELSE {<<masarat, "super", "BRANCH">>},
              duties |-> {<<masarat, "super", role>> : role \in roles},
              vehicles |-> {<<masarat, v>> : v \in taken},
              drivers |-> {<<v, "super">> : v \in taken}]
<1>1. PICK new : Upserts(q, "SuperUser", new) /\ Bounded(new)
  <2>1. \/ Upserts(q, "SuperUser", [users |-> {"super"}, admins |-> {"super"}])
        \/ \E taken : Upserts(q, "SuperUser", profiles(taken))
    BY DEF SuperUserSeeder
  <2>2. CASE Upserts(q, "SuperUser", [users |-> {"super"}, admins |-> {"super"}])
    <3>1. PICK new : new = [users |-> {"super"}, admins |-> {"super"}]
      OBVIOUS
    <3>2. Bounded(new)
      BY <3>1 DEF Bounded
    <3> QED
      BY <2>2, <3>1, <3>2
  <2>3. CASE \E taken : Upserts(q, "SuperUser", profiles(taken))
    <3>1. PICK taken : Upserts(q, "SuperUser", profiles(taken))
      BY <2>3
    <3>2. /\ profiles(taken).users = {"super"}
          /\ DOMAIN profiles(taken) = {"users", "admins", "owners", "employees", "profiles",
                                       "posts", "duties", "vehicles", "drivers"}
      OBVIOUS
    <3> HIDE DEF profiles
    <3>3. PICK new : new = profiles(taken)
      OBVIOUS
    <3>4. Bounded(new)
      BY <3>2, <3>3 DEF Bounded
    <3> QED
      BY <3>1, <3>3, <3>4
  <2> QED
    BY <2>1, <2>2, <2>3
<1>2. last = {q} => Past(q, "VehicleAssignment")
  BY <1>1, LookedUpBefore DEF Upserts, Turn
<1>3. PromisesInv' /\ TripsInv' /\ DriversInv'
  BY <1>1, <1>2, NothingIsPromisedOf, PromisesHold, TripsStay, DriversStay
<1> QED
  BY <1>1, <1>3, BoundsHold DEF SeedingInv

-----------------------------------------------------------------------------
(* Seeding: every step *)

LEMMA SeedCleanupStep ==
  ASSUME SeedingInv, NEW q \in Run, SeedCleanupSeeder(q) PROVE SeedingInv'
<1>1. at[q] \in 1 .. 23 /\ Order[at[q]] = "SeedCleanup" /\ at' = [at EXCEPT ![q] = at[q] + 1]
  BY OrderIsFinite DEF SeedCleanupSeeder, Turn
<1>2. at[q] = 1
  <2>1. \A n \in 1 .. 23 : Order[n] = "SeedCleanup" => n = 1
    BY DEF Order
  <2> QED
    BY <1>1, <2>1
<1>3. at \in [Run -> 0 .. 24] /\ at' \in [Run -> 0 .. 24] /\ at'[q] = 2
  BY <1>1, <1>2, OrderIsFinite DEF SeedingInv, SeedingTypeOK
<1>4. last' = {q} /\ alone' = TRUE /\ \A t \in Table : seeded'[t] = {}
  BY DEF SeedCleanupSeeder, EmptyTables
<1>5. DOMAIN seeded' = Table
  BY DEF SeedCleanupSeeder, EmptyTables
<1>6. ASSUME NEW r \in Run, NEW x, Past(r, x)' PROVE x = "SeedCleanup"
  <2>1. PICK k \in DOMAIN Order : Order[k] = x /\ k < at'[r] /\ last' = {r}
    BY <1>6 DEF Past
  <2>2. k = 1
    BY <1>3, <1>4, <2>1, OrderIsFinite
  <2> QED
    BY <1>1, <1>2, <2>1, <2>2
<1>7. PromisesInv'
  BY <1>6, NothingIsPromisedOf DEF PromisesInv
<1>8. TripsInv'
  BY <1>6 DEF TripsInv
<1>9. {"users", "units", "parcels", "permissions", "grants", "drivers"} \subseteq Table
  BY DEF Table
<1>10. DriversInv'
  BY <1>4, <1>6, <1>9 DEF DriversInv
<1>11. SeedingTypeOK' /\ GrantsInv'
  BY <1>3, <1>4, <1>5, <1>9, OrderIsFinite DEF SeedingTypeOK, GrantsInv
<1> QED
  BY <1>7, <1>8, <1>10, <1>11 DEF SeedingInv

LEMMA FailsStep ==
  ASSUME SeedingInv, NEW q \in Run, Fails(q) PROVE SeedingInv'
<1>1. UNCHANGED <<seeded, last, alone>> /\ at' = [at EXCEPT ![q] = 0]
  BY DEF Fails
<1>2. at \in [Run -> 0 .. 24] /\ at' \in [Run -> 0 .. 24]
  BY <1>1, OrderIsFinite DEF SeedingInv, SeedingTypeOK
<1>3. ASSUME NEW r \in Run, NEW x
      PROVE  /\ Past(r, x)' => Past(r, x)
             /\ Past(r, x) /\ r # q => Past(r, x)'
             /\ r = q => at'[r] \notin DOMAIN Order /\ ~Past(r, x)'
  BY <1>1, <1>2, OrderIsFinite DEF Past
<1>4. PromisesInv' /\ TripsInv'
  BY <1>1, <1>3 DEF SeedingInv, PromisesInv, TripsInv, Promised
<1>5. DriversInv'
  <2>1. \A r \in Run : r # q => at'[r] = at[r]
    BY <1>1, <1>2
  <2> QED
    BY <1>1, <1>3, <2>1 DEF SeedingInv, DriversInv
<1>6. SeedingTypeOK' /\ GrantsInv'
  BY <1>1, <1>2, OrderIsFinite DEF SeedingInv, SeedingTypeOK, GrantsInv
<1> QED
  BY <1>4, <1>5, <1>6 DEF SeedingInv

LEMMA SeedingInitHolds ==
  ASSUME SeedingInit PROVE SeedingInv
<1>1. DOMAIN seeded = Table /\ \A t \in Table : seeded[t] = {}
  BY DEF SeedingInit, EmptyTables
<1>2. {"users", "units", "parcels", "permissions", "grants"} \subseteq Table
  BY DEF Table
<1>3. SeedingTypeOK /\ GrantsInv
  BY <1>1, <1>2, OrderIsFinite DEF SeedingInit, SeedingTypeOK, GrantsInv
<1>4. \A r \in Run : last # {r}
  BY DEF SeedingInit
<1>5. PromisesInv /\ TripsInv /\ DriversInv
  BY <1>4 DEF PromisesInv, TripsInv, DriversInv, Past
<1> QED
  BY <1>3, <1>5 DEF SeedingInv

LEMMA SeedingStepHolds ==
  ASSUME SeedingInv, [SeedingNext]_seedingVars PROVE SeedingInv'
<1>1. CASE UNCHANGED seedingVars
  BY <1>1 DEF seedingVars, SeedingInv, SeedingTypeOK, PromisesInv, TripsInv, DriversInv, GrantsInv,
              Past
<1>2. ASSUME NEW q \in Run,
             \/ SeedCleanupSeeder(q) \/ PermissionSeeder(q) \/ UserSeeder(q) \/ TenantSeeder(q)
             \/ RoleSeeder(q) \/ ZoneSeeder(q) \/ OrganizationUnitSeeder(q) \/ EmployeeSeeder(q)
             \/ CustomerSeeder(q) \/ ShipmentRequestSeeder(q)
      PROVE  SeedingInv'
  BY <1>2, SeedCleanupStep, PermissionStep, UserStep, TenantStep, RoleStep, ZoneStep,
     OrganizationUnitStep, EmployeeStep, CustomerStep, ShipmentRequestStep
<1>3. ASSUME NEW q \in Run,
             \/ SubscriptionPlanSeeder(q) \/ PlatformOwnerSeeder(q) \/ GlobalLocationSeeder(q)
             \/ VehicleSeeder(q)
      PROVE  SeedingInv'
  BY <1>3, OtherSteps
<1>4. ASSUME NEW q \in Run,
             \/ seedMarketplaceQuotes(q) \/ BillingSeeder(q) \/ seedVehicleAssignments(q)
             \/ ParcelSeeder(q) \/ upsertTrip(q) \/ upsertManifest(q) \/ seedProofAndMovement(q)
             \/ SupportNotificationSeeder(q) \/ SuperUserSeeder(q) \/ Fails(q)
      PROVE  SeedingInv'
  BY <1>4, MarketplaceQuotesStep, BillingStep, VehicleAssignmentStep, ParcelStep, TripStep,
     ManifestStep, ProofAndMovementStep, SupportNotificationStep, SuperUserStep, FailsStep
<1> QED
  BY <1>1, <1>2, <1>3, <1>4 DEF SeedingNext

LEMMA SeedingInvHolds == SeedingSpec => []SeedingInv
BY SeedingInitHolds, SeedingStepHolds, PTL DEF SeedingSpec

\* What a finished run has, by what each of its seeders promised.
LEMMA FinishedRunsHaveSeeded ==
  ASSUME SeedingInv PROVE SeedsWhatItLists
<1> SUFFICES ASSUME NEW r \in Run, SeededBy(r)
             PROVE  /\ SEEDED_TENANTS \subseteq seeded.owners
                    /\ seeded.grants = SeededTenants \X SEEDED_ROLES \X seeded.permissions
                    /\ seeded.grants # {}
                    /\ \A firm \in SeededTenants : \A a, b \in zonesByTenant(firm) :
                         a # b => <<firm, <<a, b>>>> \in seeded.prices
                    /\ \A e \in EMPLOYEES :
                         /\ <<e[1], e[2], e[4]>> \in seeded.posts
                         /\ \A role \in SEEDED_ROLES : <<e[1], e[2], role>> \in seeded.duties
                    /\ \A c \in CUSTOMERS : {c[1]} \X c[2] \subseteq seeded.memberships
                    /\ \A s \in AllShipments : /\ <<s[1], s[2]>> \in seeded.quotations
                                               /\ s[8] \in seeded.shipments \cup {0}
                    /\ \A m \in MARKETPLACE_ROUTES : <<856, m[1]>> \in seeded.quotations
                    /\ \A i \in INVOICES : i[2] \in seeded.invoices
                    /\ \A p \in AllParcels : p[1] \in seeded.parcels
                    /\ \A t \in trips : \E x \in seeded.trips : x[1] = t[1]
                    /\ \A m \in manifests : {m[1]} \X m[6] \subseteq seeded.items
                    /\ seeded.movements # {} /\ seeded.proofs # {} /\ seeded.tickets # {}
                    /\ alone => \A v \in VEHICLES :
                         v[3] = "none" \/ <<v[2], v[3]>> \in seeded.drivers
  BY DEF SeedsWhatItLists
<1>1. \A k \in DOMAIN Order : Past(r, Order[k])
  BY PastIsPast, OrderIsFinite DEF SeededBy, SeedingInv, SeedingTypeOK
<1>2. \A p \in Promised : \E k \in 1 .. 23 : Order[k] = p[1]
  BY DEF Promised, Order
<1>3. \A p \in Promised : p[3] \subseteq seeded[p[2]]
  BY <1>1, <1>2, OrderIsFinite DEF SeedingInv, PromisesInv
<1>4. ASSUME NEW x, NEW t, NEW S, <<x, t, S>> \in Promised
      PROVE  S \subseteq seeded[t]
  BY <1>3, <1>4
<1>5. /\ {"all"} \subseteq seeded.permissions
      /\ SEEDED_TENANTS \subseteq seeded.owners
      /\ GrantRows \subseteq seeded.grants
      /\ SeededPrices \subseteq seeded.prices
      /\ PostRows \subseteq seeded.posts
      /\ DutyRows \subseteq seeded.duties
      /\ MembershipRows \subseteq seeded.memberships
      /\ QuotationRows \subseteq seeded.quotations
  <2>1. {<<"Permission", "permissions", {"all"}>>, <<"Tenant", "owners", SEEDED_TENANTS>>,
         <<"Role", "grants", GrantRows>>, <<"Zone", "prices", SeededPrices>>,
         <<"Employee", "posts", PostRows>>, <<"Employee", "duties", DutyRows>>,
         <<"Customer", "memberships", MembershipRows>>,
         <<"ShipmentRequest", "quotations", QuotationRows>>} \subseteq Promised
    BY DEF Promised
  <2> QED
    BY <1>4, <2>1
<1>6. /\ ShipmentIds \subseteq seeded.shipments
      /\ MarketRows \subseteq seeded.quotations
      /\ InvoiceRows \subseteq seeded.invoices
      /\ ParcelIds \subseteq seeded.parcels
      /\ ItemRows \subseteq seeded.items
      /\ {1101} \subseteq seeded.movements
      /\ {1107} \subseteq seeded.proofs
      /\ {1301} \subseteq seeded.tickets
  <2>1. {<<"ShipmentRequest", "shipments", ShipmentIds>>,
         <<"MarketplaceQuotes", "quotations", MarketRows>>, <<"Billing", "invoices", InvoiceRows>>,
         <<"Parcel", "parcels", ParcelIds>>, <<"Manifest", "items", ItemRows>>,
         <<"ProofAndMovement", "movements", {1101}>>, <<"ProofAndMovement", "proofs", {1107}>>,
         <<"SupportNotification", "tickets", {1301}>>} \subseteq Promised
    BY DEF Promised
  <2> QED
    BY <1>4, <2>1
<1>7. seeded.grants = SeededTenants \X SEEDED_ROLES \X seeded.permissions /\ seeded.grants # {}
  <2>1. seeded.permissions = {"all"}
    BY <1>5 DEF SeedingInv, GrantsInv
  <2>2. seeded.grants = GrantRows
    BY <1>5, <2>1 DEF SeedingInv, GrantsInv, GrantRows
  <2>3. masarat \in SeededTenants /\ "Driver" \in SEEDED_ROLES
    BY CompaniesAreSeeded DEF Companies, SEEDED_ROLES
  <2>4. <<masarat, "Driver", "all">> \in GrantRows
    BY <2>3 DEF GrantRows
  <2> QED
    BY <2>1, <2>2, <2>4 DEF GrantRows
<1>8. \A firm \in SeededTenants : \A a, b \in zonesByTenant(firm) :
        a # b => <<firm, <<a, b>>>> \in seeded.prices
  BY <1>5, ZonesHavePrices, CompaniesAreSeeded
<1>9. \A e \in EMPLOYEES :
        /\ <<e[1], e[2], e[4]>> \in seeded.posts
        /\ \A role \in SEEDED_ROLES : <<e[1], e[2], role>> \in seeded.duties
  BY <1>5 DEF PostRows, DutyRows
<1>10. \A c \in CUSTOMERS : {c[1]} \X c[2] \subseteq seeded.memberships
  BY <1>5 DEF MembershipRows
<1>11. \A s \in AllShipments : /\ <<s[1], s[2]>> \in seeded.quotations
                               /\ s[8] \in seeded.shipments \cup {0}
  BY <1>5, <1>6 DEF QuotationRows, ShipmentIds
<1>12. /\ \A m \in MARKETPLACE_ROUTES : <<856, m[1]>> \in seeded.quotations
       /\ \A i \in INVOICES : i[2] \in seeded.invoices
       /\ \A p \in AllParcels : p[1] \in seeded.parcels
  BY <1>6 DEF MarketRows, InvoiceRows, ParcelIds
<1>13. \A m \in manifests : {m[1]} \X m[6] \subseteq seeded.items
  BY <1>6 DEF ItemRows
<1>14. \A t \in trips : \E x \in seeded.trips : x[1] = t[1]
  <2>1. Past(r, "Trip")
    BY <1>1, OrderIsFinite DEF Order
  <2> QED
    BY <2>1 DEF SeedingInv, TripsInv
<1>15. alone => \A v \in VEHICLES : v[3] = "none" \/ <<v[2], v[3]>> \in seeded.drivers
  <2>1. Past(r, "VehicleAssignment") /\ last = {r}
    BY <1>1, OrderIsFinite DEF Order, SeededBy
  <2>2. alone => DriversListed \subseteq seeded.drivers
    BY <2>1 DEF SeedingInv, DriversInv
  <2> QED
    BY <2>2 DEF DriversListed
<1> QED
  BY <1>5, <1>6, <1>7, <1>8, <1>9, <1>10, <1>11, <1>12, <1>13, <1>14, <1>15

\* The tables that others look up hold nothing the lists do not have, and a run
\* is at a seeder, done, or has failed.
THEOREM SeedingTypeCorrect == SeedingSpec => []SeedingTypeOK
<1>1. SeedingInv => SeedingTypeOK
  BY DEF SeedingInv
<1> QED
  BY <1>1, SeedingInvHolds, PTL

\* However many runs of the seeders are started, overlap and die, the one that
\* truncated the tables last has every row that the lists ask for once it is
\* done, and the drivers' vehicles too if no other has written since.
THEOREM FinishedRunsAreComplete == SeedingSpec => []SeedsWhatItLists
BY SeedingInvHolds, FinishedRunsHaveSeeded, PTL
=============================================================================
