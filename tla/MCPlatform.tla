------------------------------ MODULE MCPlatform ------------------------------
(***************************************************************************)
(* An instance of Tenancy, Listings and Seeding for TLC.  They share no    *)
(* row: a behaviour of all is checked as a behaviour of each, and `part`   *)
(* says which.  Tenancy is two parts: managers whose commands overlap, and *)
(* clerks who open units while one manager works, and at most one unit     *)
(* becomes one of each type.                                               *)
(***************************************************************************)
EXTENDS Tenancy, Listings, Seeding, TLC

CONSTANTS m1, m2, c1, c2, a, b, u1, r1, r2

VARIABLE part

partVars == <<part, tenancyVars, listingVars, seedingVars>>

\* One plan allows a branch and nothing else, the other any warehouse.
Small == [t \in OrgType |-> IF t = "BRANCH" THEN 1 ELSE 0]
Large == [t \in OrgType |-> IF t = "BRANCH" THEN 0 ELSE -1]
TwoPlans == {Small, Large}

\* Lists that are written once: the offset lists, of which nothing is said once
\* a write came after a page, and those that read and keep pages as another does.
Once == ByOffset \cup Unordered \cup
        {"requests", "parcels", "quotations", "prices", "zones", "units", "locations", "users"}

AllLists == ByCursor \cup ByOffset \cup Unordered

\* A list is asked for with its narrowest criteria: a value, the unit, and for
\* invoices also a date after the first row.  Where keys do not tell criteria
\* apart, it is also asked for with such criteria: without units, and by text.
Narrow(c) == \/ c.value = a /\ (c.units = {u1} \/ CriteriaOf(list) = Plain)
             \/ list = "invoices" /\ c.since = 2
             \/ list = "parcels" /\ c.value = a /\ ~c.scoped
             \/ list \in {"zones", "plans"} /\ c.value = AnyValue

\* Two rows tie and one does not, before them or after; what a cursor list would
\* be ordered by is left alone.
FullTable == {[r \in Row |-> [there |-> TRUE, value |-> a, place |-> place[r], ends |-> {u1}]] :
                place \in {<<1, 1, 1>>, <<1, 1, 2>>, <<1, 2, 2>>}}

Places == {rows[r].place : r \in Row}

OnePlace == list \in ByCursor => Places = {1}

\* One page of another client's is kept at a time, and a reader who got it is not
\* followed further.
Misplaced == {k \in Key : \E p \in pages[k] : ~p.own}

\* The parts that stay as they are start in one state.
MCInit ==
  /\ part \in {"managers", "clerks", "lists", "seeds"}
  /\ rows \in FullTable
  /\ list \in IF part = "lists" THEN Lists ELSE {"prices"}
  /\ asked \in {c \in CriteriaOf(list) : Narrow(c)}
  /\ list \in ByCursor <=> Places = {1}
  /\ TenancyInit /\ ListingsInit /\ SeedingInit

MCNext ==
  /\ UNCHANGED part
  /\ \/ part = "managers" /\ UNCHANGED <<unitVars, listingVars, seedingVars>> /\ TenancyNext
     \/ /\ part = "clerks" /\ UNCHANGED <<listingVars, seedingVars>>
        /\ TenancyNext /\ ~overlapped' /\ company' # "SUSPENDED"
        /\ \A t \in OrgType : retyped'[t] <= 1
     \/ /\ part = "lists" /\ UNCHANGED <<tenancyVars, seedingVars>> /\ ListingsNext
        /\ list \in Once => changes' <= 1
        /\ list \in {"plans", "employees2"} => changes' = 0
        /\ reader.own /\ Cardinality(Misplaced') <= 1
        /\ OnePlace'
        /\ CriteriaOf(list) = Plain => \A r \in Row : rows[r].ends = rows'[r].ends
     \/ part = "seeds" /\ UNCHANGED <<tenancyVars, listingVars>> /\ SeedingNext

MCSpec == MCInit /\ [][MCNext]_partVars

\* Managers and clerks have no names.
Symmetry == Permutations({m1, m2}) \cup Permutations({c1, c2})
=============================================================================
