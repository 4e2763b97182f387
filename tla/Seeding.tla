-------------------------------- MODULE Seeding --------------------------------
(***************************************************************************)
(* Filling the database for a demonstration: a run truncates every table   *)
(* and then goes through its seeders in order.  A seeder looks up what an  *)
(* earlier one inserted; a row whose lookups find nothing is left out      *)
(* without an error, a row whose foreign key has no target ends the run.   *)
(* Nothing is one transaction: a run that dies leaves what it had, and     *)
(* runs of two people may overlap.                                         *)
(*                                                                         *)
(* The rows of one seeder depend on those of earlier ones, so its loop is  *)
(* one step, but for the two loops of SuperUser and Vehicle that take a    *)
(* vehicle nobody drives.                                                  *)
(***************************************************************************)
EXTENDS SeedLists, Sequences, FiniteSets

CONSTANT Run  \* runs of the seeding command, each started once

VARIABLES
  seeded,   \* the tables
  at,       \* per run: the next seeder, 0 once it has failed
  last,     \* the run that truncated the tables last
  alone     \* whether no other run has written since

seedingVars == <<seeded, at, last, alone>>

-----------------------------------------------------------------------------

VehiclesFirst == <<
  "SeedCleanup", "Permission", "SubscriptionPlan", "User", "PlatformOwner", "GlobalLocation",
  "Tenant", "Role", "Zone", "Vehicle", "VehicleAssignment", "OrganizationUnit", "Employee",
  "Customer", "ShipmentRequest", "MarketplaceQuotes", "Billing", "Parcel", "Trip", "Manifest",
  "ProofAndMovement", "SupportNotification", "SuperUser">>

\* SeedRunner.run
Order == <<
  "SeedCleanup", "Permission", "SubscriptionPlan", "User", "PlatformOwner", "GlobalLocation",
  "Tenant", "Role", "Zone", "OrganizationUnit", "Employee", "Customer", "ShipmentRequest",
  "MarketplaceQuotes", "Billing", "Vehicle", "VehicleAssignment", "Parcel", "Trip", "Manifest",
  "ProofAndMovement", "SupportNotification", "SuperUser">>

Finished(r) == at[r] > Len(Order)

Table == {
  "permissions", "plans", "users", "admins", "locations", "tenants", "owners", "roles", "grants",
  "zones", "prices", "units", "coverage", "employees", "posts", "duties", "profiles",
  "memberships", "requests", "quotations", "shipments", "invoices", "payments", "vehicles",
  "drivers", "parcels", "trips", "manifests", "items", "movements", "proofs", "tickets"}

EmptyTables == [t \in Table |-> {}]

SeedingInit ==
  /\ seeded = EmptyTables
  /\ at = [r \in Run |-> 1]
  /\ last = {}
  /\ alone = TRUE

\* runSeeders: the seeders one after the other, until one throws.
Turn(r, seeder) ==
  /\ at[r] \in DOMAIN Order /\ Order[at[r]] = seeder
  /\ at' = [at EXCEPT ![r] = @ + 1]

\* What a seeder upserts: the rows of `new` are there, once each.
Upserts(r, seeder, new) ==
  /\ Turn(r, seeder)
  /\ seeded' = [t \in Table |-> IF t \in DOMAIN new THEN seeded[t] \cup new[t] ELSE seeded[t]]
  /\ alone' = (alone /\ last = {r})
  /\ UNCHANGED last

\* A statement fails, or the process is stopped: the run ends where it is.
Fails(r) ==
  /\ at[r] \in DOMAIN Order
  /\ at' = [at EXCEPT ![r] = 0]
  /\ UNCHANGED <<seeded, last, alone>>

-----------------------------------------------------------------------------
(* The rows the lists ask for *)

SeededTenants == {t[1] : t \in SEEDED_TENANTS}

\* branchesForTenant
branchesForTenant(company) ==
  CASE company = masarat -> MASARAT_UNITS
    [] company = qadmous -> QADMOUS_UNITS
    [] OTHER -> TROJAN_UNITS

zonesByTenant(company) ==
  CASE company = masarat -> MASARAT_ZONES
    [] company = qadmous -> QADMOUS_ZONES
    [] OTHER -> TROJAN_ZONES

SeededLocations == UNION {l[2] : l \in SEEDED_GLOBAL_LOCATIONS}

\* A unit is known by its company and its name.
SeededUnits ==
  UNION {{<<company, u[1]>> : u \in branchesForTenant(company)} : company \in SeededTenants}

SeededPrices == UNION {
  {<<company, p>> : p \in {q \in zonesByTenant(company) \X zonesByTenant(company) :
                             q[1] # q[2] /\ {q[1], q[2]} \in PAIR_BASE_PRICE}}
    : company \in SeededTenants}

AllShipments == SHIPMENTS \cup EXTRA_SHIPMENTS

AllParcels == PARCELS \cup EXTRA_PARCELS

-----------------------------------------------------------------------------
(* Lookups *)

HasUnit(company, name) == <<company, name>> \in seeded.units

Staffed(company) == \E e \in seeded.employees : e[1] = company

\* The employee with this code.
Coded(company, code) == {e \in EMPLOYEES : e[1] = company /\ e[3] = code
                                            /\ <<company, e[2]>> \in seeded.employees}

ActiveDriver(v) == {d \in seeded.drivers : d[1] = v}

Drives(user) == {d \in seeded.drivers : d[2] = user}

-----------------------------------------------------------------------------
(* The seeders *)

SeedCleanupSeeder(r) ==
  /\ Turn(r, "SeedCleanup")
  /\ seeded' = EmptyTables
  /\ last' = {r}
  /\ alone' = TRUE

PermissionSeeder(r) == Upserts(r, "Permission", [permissions |-> {"all"}])

SubscriptionPlanSeeder(r) == Upserts(r, "SubscriptionPlan", [plans |-> SUBSCRIPTION_PLANS])

\* The platform's owner is an admin if the list has made the user.
UserSeeder(r) == Upserts(r, "User",
  [users |-> SEEDED_USERS, admins |-> {"owner@logisticsplatform"} \cap SEEDED_USERS])

PlatformOwnerSeeder(r) == Upserts(r, "PlatformOwner",
  [users |-> {"owner@logisticsplatform"}, admins |-> {"owner@logisticsplatform"}])

\* Top down: a parent is a row before its parts are.
GlobalLocationSeeder(r) ==
  /\ {l[1] : l \in SEEDED_GLOBAL_LOCATIONS} \subseteq SeededLocations \cup {"null"}
  /\ Upserts(r, "GlobalLocation", [locations |-> SeededLocations])

\* The company, its settings, its subscription to a plan, its owner.
TenantSeeder(r) ==
  /\ PLAN_ID \in seeded.plans
  /\ Upserts(r, "Tenant",
       [tenants |-> SeededTenants, owners |-> {t \in SEEDED_TENANTS : t[2] \in seeded.users}])

\* Every role is granted the permissions there are.
RoleSeeder(r) ==
  /\ SeededTenants \subseteq seeded.tenants
  /\ Upserts(r, "Role",
       [roles |-> SeededTenants \X SEEDED_ROLES,
        grants |-> SeededTenants \X SEEDED_ROLES \X seeded.permissions])

ZoneSeeder(r) ==
  /\ SeededTenants \subseteq seeded.tenants
  /\ Upserts(r, "Zone",
       [zones |-> UNION {{company} \X zonesByTenant(company) : company \in SeededTenants},
        prices |-> SeededPrices])

\* Units without a parent come first.
OrganizationUnitSeeder(r) ==
  /\ SeededTenants \subseteq seeded.tenants
  /\ \A company \in SeededTenants : \A u \in branchesForTenant(company) :
       /\ <<company, u[3]>> \in seeded.zones
       /\ u[2] \in {"none"} \cup {p[1] : p \in {q \in branchesForTenant(company) : q[2] = "none"}}
       /\ u[4] \subseteq seeded.locations
  /\ Upserts(r, "OrganizationUnit",
       [units |-> SeededUnits,
        coverage |-> UNION {UNION {{<<company, u[1], l>> : l \in u[4]}
                                     : u \in branchesForTenant(company)}
                              : company \in SeededTenants}])

\* No user, no employee; no unit, no post, and so no roles at it.
EmployeeSeeder(r) ==
  LET found == {e \in EMPLOYEES : e[2] \in seeded.users}
      posted == {e \in found : HasUnit(e[1], e[4])}
  IN  /\ {e[1] : e \in found} \subseteq seeded.tenants
      /\ Upserts(r, "Employee",
           [employees |-> {<<e[1], e[2]>> : e \in found},
            posts |-> {<<e[1], e[2], e[4]>> : e \in posted},
            duties |-> UNION {{<<e[1], e[2], d[2]>> : d \in {x \in seeded.roles : x[1] = e[1]}}
                                : e \in posted}])

CustomerSeeder(r) ==
  LET found == {c \in CUSTOMERS : c[1] \in seeded.users}
  IN  /\ UNION {c[2] : c \in found} \subseteq seeded.tenants
      /\ Upserts(r, "Customer",
           [profiles |-> {c[1] : c \in found},
            memberships |-> UNION {{c[1]} \X c[2] : c \in found}])

\* A request needs its customer, both units and someone of the company.
ShipmentRequestSeeder(r) ==
  LET found == {s \in AllShipments :
                  /\ s[3] \in seeded.users /\ s[3] \in seeded.profiles
                  /\ HasUnit(s[2], s[6]) /\ HasUnit(s[2], s[7]) /\ Staffed(s[2])}
  IN  /\ UNION {{s[4], s[5]} : s \in found} \subseteq seeded.locations
      /\ Upserts(r, "ShipmentRequest",
           [requests |-> {s[1] : s \in found},
            quotations |-> {<<s[1], s[2]>> : s \in found},
            shipments |-> {s[8] : s \in found} \ {0}])

\* Request 856, open to every company; without its customer it is left out.
seedMarketplaceQuotes(r) ==
  LET found == IF "john.doe" \in seeded.users \cap seeded.profiles THEN {856} ELSE {}
      quoting == {m \in MARKETPLACE_ROUTES :
                    HasUnit(m[1], m[2]) /\ HasUnit(m[1], m[3]) /\ Staffed(m[1])}
  IN  /\ found # {} => {"JARAMANA", "AZIZIEH"} \subseteq seeded.locations
      /\ Upserts(r, "MarketplaceQuotes",
           [requests |-> found, quotations |-> found \X {m[1] : m \in quoting}])

\* A payment for the invoices that are paid.
BillingSeeder(r) ==
  LET found == {i \in INVOICES : /\ i[2] \in seeded.shipments /\ Staffed(i[1])
                                 /\ \E u \in seeded.units : u[1] = i[1]}
  IN  Upserts(r, "Billing",
        [invoices |-> {i[2] : i \in found},
         payments |-> {i[2] : i \in {f \in found : f[3] = "PAID"}}])

VehicleSeeder(r) ==
  /\ {v[1] : v \in VEHICLES} \subseteq seeded.tenants
  /\ Upserts(r, "Vehicle", [vehicles |-> {<<v[1], v[2]>> : v \in VEHICLES}])

\* A vehicle that has a driver, or a driver who has a vehicle, is passed over.
seedVehicleAssignments(r) ==
  LET assigned == {v \in VEHICLES :
        /\ v[3] \in seeded.users /\ <<v[1], v[3]>> \in seeded.employees
        /\ ActiveDriver(v[2]) = {} /\ Drives(v[3]) = {}}
  IN  Upserts(r, "VehicleAssignment", [drivers |-> {<<v[2], v[3]>> : v \in assigned}])

ParcelSeeder(r) == Upserts(r, "Parcel",
  [parcels |-> {p[1] : p \in {x \in AllParcels : x[2] \in seeded.shipments}}])

\* The vehicle the driver has now, if any.
TripVehicle(driver) == {d[1] : d \in Drives(driver[2])}

upsertTrip(r) ==
  LET found == {t \in trips : /\ Coded(t[2], t[3]) # {}
                              /\ HasUnit(t[2], t[4]) /\ HasUnit(t[2], t[5])}
  IN  Upserts(r, "Trip",
        [trips |-> {<<t[1], UNION {TripVehicle(d) : d \in Coded(t[2], t[3])}>> : t \in found}])

upsertManifest(r) ==
  LET found == {m \in manifests : HasUnit(m[2], m[3]) /\ HasUnit(m[2], m[4])}
  IN  /\ {m[5] : m \in found} \subseteq {0} \cup {t[1] : t \in seeded.trips}
      /\ Upserts(r, "Manifest",
           [manifests |-> {m[1] : m \in found},
            items |-> UNION {{m[1]} \X (m[6] \cap seeded.parcels) : m \in found}])

\* Parcel 1101 was loaded on trip 1201, parcel 1107 was handed over.
seedProofAndMovement(r) ==
  LET driver == Coded(masarat, "EMP-102")
      loaded == IF driver # {} /\ HasUnit(masarat, "HUB") THEN {1101} \cap seeded.parcels ELSE {}
  IN  /\ loaded # {} => 1201 \in {t[1] : t \in seeded.trips}
      /\ Upserts(r, "ProofAndMovement",
           [movements |-> loaded,
            proofs |-> IF driver # {} THEN {1107} \cap seeded.parcels ELSE {}])

\* A ticket of a customer; its employee, parcel and shipment may be missing.
SupportNotificationSeeder(r) ==
  LET found == {"john.doe", "admin@fastship"} \subseteq seeded.users
  IN  /\ found => masarat \in seeded.tenants
      /\ Upserts(r, "SupportNotification", [tickets |-> IF found THEN {1301} ELSE {}])

\* One user with every profile, who drives a vehicle nobody has, or a new one.
SuperUserSeeder(r) ==
  LET known == masarat \in seeded.tenants
      branches == {u \in seeded.units : u[1] = masarat}
      roles == {d[2] : d \in {x \in seeded.roles : branches # {} /\ x[1] = masarat}}
      free == {v[2] : v \in {x \in seeded.vehicles : x[1] = masarat /\ ActiveDriver(x[2]) = {}}}
      profiles(taken) ==
        [users |-> {"super"}, admins |-> {"super"}, owners |-> {<<masarat, "super">>},
         employees |-> {<<masarat, "super">>}, profiles |-> {"super"},
         posts |-> IF branches = {} THEN {} ELSE {<<masarat, "super", "BRANCH">>},
         duties |-> {<<masarat, "super", role>> : role \in roles},
         vehicles |-> {<<masarat, v>> : v \in taken},
         drivers |-> {<<v, "super">> : v \in taken}]
  IN  \/ ~known /\ Upserts(r, "SuperUser", [users |-> {"super"}, admins |-> {"super"}])
      \/ known /\ Drives("super") # {} /\ Upserts(r, "SuperUser", profiles({}))
      \/ /\ known /\ Drives("super") = {}
         /\ \E v \in IF free = {} THEN {0} ELSE free :
              Upserts(r, "SuperUser", profiles({v}))

SeedingNext == \E r \in Run :
  \/ SeedCleanupSeeder(r) \/ PermissionSeeder(r) \/ SubscriptionPlanSeeder(r) \/ UserSeeder(r)
  \/ PlatformOwnerSeeder(r) \/ GlobalLocationSeeder(r) \/ TenantSeeder(r) \/ RoleSeeder(r)
  \/ ZoneSeeder(r) \/ OrganizationUnitSeeder(r) \/ EmployeeSeeder(r) \/ CustomerSeeder(r)
  \/ ShipmentRequestSeeder(r) \/ seedMarketplaceQuotes(r) \/ BillingSeeder(r)
  \/ VehicleSeeder(r) \/ seedVehicleAssignments(r) \/ ParcelSeeder(r) \/ upsertTrip(r)
  \/ upsertManifest(r) \/ seedProofAndMovement(r) \/ SupportNotificationSeeder(r)
  \/ SuperUserSeeder(r) \/ Fails(r)

SeedingSpec == SeedingInit /\ [][SeedingNext]_seedingVars

-----------------------------------------------------------------------------
(* Properties *)

SeedingTypeOK ==
  /\ DOMAIN seeded = Table
  /\ seeded.users \subseteq SEEDED_USERS \cup {"super"}
  /\ seeded.units \subseteq SeededUnits
  /\ seeded.parcels \subseteq {p[1] : p \in AllParcels}
  /\ at \in [Run -> 0 .. Len(Order) + 1]
  /\ last \subseteq Run
  /\ alone \in BOOLEAN

SeededBy(r) == last = {r} /\ Finished(r)

\* No row a list asks for is missing once the run that truncated last has
\* finished: no name, code or e-mail address in a list is unknown to the lists
\* it refers to, no seeder comes before one it looks things up from, and what
\* a run that died or still goes on has left never makes a seeder pass over a
\* row.  Only the drivers' vehicles need the run to have been alone.
SeedsWhatItLists == \A r \in Run : SeededBy(r) =>
  /\ SEEDED_TENANTS \subseteq seeded.owners
  /\ seeded.grants = SeededTenants \X SEEDED_ROLES \X seeded.permissions /\ seeded.grants # {}
  /\ \A company \in SeededTenants : \A a, b \in zonesByTenant(company) :
       a # b => <<company, <<a, b>>>> \in seeded.prices
  /\ \A e \in EMPLOYEES :
       /\ <<e[1], e[2], e[4]>> \in seeded.posts
       /\ \A role \in SEEDED_ROLES : <<e[1], e[2], role>> \in seeded.duties
  /\ \A c \in CUSTOMERS : {c[1]} \X c[2] \subseteq seeded.memberships
  /\ \A s \in AllShipments : /\ <<s[1], s[2]>> \in seeded.quotations
                            /\ s[8] \in seeded.shipments \cup {0}
  /\ \A m \in MARKETPLACE_ROUTES : <<856, m[1]>> \in seeded.quotations
  /\ \A i \in INVOICES : i[2] \in seeded.invoices
  /\ \A p \in AllParcels : p[1] \in seeded.parcels
  /\ \A t \in trips : \E x \in seeded.trips : x[1] = t[1]
  /\ \A m \in manifests : {m[1]} \X m[6] \subseteq seeded.items
  /\ seeded.movements # {} /\ seeded.proofs # {} /\ seeded.tickets # {}
  /\ alone => \A v \in VEHICLES : v[3] = "none" \/ <<v[2], v[3]>> \in seeded.drivers
=============================================================================
