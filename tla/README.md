# Multi-tenant shipping management platform: TLA+ models, checks and proofs

The repository is a NestJS backend (`src/backend`), a Flutter application (`src/mobile`) and deployment files.
The backend is a modular monolith over one PostgreSQL database, with Redis beside it. Commands write through
Prisma, inside interactive transactions opened by `@Transactional()`; queries read through Kysely, on a
connection pool of their own. The two meet in the command services: an aggregate is read through one connection,
a rule of the domain entity is applied to it, and the result is written through the other, sometimes guarded by
the `version` the aggregate was loaded with and sometimes not. Most of what can go wrong in this program is in
the gap between that read and that write, and that gap is what these modules model.

PostgreSQL runs at READ COMMITTED. The models take from it what the code relies on and no more: a statement sees
what was committed when it ran (and, on the transaction's own connection, the transaction's writes); an update
locks its rows until the transaction ends; the `WHERE` of an update that waited is evaluated again on the row it
finally gets; a unique index makes the second insert fail; what a transaction wrote shows all at once, or never.

## 1. Inventory

Paths are under `src/backend/src/modules` unless said otherwise. PROJECT.json names every source file.

### customer-shipment (parcel, shipment, proof of delivery)

- State: tables `parcel` (status, current unit, version), `customer_shipment` (status, version),
  `proof_of_delivery` (unique on the parcel) and `parcel_movement` (append only).
- Operations: createShipment, receive, pickUp, dropOff, bulk dispatch, recordDelivery, cancelShipment, and the
  recalculation that derives the shipment's status after each parcel change. markReady and updateStatus are in the
  service, but their routes are commented out (`parcel.controller.ts:118-131`, `:147-162`) and nothing calls them.
- Interactions: bills through the billing facade in the same transaction; Fleet calls its facade for scans and for
  the bulk dispatch; converts a shipment request at the end of createShipment; emits events inside the
  transaction, whose listeners push notifications.
- Hard: two scans of one parcel; a cancellation against a scan or a counter payment; the recalculation, which
  reads parcel statuses on another connection; the bulk update, which carries no version.
- Correct when: a parcel's history and its row agree and only the bulk update ever loses one; the shipment moves along
  its lifecycle; a proof stands for a handover and a settled invoice; shipment and invoice are cancelled together; the
  shipment never runs ahead of what its parcels did.

### fleet (trips, transport manifests)

- State: `trip`, `transport_manifest` (status, trip), `manifest_item` (per manifest and parcel).
- Operations: create, fill, finalize, reopen a manifest; create, update, start, complete, cancel a trip and assign
  manifests to it; load, unload and report missing.
- Interactions: moves parcels through customer-shipment's facade, in one transaction; asks employee and
  organization for existence.
- Hard: dispatchers who book one manifest twice; drivers' scans that decide the manifest's status by counting
  items others are changing; start, cancel and update of one trip; no row has a version.
- Correct when: a manifest keeps the trip that claimed it; a manifest is in transit or completed only when its
  items are; parcels and items say the same; no trip departs empty; a departed trip is settled.

### billing (invoices, payments, the overdue job)

- State: `invoice` (status, version, total, number, due date), `payment`, `invoice_counter`.
- Operations: createForShipment, recordPayment, settleForDelivery, cancelForShipment, markOverdueBefore (nightly).
- Interactions: called by customer-shipment in its transaction, by its own controller, and by a scheduler.
- Hard: the invoice and the sum of its payments are read by two statements; the sweep names no version; numbers
  must have no gap although transactions roll back; minimum payments against small remainders.
- Correct when: the status says how much money there is; numbers run 1, 2, 3 ...; a remainder can be paid; what is
  due is noticed.

### shipment-request (requests, quotations, zone pricing)

- State: `shipment_request` (status, approved quotation), `quotation` (status, amount), Redis copies of both, and
  one more copy per HTTP request.
- Operations: create (with its generated quotations), approve, requestManualPricing, submitManualPrice,
  acceptByCompany, rejectByCompany, cancel, convert.
- Interactions: convert is called by createShipment; prices come from zone pricing, a calculation.
- Hard: rules applied to cached rows; evictions that run before a commit or never; unguarded single-statement
  updates; a second approval at the same time as the first.
- Correct when: one quotation at most stands as approved, it is the one the request names and it has a price;
  nothing is accepted, converted or shipped without the customer's agreement; closed requests stay closed.

### tracking (positions, rooms)

- State: per process, the trips a driver was checked for in the last twenty seconds and the batch being stored; a
  Redis list of positions per trip; `trip_location_log`; the rooms sockets are in.
- Operations: report a position, flush every two minutes, subscribe, ping, unsubscribe, follow a parcel.
- Interactions: reads fleet's trips through a query service; hears the events of scans.
- Hard: every process runs the flush; it empties a list in one step and inserts afterwards; a check in flight may
  store its answer after the trip ended, and a late start may put an ended trip on the road again; what a socket may
  see changes while its subscription waits for a query; the interceptor refuses a ping before the rooms are looked at.
- Correct when: a position is in one place, or lost with an insert that failed or a process that died; only the
  driver of a trip speaks for it; a trip that has ended for good falls silent; whoever may not see a trip any longer
  leaves its room, if its pings are let through.

### fleet: vehicles

- State: `vehicle` (plate unique), `vehicle_assignment` with one partial unique index per side on rows not released.
- Operations: register, edit, assign a driver, release.
- Hard: the checks are queries, the insert comes later; a release names the row and not that it is still active.
- Correct when: no two active assignments share a vehicle or a driver.

### auth, users and profiles

- State: `user_session` with the hash of its refresh token, the tables that make a user's profiles, Redis copies of
  the principal.
- Operations: log in, choose a profile, exchange a refresh token, log out.
- Hard: two requests exchange one token; the old session is deleted and the next one inserted by two statements; the
  token that chooses a profile is in no table and good for any number of choices.
- Correct when: the refresh tokens of one login or choice never become two sessions.

### employees, roles, authorization

- State: `employee`, its assignments to units, their roles, the permissions of a role; the cached principal (under
  `employee:`...), the cached permissions of each role.
- Operations: hire, activate, deactivate, delete, assign, replace assignments and permissions, in two modules
  (`employee` and `employee2`) that write the same rows and evict different keys.
- Hard: a request reads the two caches at different times; a replacement reads, deletes and inserts; some commands
  evict nothing that guards read.
- Correct when: a request passes only with roles and permissions that were given, and the guards follow the tables.

### tenants, subscriptions, organization units

- State: `tenant`, `tenant_subscription`, `organization_unit`, the cached subscription.
- Operations: create, activate and suspend a tenant; assign, suspend, resume, cancel a subscription; open and retype
  a unit.
- Hard: all but the assignment are statements without a transaction; a unit is counted and then inserted, under a
  limit from a cached row.
- Correct when: one subscription at most is active, and units stay within the limit.

### customers, codes and files

- State: codes mailed to an address, in Redis with a time to live; the files of pictures and logos in storage, and
  the key in a row that points at one.
- Operations: register, resend, verify, reset; upload, remove, read.
- Hard: the mail server refuses after Redis was written; Redis may not do what it is asked to and the request does
  not learn it; two uploads and a removal of one picture cross.
- Correct when: only the code mailed last counts, but for what Redis failed to do; the file a row points at exists.

### Lists, caches, seeders

- `read models`: eighteen lists, ten by cursor and seven by offset, most kept in Redis page by page; one unordered.
- `infrastructure/cache`: read through the request's own copy, then Redis behind a circuit breaker, then the rows,
  with eviction by decorator; in tests, a map instead of Redis.
- `infrastructure/database/seeders`: nineteen seeders in order, each looking up what the earlier ones inserted.
- Hard: pages of different ages, and of other criteria under the same key; rows that tie in the order of a list; a row
  loaded before it was written and stored after it was evicted; a stored null, which one reader takes for an answer
  and another does not; commands that reach Redis late; a run that dies half way.
- Correct when: whoever reads a list to its end, from pages of its own, saw every row that stayed; an old copy has an
  excuse; an answer has all its rows; a completed run has inserted what its lists say.

### The rest

`packages/transaction` opens, reuses and ends the Prisma transaction of the current request: it is in the phases
of every module. Notification, mail, statistics, labels, health and deployment keep no state that a modelled
command reads.

## 2. Modules

| Module | Role | Code |
| --- | --- | --- |
| `ShipmentLifecycle` | lifecycle tables of parcel and shipment, and the rule that derives one from the other | `parcel.entity.ts`, `customer-shipment.entity.ts` |
| `ShipmentLedger` | abstract: tables change as if one command ran at a time | what customer-shipment promises |
| `CustomerShipment` | parcel, shipment and delivery commands of concurrent requests | `customer-shipment/*` |
| `Dispatch` | manifests, trips, scans | `fleet/trip`, `fleet/transport_manifest` |
| `InvoiceAccount` | abstract: what the callers of billing may see of an invoice | what billing promises |
| `Billing` | issuing, payment, cancellation, sweep | `billing/*` |
| `ShipmentRequest` | a request, its quotations and the caches between | `shipment-request/*`, `infrastructure/cache` |
| `Tracking` | positions from the driver to the log | `tracking/*` |
| `TripRooms` | which socket hears which trip | `tracking.gateway.ts` |
| `Vehicles` | the register, and who drives what | `fleet/vehicle` |
| `Sessions` | logins and refresh tokens | `auth/*` |
| `Access` | employees, roles, permissions, and the guards | `employee`, `employee2`, `authorization`, `profile` |
| `Tenancy` | a tenant's subscription and its units | `tenant`, `organization` |
| `Listings` | the lists, page by page | the query repositories and their services |
| `SeedLists`, `Seeding` | what is seeded, and the run that seeds it | `infrastructure/database/seeders` |
| `Accounts` | mailed codes, pictures | `customer`, `profile`, `tenant`, `packages/storage` |
| `CacheLayers` | a read through the caches, a write and its eviction | `infrastructure/cache`, `packages/context` |
| `MC...` | instances for TLC | |
| `..._proofs` | theorems | |

`CustomerShipment` and `ShipmentLedger` extend `ShipmentLifecycle`; `CustomerShipment` instantiates
`ShipmentLedger`, and `Billing` instantiates `InvoiceAccount`, each under a refinement mapping.

`MCRoad`, `MCAccess` and `MCPlatform` each extend several modules that share no row and no variable, and `MCAccounts`
one whose halves, codes and pictures, share none. Their variable `part` is chosen at the start and says which module
moves; the others stay in one state. A behaviour of all of them is then a behaviour of each, so nothing is lost, and what
is asked of parts that cannot meet is asked in one run. Variables of such modules have distinct names, and so do their
initial predicates and next-state relations.

### How a request is modelled

Every detailed module has one variable per table and one function from concurrent requests to the transaction
each has open. A transaction holds the command, what it read, and what it is going to write, because nobody
else sees the writes before the commit. Each read, each guarded or locking write and the commit is an action, so
that any other request may act between two of them. `RollBack` (`Abandon` in ShipmentRequest) is enabled at each
of these points: it stands for a refused rule, a version conflict, Prisma's transaction timeout, a deadlock that
PostgreSQL resolves, a lost connection or a crash of the process. There is no state in a process to recover:
a crash leaves the tables and, in ShipmentRequest, the shared cache.

A guard in the models has one of three sources: a rule of the aggregate applied to the row it loaded; the
`WHERE` of an update, on the committed row; or a row lock of another open transaction. A command that its rule
refuses changes nothing and is not begun.

Inputs are those the program can be in: a run begins with empty tables, or (`Assembled` of `Dispatch`) with
manifests finalized by the operations that other runs do include.

### CustomerShipment

| Action | Code |
| --- | --- |
| CreateShipment | `shipment.command.service.ts` createShipment: shipment, parcels and invoice in one transaction |
| RecordPayment | the billing facade's recordPayment, one committed step; Billing has its detail |
| LoadParcels | the aggregate read of every parcel command and the rule of `parcel.entity.ts` |
| WriteParcels | billing gate of recordDelivery, the guarded update (`updateMany` with the version), the bulk update, the read of the shipment |
| ReadStatuses | `shipment-status.recalculator.ts`: the Kysely read, and the derivation |
| WriteShipments | the guarded shipment update |
| LoadShipment, CancelShipment | cancelShipment and cancelForShipment |
| Commit, RollBack | end of the transaction |

The commands are those something calls. Parcels are made ready by Fleet's bulk dispatch alone
(`parcel.command.repository.ts:99`), which names ids and no version; since the routes of markReady and updateStatus are
commented out, no parcel is ever RETURNED, and none is collected without its proof. So the catch-up delivery (proof for a
parcel already COLLECTED, which moves no parcel and recalculates nothing) is in the model, as in the code, and is never
reached. Every parcel has one origin and one destination unit. That an OVERDUE invoice exists is Billing's: here an
unpaid invoice is UNPAID whether or not it is due, and both are payable. Because the recalculation never sees the change
that caused it, a shipment of one parcel is never DELIVERED, and one of several only by a later change.

### Dispatch

| Action | Code |
| --- | --- |
| CreateManifest | createManifest |
| AddItems, RemoveItem, FinalizeManifest, ReopenManifest, Scan, ReportMissing | the load and the rules at the start of the commands of `manifest-command.service.ts` |
| CreateTrip, UpdateTrip, AssignManifestsToTrip, StartTrip, CompleteTrip, CancelTrip | the same for `trip-command.service.ts` |
| ReadParcels | the bulk dispatch's load of the parcels, after addItems inserted its items |
| WriteScan | item update, then the guarded parcel update through the facade, then LOADING |
| Count | countItemsByStatus inside the scan's transaction |
| CommitAdd, CommitRemoval, CommitMissing, CommitFinalize, CommitReopen, CommitScan | the last writes of the manifest commands, and the commit |
| CommitLinks, CommitUpdate, CommitTripStatus | linkToTrip with the trip's row, the trip updates, and the commit |
| RollBack | the transaction ends without effect |
| ReceiveParcel | outside Fleet: a unit takes an arrived parcel back into sorting |

`startTrip` reads the number of linked manifests and writes with `where: { id }`, so does every other trip
command; linkToTrip alone is guarded and fails unless it updated all manifests asked for. completeTrip leaves the
manifests as they are: the `markTripManifests...` methods exist and nothing calls them.

### Billing

| Action | Code |
| --- | --- |
| TakeNumber | createForShipment: the upsert of the counter row, and the invoice to insert |
| Load | the aggregate is read |
| Collect | payments summed, assertAcceptsPayment, applyPaidTotal, payment inserted |
| Void | cancelForShipment |
| UpdateInvoice | the guarded update, which bumps the version even when the status stays |
| Sweep | one row of markOverdueBefore |
| DueDatePasses | the clock |

Billing reads through its own transaction (Prisma), not through Kysely. Money is in cents, and a currency is its
minimum payment. settleForDelivery is a payment of all that is left.

### ShipmentRequest

| Action | Code |
| --- | --- |
| Create | create and generateQuotations: the request and its quotations |
| ReadQuotation, ReadRequest | findById through the cache: a cached copy, or the start of a miss |
| Fill | `remember` stores what the miss loaded, however old it is by then |
| RequestManualPricing, SubmitManualPrice | the one statement of these commands of a quotation |
| AcceptByCompany, RejectByCompany, Cancel | the one statement of these commands of the request |
| WriteApproval, CommitApproval | executeApprovalTransaction |
| WriteConversion, CommitConversion | persistShipment with convert at its end |
| EvictBefore | the eviction of the request's copy inside those two transactions |
| EvictAfter | the eviction of a finished command |
| Abandon | refusal, rollback, crash; also an eviction that failed: the cache facade logs it and goes on |

`ExpireRequest` and `ExpireQuotation` are the time to live. Two requests share no row, so there is one. Amounts are
reduced to whether they are set. The status EXPIRED is kept in the rules and no command produces it.

### Tracking

| Action | Code |
| --- | --- |
| BeginRequest, RefuseRequest | startTrip, completeTrip, cancelTrip and updateTrip read the trip and check it |
| Depart, Reassign | their write, by id: a status or another driver over whatever the row says by then |
| SendReport | `tracking.gateway.ts` driver:location; a remembered check lets the position in at once |
| ReadTrip, Decide | isDriverForTrip: the query, then the answer, remembered for twenty seconds |
| Push | `bufferLocation` and the broadcast |
| Expires | the twenty seconds are over |
| Drain | `location-flusher.service.ts`: the list is read and trimmed in one step; a server holds one batch here, so a flush that outlasts its interval overlaps with another server's |
| Insert, InsertFails | the batch is stored, or dropped with a logged error |
| Restart | a process dies: what it remembers, its handlers and its batch are gone |

### TripRooms

| Action | Code |
| --- | --- |
| Subscribe, Ping | subscribe:trips; the heartbeat asks again for every room the socket is in; each first passes `ws-context.interceptor.ts`, which reads the units of the sender |
| Refused | the interceptor throws, for an expired token or a deactivated employee: no handler runs, and the socket keeps its rooms |
| Filter, Settle | filterVisible: the query, then the rooms joined and left |
| DriverChecked, DriverJoins | handleDriverLocation: a driver's position passed the check of Tracking; the socket joins the room with no filter |
| Unsubscribe | unsubscribe:trips |
| SubscribeParcel | handleSubscribeParcelTrip, which looks for a field its rows do not have |
| Transfer, ChangeAdmission, Reroute, Travel | outside: the employee's units, its activity or its token, the trip's route change; the parcel moves |

No units mean no filter: an administrator, a driver, and an employee that was never given a unit, see every trip. A socket
asks for one thing at a time here, where the code would let its messages overlap.

### Vehicles

| Action | Code |
| --- | --- |
| RegisterVehicle, EditVehicle, AssignDriver, Release | the reads and rules at the start of the commands |
| WriteNew, WriteEdit, WriteAssignment, WriteRelease | their one statement, under the unique indexes |
| Rejected | the index refuses, or the request dies |

### Sessions

| Action | Code |
| --- | --- |
| Login, SelectProfile | `auth.service.ts`: the rows that make the profiles are read; either begins a line of sessions |
| TokenExpires | the session token that chooses a profile runs out, fifteen minutes after the last login that made one |
| Open | createSession: the row is inserted |
| Refresh, Rotate | the token's session is found; the row is deleted, by whoever still finds it |
| Fails | the request dies between two statements |
| Logout, ChangeUser | the session is deleted; an administrator changes the rows |

### Access

| Action | Code |
| --- | --- |
| Asks, Fill | the guard reads the principal, from the cache or from the rows, and stores it |
| ReadsRoles, FillRoles, Ends | the permissions of its roles, the same way, and the decision |
| PrincipalExpires, RoleExpires | the time to live |
| Hire, SetActive, DeleteEmployee, AssignEmployee, AddAssignments, RemoveAssignment | the two employee modules |
| CreateRole, UpdateRole, CountAssignments, DeleteRole | `role.service.ts` |
| BeginReplace, DeleteSeen, CommitReplace | a list of assignments or permissions is read, deleted and inserted |
| Abandon, Evict | the transaction rolls back; the eviction after it |

### Listings

| Action | Code |
| --- | --- |
| Ask, Hit | a client asks for the next page; it is in Redis |
| Begin, ReadCursorPage | the keyset query: rows below the cursor, one more than the page |
| ReadRows, CountRows, Answer | the two queries of an offset page, in either order; the page is stored and returned |
| Evict | an eviction or the time to live |
| AnswerAnother | another client, whose criteria are written as the same key, has its page stored |
| InsertRow, ChangeRow, DeleteRow | the commands that change what is listed |

`list` is one of eighteen; what they differ in (criteria, order, cache) is in the operators named after them.

`KeyOf` is what a key keeps of the criteria. The keys of shipments and parcels
(`shipment.query.repository.ts:49`, `parcel.query.repository.ts:66`) are the same for an empty list of units, for which
the query has no rows, and for none, for which it has all. In lists that are searched by a text of the client's own, the
text that stands for no text ('none', 'all') is a text too. So a page may be another client's; `own` says whose it is.

The offset lists are ordered by `created_at` or `full_name`, which may tie: `OffsetRows` is the set of pages that any
order among the ties may give, at each read another one. `employees2` has no order at all, and its repository stores
its rows a second time, so that its pages may be of rows older than the count beside them.

### Tenancy

| Action | Code |
| --- | --- |
| CreateTenant, SetTenantStatus | the company |
| Assign, EvictInside, CommitAssign, RollBackAssign | assignSubscription, a transaction with the eviction inside it |
| Suspend, Resume, Cancel, WriteStatus, Record | the other commands: read, write by id, write the tenant or the history |
| OpenUnit, CachedLimit, LoadLimit, KeepLimit | `organization-unit.command.service.ts` asks for the limit |
| Count, InsertUnit, GivesUp | counts the units, inserts one |
| LimitsExpire, UpdateUnit | the time to live; a unit changes its type, which counts nothing |

### Seeding

One action per seeder, or per part of one that goes through several lists, in the order of `seed-runner.service.ts`;
each inserts what its lists in `SeedLists` say, for the rows its lookups find. A loop is one step, since its rows
depend on those of earlier loops only. Which free vehicle `SuperUserSeeder` takes is left open. `Fails` ends a run. A
row is what refers to other rows; names, weights and prices are left out.

### Accounts

| Action | Code |
| --- | --- |
| Register, ForgotPassword, KeepNew, SendOtpEmail, MailFails | a code is made, kept in Redis, mailed; when the mail is refused the key is deleted |
| Resend, KeepRenewed, Resent, ResendFails | the next code of a flow; when its mail is refused the entry it replaced is put back |
| Guess, DropSpent, CountAttempt, VerifyOtp | a guess reads the entry and writes back what became of it |
| UpdatePassword, ResetPassword | the second code flow |
| Upload, Save, RecordKey, RecordFails, DeleteFile | `avatar.service.ts` and the logo: file first, row next, old file last |
| Remove, ClearKey, Stopped | a removal; a process that dies between two of these |
| GetStream, Get | a reader of the picture |
| Tick | the clock |
| ArrivesLate | Redis gets a write that the request has given up |

`RedisCacheProvider` logs a write that fails, or that its open circuit keeps back, and returns (`:322-330`, `:390-396`);
a read that fails is answered with nothing (`:251-260`). So each `Set` and `Del` of a request is done, or not done, or
done late (`GivenUp`, `delayed`), and the request goes on in each case; and each check that wants no code passes when the
read fails (`Reads`). `unsure` is a history variable: the purposes for which a write was given up, came late or crossed
another request's, until a request that is alone keeps the code of a new flow or deletes the key.

### CacheLayers

| Action | Code |
| --- | --- |
| CacheableMany, CacheableSingle, GetUserRoleIds | the decorators, and the one reader without a request's copy |
| GetMany, GetManyFails | Redis answers, or nothing does |
| LoadMany, SetMany, SetManyFails | what is missing is loaded and stored |
| Return, Continue, EndRequest | the answer is put together; the request's copies go with it |
| Open, Rollback, Commit, Scan, Evict, EvictFails | a write and its eviction, in either order, or with a key that is not the row's (updatePricingSettings evicts SETTINGS) |
| Expire, Arrives, HalfOpen | the time to live; a late command reaches Redis; the breaker tries again |

What is under a key is `None`, a version, or 0 for a stored null: a read of one row stores null when there is no row
(`RedisCacheProvider.ts:127-129`). `get` cannot tell that null from a missing key, and loads; `getMany` of Redis takes
it for a hit (`:288-292`), and `rememberMany` neither loads nor returns the row; `getMany` of the map in memory does not
(`TakesNull`).

## 3. Runs

| Run | Configuration | Question | Bounds |
| --- | --- | --- | --- |
| shipment | `MCCustomerShipment.cfg` | With every command that has a caller, the unversioned bulk dispatch among them: what is lost, is money and proof respected, does it look atomic? | 2 parcels of 1 shipment, 2 units, 2 requests, row versions below 6 |
| collected_is_delivered | `MCCollectedIsDelivered.cfg` | violated: see findings | same |
| fleet_scan | `MCDispatchScan.cfg` | Do scans, trip commands and missing reports keep the tables in agreement? | 1 finalized manifest of 3 parcels, 2 trips, 3 requests |
| fleet_booking | `MCDispatchBook.cfg` | Who gets a manifest two dispatchers book? | 2 manifests, 2 trips, 1 parcel, 2 requests |
| billing | `MCBilling.cfg` | Money, numbers, due dates, and the abstract account | 2 shipments, totals 0 and 3, minimum 2, 2 requests, versions up to 3 |
| quoting | `MCQuoting.cfg` | One priced agreement, from copies of any age? | 2 quotations (one manual), 2 sessions |
| conversion | `MCConversion.cfg` | Is anything shipped that nobody agreed to; do old copies go? | 1 quotation, 2 sessions, 1 shipment, every command but pricing |
| road | `MCRoad.cfg` | Where do positions go, who hears them, who drives what? | 1 trip with 2 requests at a time, 2 drivers, 2 processes, 2 positions; 2 trips with rooms, 1 client, 1 unit, 2 routes, 2 movements; 2 vehicles, plates, holders, clerks, assignments, releases of each |
| access | `MCAccess.cfg` | Do logins fork; do guards follow the tables? | 2 lines of sessions, 2 handlers, 4 sessions; 2 units (one a desk), 1 role, permission and request, 2 administrators, 3 changes |
| platform | `MCPlatform.cfg` | Subscriptions, limits, lists, seeders | 2 managers, 2 clerks, 2 subscriptions, 2 plans, 2 units of a type; 18 lists of 3 rows in 2 places, a page of 1, 2 changes; 2 seeding runs |
| accounts | `MCAccounts.cfg` | Which code counts, when requests cross or Redis fails; does a picture's file stay? | 2 requests about 3 codes, clock to 2, 1 late write; 2 painters, 4 files |
| caches | `MCCaches.cfg` | Which cached rows are old, which answers are short? | 2 rows, of which 1 is written, 1 request, 1 editor, 2 versions, 1 late command |

Why the bounds are enough:

- Two requests suffice for every race of a read with a write, the shape of all the hazards; `fleet_scan` has three
  because a count may miss two scans at once. Proved theorems hold for any number.
- Two parcels are the least for which a shipment's status differs from its parcels'; three in `fleet_scan` give a
  first scan, a last one and one between.
- A version bound of 6 lets a parcel take five changes: a whole life from PROCESSING to COLLECTED with a destination
  receive, or a shorter one with a dispatch written over it and what follows. In `billing` 3 versions allow a partial
  payment and the payment or the sweep that follows; a total of 3 with a minimum of 2 strands a remainder of 1, and 0 is
  the total no payment settles.
- `road`: two processes drain one list at a time, and one dies while the other stores; two drivers are one who is
  replaced; two requests about the trip are an end and a late start that read before it. `access`: four sessions are two
  logins and an exchange of each; three changes give a role, take it and change it again between the two reads of one
  request. `accounts`: three codes are two of one flow and a new flow; four files are two uploads each of two painters.
  Requests about an address cross while Redis works, or meet a Redis that fails one at a time; the theorem has both at
  once. `caches`: one late command is a stored row, or null, that arrives after its eviction; the second row tells hits
  from misses and need not change.
- `platform`: with three rows and a page of one a list has a first, a middle and a last page, and two changes put a row
  before the cursor while another leaves. Eight of the cursor lists read and keep their pages as one of the other two
  does, and take one change of rows; so do the lists by offset, of which nothing is promised once a write came after a
  page; plans and employees2 take none. In a list by offset two of the three rows tie, before or after the third. A list
  is asked for with its narrowest criteria, and where its key does not tell them from others with those too; one page of
  another client's is kept at a time, and whoever got it is not followed further. Two plans differ in what they limit,
  so that a cached limit can be the wrong one.
- Counters are bounded by the constants whose names begin with `Max`, each commented as a bound where it is
  declared. `MaxVersion` and `MaxShipments` stop a command from beginning, never one that has begun.
- Symmetry is used for parcels, trips, requests, managers and clerks, in runs without liveness properties only.

Deadlock checking is off: a bounded run ends when every row reached its bound, and in the program every request
may be the last. That requests cannot wait on one another for ever follows from the failing action (`RollBack`,
`Abandon`, `Rejected`, `Fails`, ...) enabled in every phase, as Prisma's timeout is in the program.

### What the properties say

- `JourneyIsTheParcel`: the movements of a parcel form a chain to its current status, one per version. It breaks only
  where a dispatch, which carries no version, wrote over what it had not read (`WrittenOver`): no scan, handover or
  reception is ever lost to another, nor written over a dispatch.
- `ProofMeansSettledHandover`, `CancelledWithItsInvoice`, `NeverAheadOfParcels`: agreement between tables that
  different commands write. The first and the last except a parcel that a dispatch was written over: it may be ready again
  with its proof, or behind a shipment that was derived from it before.
- `ImplementsLedger`: an interleaving shows nothing that commands run one at a time could not show, but for the dispatch.
  The ledger has an entry for it that lands on a parcel in any status, which is all that the bulk update guarantees.
  `ShipmentStepAllowed`: the shipment keeps to its lifecycle all the same.
- `LoadedMeansOnTheRoad`: item and parcel agree, across two modules. `InTransitMeansLoaded`: a count taken among
  concurrent scans never lets a manifest go, or end, too early. `NeverDepartsEmpty`, `ManifestStepAllowed`,
  `ClaimedOnce`: the same for trips, for the order of scans, for claims.
- `StatusIsTheMoney`, `Gapless`, `RemainderIsAccepted`, `DueIsNoticed`: status, number and remainder of an invoice.
  `ImplementsAccount`: callers of billing see no transaction and no version.
- `OneAgreement`, `AgreementHasPrice`, `NothingWithoutAgreement`: what a customer agreed to, through copies of any
  age. `StaleCopyGoes`: an old copy does not stay.
- `InOnePlace`: a position that was accepted and pushed is in exactly one of list, batch, log and the lost, however
  many flushes overlap. `OnlyItsDriver`: it was taken for a trip its sender was driving at some time.
  `EndedTripFallsSilent`: once a trip has ended for good there comes a time from which nobody is trusted for it, although
  a check in flight may still store its answer. One that a late start puts on the road again has not ended for good.
  `BufferIsFlushed`: nothing stays in a list.
- `RevokedClientLeaves`: a client whose pings go on being let through leaves the rooms it may not be in, unless it is
  found to be the driver of the trip. One that does not ping stays, and so does one whose pings the interceptor refuses:
  the code looks at its rooms in the handler only.
- `OneDriverOneVehicle`: among active assignments, neither vehicle nor driver twice.
- `LinesNeverFork`: a line of tokens, which a login or a choice of a profile begins, is one live session or none,
  whoever exchanges at the same time. One login may begin several lines, since its session token can be used again.
- `PassesWithGivenRoles`: a request passes with roles and permissions each of which was given at some time; that
  they were given at one time is not promised, and not true. `GuardsCatchUp`: once changes stop, the caches agree
  with the tables, although some commands evict the wrong keys. That a deactivation takes hold at once, as
  `employee.controller.ts:118` describes it, is not claimed.
- `PagesCoverWhatStays`: whoever reads a cursor list to its end has seen every row that stayed in it, none twice,
  from pages of any age, unless it was given a page of other criteria under the same key. `QuietListIsReadWhole`: a list
  by offset, while nothing changes and under the same exception, shows each row that ties with no other once, and no row
  that is not in it; of rows that tie it promises nothing.
- `OneActiveSubscription`: while no two managers' commands overlapped; statements without a transaction promise no
  more. `UnitsWithinLimit`: beyond what a subscription ever allowed there is at most one unit for each clerk but the
  first, and those that were retyped, however old the cached limit.
- `SeedsWhatItLists`: a run that truncated last and has ended has inserted every row of every list, whatever other
  runs left or are still doing; only the drivers' vehicles need it to have been alone.
- `LastMailedCodeCounts`: for each purpose, the code in Redis, if any, is the last that was mailed, unless a write for
  that purpose failed, came late or crossed another request's and was not made good since. `PictureIsThere`: the file a
  row points at exists.
- `StaleNeedsAnExcuse`: a cached row is old, or a stored null stands for a row that is there, only while the eviction is
  still to come, or after a load that began before the write, a late command, an eviction that failed, came before the
  commit or was of another key. `EveryRowIsAnswered`: a cached read answers for each row that was there all the time. The
  only exception is a null under its key, in reads of many rows from Redis and in those that ask the provider itself;
  a @Cacheable read of one row has none.

Every property has a mutant in PROJECT.json: a plausible mistake in the code (a dropped version, a forgotten lock,
a count off by one, an entry without a time to live) that makes TLC refute it. The type invariants of `Vehicles`,
`Tracking`, `TripRooms`, `Sessions`, `Access`, `Listings`, `Tenancy`, `Seeding` and `CacheLayers` are in no run, being
proved.

### Fairness

- `Billing`: strong fairness of `Sweep(s)`. The job runs every night; a night it fails is followed by another, and
  PostgreSQL queues lock waiters, so payments that keep coming cannot hold it off for ever. Weak fairness of the
  end of a written transaction: Prisma's timeout rolls it back if nothing else does.
- `ShipmentRequest`, `Access`, `Tracking`: weak fairness of expiry. Every entry has a time to live that Redis, or
  the comparison with the clock, enforces.
- `Tracking`: weak fairness of a handler that has begun (ReadTrip, Decide, Push) and of the end of an insert, one
  way or the other. Strong fairness of `Drain` per trip: the job runs every two minutes in some process, and one
  that dies in between is followed by another.
- `TripRooms`: weak fairness of a query and its answer, and of a driver's join. `Access`: of a request that has begun.
- Nothing else is fair: no request need ever be made, retried or completed.

## 4. Findings

One is kept as a run:

1. **A fully collected shipment is not DELIVERED** (`collected_is_delivered`). The recalculation reads parcel
   statuses through Kysely, outside the transaction that has just written one of them, so the last parcel is
   seen as it was before. The document and the comment in the service say otherwise.

The models allow the following too, as the code does. They are not run as violations; where a property holds in
spite of one, its comment says so. Paths are under `src/backend/src/modules`.

- *Cancelling after dispatch.* A shipment with one parcel on the road and one in sorting stays PROCESSING, so it can
  be cancelled; the comment at `customer-shipment.entity.ts:129` says never after dispatch.
- *A loaded manifest that does not leave.* The last two scans, run together, each count the other's item as still to
  be loaded (`manifest-command.service.ts:207`), and the manifest stays LOADING.
- *A departed trip cancelled or changed.* `trip.entity.ts:167` and `:177` exclude it; the updates name the id alone.
- *A closed request cancelled or rejected.* `docs/shipment-request-and-quotation.md:73` excludes it; the updates name
  the id alone, and the row they judge may come from a cache.
- *A late release.* A second release overwrites the date of the first (`vehicle-command.service.ts:144`).
- *Evictions before the commit.* `@Transactional` stands above `@CacheEvict` in `tenant.command.service.ts:58`, `:185`
  and `parcel.command.service.ts:97`; `CacheEvict.ts` says it evicts after success. A read in between stores the old
  row for its whole time to live.
- *Following a parcel.* handleSubscribeParcelTrip looks for `actionType` in rows that have `action_type`, so it never
  finds the trip a parcel is loaded on.
- *An ended trip on the road.* A start that read SCHEDULED writes IN_PROGRESS by id over a cancellation, or a completion,
  committed since (`trip-command.repository.ts:66`), and its driver is trusted again.
- *A refused ping.* `ws-context.interceptor.ts:49-56` and `:136-140` throw before the handler that looks at the rooms,
  so a socket with an expired token, or of a deactivated employee, goes on hearing them until it disconnects.
- *A choice of profile repeated.* The session token is a signed one, good for fifteen minutes (`auth.service.ts:130-136`,
  `:161-206`): each use opens another session.
- *Shared keys.* An empty list of units and none are one key (`shipment.query.repository.ts:49`,
  `parcel.query.repository.ts:66`), while the query has no rows for the one and all for the other. After one of them
  listed, the other gets its pages, against the comment at `shipment.query.repository.ts:85`.
- *Ties.* Employees are paged by `full_name`, roles, trips, tenants and others by `created_at` alone; rows that tie may
  come twice, or not at all, in a quiet list. `employee2` pages without ORDER BY at all, and keeps its rows twice.
- *Two replacements of one list* leave the union of both. *Two requests about one address* may cross: a wrong guess
  writes back the entry it read, over a code mailed since.
- *A Redis that does not answer.* `RedisCacheProvider.set` and `del` log their failure and return, and the code is mailed
  all the same: the one kept may be an older one than the one mailed, or one that was never mailed.
- *A stored null.* A read of one row stores null when there is none (`RedisCacheProvider.ts:127-129`); `getMany` takes
  it for a hit (`:288-292`), so a row made since, whose eviction failed or came first, is missing from answers about
  many rows for its time to live.
- *The wrong key.* updatePricingSettings evicts SETTINGS (`tenant.command.service.ts:398-409`); the copy that is read,
  PRICING_SETTINGS, stays old.
- *Parcels and lists.* The bulk update can overwrite a parcel that changed in between; a parcel may join a list that
  was just finalized, or two open lists; a removal that found the list open (`manifest-command.service.ts:273`) may
  delete an item that was loaded since, and the parcel stays in transit on no list; a reopened manifest may already be
  claimed; a MISSING report as the last one leaves a manifest IN_TRANSIT, and may overwrite UNLOADED.
- *Side effects of a rollback.* Listeners run before the commit; files of a handover that rolls back stay.
- *Requests and money.* One accepted request may be converted twice; a late submitManualPrice reopens an approved
  quotation; nothing reads `valid_until`; the refund branch is unreachable, since no shipment is PENDING; an invoice
  of total zero never becomes PAID.

## 5. Proofs

All are checked for every value of the constants that satisfies the modules' assumptions. Three theorems of
`Dispatch_proofs` assume `Frozen`, that no request adds or removes an item, finalizes or reopens a list: a removal,
an addition or a reopening that comes late breaks what they say, as section 4 tells.

| Module | Theorem | Establishes |
| --- | --- | --- |
| `CustomerShipment_proofs` | TypeCorrect | `[]TypeOK` |
| | ShipmentLifecycleHolds | `ShipmentStepAllowed` |
| | CancelledTogether | `[]CancelledWithItsInvoice` |
| | JourneysAreUnbroken | `[]JourneyIsTheParcel` |
| | ProofsAreSettled | `[]ProofMeansSettledHandover` |
| | NeverAhead | `[]NeverAheadOfParcels` |
| | LedgerIsImplemented | `ImplementsLedger` |
| `Dispatch_proofs` | TypeCorrect | `[]TypeOK` |
| | DeparturesAreLoaded | `[]NeverDepartsEmpty` |
| | ClaimsLast | `ClaimedOnce` |
| | ItemsAreTheParcels | `[]LoadedMeansOnTheRoad`, if Frozen |
| | CountsAreRight | `[]InTransitMeansLoaded`, if Frozen |
| | ManifestsAdvance | `ManifestStepAllowed`, if Frozen |
| `Billing_proofs` | TypeCorrect | `[]TypeOK` |
| | MoneyIsAccounted | `[]StatusIsTheMoney` |
| | RemainderCanBePaid | `[]RemainderIsAccepted` |
| | AccountIsImplemented | `ImplementsAccount` |
| | NumbersHaveNoGap | `[]Gapless` |
| `ShipmentRequest_proofs` | TypeCorrect | `[]TypeOK` |
| | AgreementIsOne | `[]OneAgreement` |
| | AgreementIsPriced | `[]AgreementHasPrice` |
| | AgreementComesFirst | `[]NothingWithoutAgreement` |
| `Road_proofs` | PositionsAreInOnePlace | `[]InOnePlace` |
| | PositionsAreItsDrivers | `[]OnlyItsDriver` |
| | TrackingTypeCorrect | `[]TrackingTypeOK` |
| | TripsOffTheRoadStaySilent | `SilentUntilStarted`: while a trip is off the road nothing comes to trust it anew |
| | RoomsTypeCorrect | `[]RoomsTypeOK` |
| | RevokedStayOut | `OutsideUntilVisible`: who may not see a trip, is not found to drive it and is out of its room stays out |
| | RegisterTypeCorrect | `[]VehiclesTypeOK` |
| | DriversAreExclusive | `[]OneDriverOneVehicle` |
| `Access_proofs` | SessionsTypeCorrect | `[]SessionsTypeOK` |
| | TokensNeverFork | `[]LinesNeverFork` |
| | AccessTypeCorrect | `[]AccessTypeOK` |
| | PassesAreGiven | `[]PassesWithGivenRoles` |
| `Platform_proofs` | ListingsTypeCorrect | `[]ListingsTypeOK` |
| | PagesCover | `[]PagesCoverWhatStays` |
| | QuietListsAreWhole | `[]QuietListIsReadWhole` |
| | TenancyTypeCorrect | `[]TenancyTypeOK` |
| | OneIsActive | `[]OneActiveSubscription` |
| | UnitsStayWithinLimit | `[]UnitsWithinLimit` |
| | SeedingTypeCorrect | `[]SeedingTypeOK` |
| | FinishedRunsAreComplete | `[]SeedsWhatItLists` |
| `Kept_proofs` | PicturesAreKept | `[]PictureIsThere` |
| | CodesTypeCorrect | `[]CodesTypeOK` |
| | LastMailedCounts | `[]LastMailedCodeCounts` |
| | CacheTypeCorrect | `[]TypeOK` |
| | StaleIsExcused | `[]StaleNeedsAnExcuse` |
| | AnswersAreWhole | `[]EveryRowIsAnswered` |

- **Shipments** (`ShipmentInv`). A transaction that read version v of a shipment and plans a status read a row which,
  if the version is still v, is the row of the table; and two transactions that passed the guard are never about
  the same shipment, since one holds the row. So the status written is a successor of the status replaced. How parcels
  came by their statuses does not enter the argument, so the bulk update cannot disturb it.
- **Shipments and invoices** (`InvoiceInv`). A transaction holds the invoice row from the moment it looked at it, and
  the one that cancels a shipment voids its invoice; so both are cancelled by one commit, or neither.
- **Parcels** (`ParcelInv`, `HandoverInv`). A matching version makes what a transaction saw the row it replaces, so the
  chain of movements grows by one true edge; a dispatch adds an edge to READY_FOR_DISPATCH, and when that is not from
  the row's status it is exactly `WrittenOver`. What a handover found paid stays paid, and a collected parcel stays so or
  was written over.
- **Shipments after parcels** (`AheadInv`). What a plan was derived from is a set of statuses that parcels only go on
  from, unless a dispatch takes them back, and that is in their movements ever after; so a plan that was supported when
  it was made is supported when it commits, however late.
- **The ledger** (`LedgerIsImplemented`). A commit of a versioned command writes rows which are still as they were read;
  it is one entry of the ledger, whose guards are the rules the transaction applied. A commit of a dispatch is the
  ledger's `Dispatch`, whatever the row says, and every other step is a stutter.
- **Invoices** (`BillingInv`: types, rows, transactions, and transactions apart). A row's status agrees with its
  money. The sum of payments is read after the invoice, so it may be newer than the invoice; but then the version
  is newer too, and the guard fails. If the guard passes, no payment was committed since the invoice was read, so the
  sum is the one that belongs to it. Between guard and commit the row lock (`ApartInv`) keeps all others out, the
  sweep included.
- **Invoice numbers** (`NumbersInv`): the counter is the number of invoices, and their numbers are those up to it. An
  issuing transaction has held the counter row since it took its number, so the number is still the next one.
- **Trips and manifests** (`DispatchInv`: types, `ClaimsSeen`, `NeverDepartsEmpty`). Nothing carries a version, so what
  a command read may be false when it writes. Claims only grow: linkToTrip takes unclaimed manifests and nothing
  unlinks one. So the manifest that a scan found on a trip, and the one that startTrip counted, is still there at the
  commit, which is all that `ClaimsSeen` says of open commands.
- **Frozen lists** (`FrozenInv`). While nobody edits a list, items only leave PENDING_LOAD and manifests only go on, so
  what a scan counted of the other items stays true until it writes; its own item and parcel it holds by a row lock,
  as it read them (`Knows`). A parcel is on one list only (`OneList`), so its item is the only one that can carry it.
- **Requests** (`RequestInv`). Copies may be of any age, so the invariant says of a copy only what, once true, stays
  true: that a request past PENDING names a quotation, that a quotation read PENDING or APPROVED has its price. The
  two approvals of one request are kept apart by the lock on its row, and each rejects the other's quotation before
  it commits.
- **Positions** (`Placed`, `Vouched`). A position has one place at most, and one exactly when it was pushed: a drain
  empties the list it copies in one step, and a batch ends in one step too. Whoever is accepted, remembered or about to
  be was read as the driver of a trip on the road, and the history of drivers only grows.
- **Ended trips, revoked clients.** Trust in a trip comes from a read of it on the road, or passes from a handler that
  read to the memory of its server; a trip off the road gets none anew. A socket enters a room by a grant, which is what
  the filter answered of what was asked, or as the driver that the check found. These are the safety halves of
  `EndedTripFallsSilent` and `RevokedClientLeaves`: that the last trust and the last room go is liveness.
- **Vehicles.** The checks before the write are worth nothing to the argument: the partial indexes admit a row only
  if no active one shares its vehicle or driver, and that is inductive with the types.
- **Sessions** (`OnePlace`). A line is in one place: with nobody, in one live row, or with the one request whose delete
  found that row and which will open the next. Two requests may both have found it. Each login and each choice of a
  profile begins a line that no row and no request has, so how often a session token is used does not matter.
- **Guards** (`AccessInv`: types, `TablesInv`, `CachesInv`, `RequestsInv`). What was ever given only grows, and every
  table, cached copy and half-read answer holds nothing else. So the age of a copy, and the order in which the two
  caches were read, do not matter to what a guard may let pass.
- **Lists by cursor.** A page speaks for the interval of ids from its cursor down to its last row (`Span`, `Covers`): it
  has every row in it that was in the list all along. Writes can only take rows out of what stayed, never add to it, so
  a page's promise does not age; and intervals of successive pages meet.
- **Lists by offset** (`OffsetInv`). A row that ties with no other has one number in every order the ties allow. A page
  that no write came after has the untied rows numbered from its offset on, and the count of the table as it is
  (`Current`); who has only read such pages of its own has seen of the untied rows exactly those numbered up to its
  offset. Pages that are another client's, or that a write came after, are left out of the promise, not of the model.
- **Subscriptions** (`SubscriptionsInv`: `AloneInv`, `OrderInv`, `LastInv`). Ids are used in order, and of the committed
  rows only the latest may be active. A command that replaces holds all active rows and the last id; one that resumes
  has found the latest. A command that fails half way can only have taken activity away.
- **Units** (`GrantedInv`, `UnitsInv`). Whatever limit a clerk holds, or a cache has, is within what was ever granted. The
  units and the clerks who have counted and will insert are together at most that limit, a unit for each clerk but
  one, and the retyped: a clerk who counts fewer than the limit adds itself to at most all the others.
- **Seeding** (`SeedingInv`: `PromisesInv`, `TripsInv`, `DriversInv`). A seeder that a run has behind it has kept its
  promise, the rows of its list, unless somebody truncated since. What it looks up was promised by a seeder that comes
  before it in the order, and that each name a list refers to is in the list it means is shown entry by entry.
- **Codes** (`CodesInv`: types, `IssuedInv`, `ReliesInv`, `MailingInv`, `SettledInv`). While a purpose is sure, what a
  request about it has read or kept is what Redis holds (`ReliesInv`), so what it puts back after a refused mail, or a
  wrong guess, is what it took; and one code at most is between Redis and the mail server (`MailingInv`). Either the entry
  has the code mailed last or the request that will make it so is open. A write that fails, is late or crosses another
  makes the purpose unsure in the same step, and only a new flow's write, or a deletion, of a request that is alone makes
  it sure again.
- **Caches** (`CacheInv`: types, `CallsInv`, `StaleInv`). Of a call: what it will answer has each row that was there
  since the request began, or a null was found for it, and only calls that take a null for a hit find one (`NullsInv`).
  Of a copy: what a call has loaded and not stored is the row's version, or the call was
  overtaken; a key that a SCAN missed holds nothing old; two commands under way are about different rows (`ApartInv`).
- **Pictures** (`SavedInv`, `DeletesInv`). A key is recorded by the one upload that made it. A key that may be deleted
  was read from the row, or never reached it, and comes back to it in neither case.

The bounds of the instances (`MaxSubs`, `MaxUnits`, `MaxRow`, `MaxVersion`, `MaxLate`, `MaxChanges` and the like) are
constants of the theorems too, any natural numbers, and those that count rows or ids not zero. The other assumptions
say what every instance has: a unit, a row, a type of unit, finitely many clerks, at least one of them, a permission that
a command needs, no unit that is a role, and a mark of a missing key that is no version.

Model-checked only: the liveness properties `DueIsNoticed`, `StaleCopyGoes`, `EndedTripFallsSilent`, `BufferIsFlushed`,
`RevokedClientLeaves` and `GuardsCatchUp`. They rest on fairness, hence on ENABLED, which is out of the prover's reach.
All the other properties of the passing runs, invariants and action properties, are proved, three of them under Frozen.

## 6. Not modelled

- Conditions on rows, capabilities and the tenant of a caller: apart from Access, every caller may call every command,
  so what is shown holds under any policy. Tenants share no rows of the modelled tables.
- Prices of zones: arithmetic inside one request. Prices enter as set or not set, totals as constants.
- Single-row writes of names, addresses, settings and plans, guarded by unique columns at most; changePassword.
- A process that dies between keeping a code and mailing it. A mail whose confirmation is lost counts as not sent, and a
  commit whose answer is lost as refused.
- A second message of a socket while the first one waits for its query; a second batch in one server.
- Patterns of cache keys, list builders and push topics.
- Notifications, statistics, labels, health, observability: they keep no state that a modelled command reads.
- Generated Prisma and Kysely types, controllers, DTOs and mappers: declarations, without state or control.
- The Flutter application and nginx: clients, present as the choice of the next command.

## 7. What is left

1. One parcel table under `CustomerShipment` and `Dispatch` together, with the bulk dispatch between them. Each has
   the other's half of a parcel today, and their joint state space needs smaller detailed modules than these.
2. The safety half of the other liveness properties as theorems, as `Road_proofs` has it of trips and rooms: what keeps
   the guards' caches and the copy of a request right once they have caught up, and what stays of an invoice's notice.
3. Crossing requests about one address, once the code says which of the two should win.
