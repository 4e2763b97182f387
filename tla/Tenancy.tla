------------------------------- MODULE Tenancy --------------------------------
(***************************************************************************)
(* One tenant: the company, its subscriptions, and the organization units  *)
(* the active subscription allows it.  A manager's command reads committed *)
(* rows and writes by id in a later statement; only the assignment of a    *)
(* plan is one transaction.  A clerk who opens a unit reads the limit from *)
(* a cached subscription, counts the units, and then inserts.              *)
(*                                                                         *)
(*   manager  idle --Assign--> replacing --Commit--> idle                  *)
(*            idle --Suspend | Resume | Cancel--> found --WriteStatus--> written --Record--> idle *)
(*   clerk    idle --OpenUnit--> asked [--LoadLimit--> loaded] --> limited *)
(*            --Count--> counted --Insert--> idle                          *)
(***************************************************************************)
EXTENDS Integers, FiniteSets

CONSTANTS
  Manager,  \* concurrent requests about the company and its subscription
  Clerk,    \* concurrent requests about its organization units
  MaxSubs,  \* bound: subscriptions, their ids in creation order
  MaxUnits, \* bound: units of one type
  OrgType,  \* the types of units a subscription limits
  PlanRows     \* subscription_plan rows: a limit for each type, -1 for none

PlanLimit == -1 .. MaxUnits

ASSUME TenancyBounds == MaxSubs \in Nat \ {0} /\ MaxUnits \in Nat /\ OrgType # {}
ASSUME PlanAssumption == PlanRows \subseteq [OrgType -> -1 .. MaxUnits]
ASSUME ClerkAssumption == IsFiniteSet(Clerk) /\ Clerk # {}

VARIABLES
  company,   \* table tenant, with the settings and the owner made with it
  subs,      \* table tenant_subscription: status, snapshot of the plan
  command,   \* per manager: the command it is in, the rows it found
  limits,    \* Redis: the limits of the active subscription, if they are kept
  units,     \* table organization_unit: how many there are of each type
  opening,   \* per clerk: how far the new unit is, what it read
  overlapped,\* whether two managers' commands were ever open together
  granted,   \* the highest limit that ever was active for a type
  retyped    \* how often update turned a unit into one of this type

tenancyVars == <<company, subs, command, limits, units, opening, overlapped, granted, retyped>>
subscriptionVars == <<company, subs, command, overlapped, granted>>
unitVars == <<units, opening, retyped>>

-----------------------------------------------------------------------------
(* Rows *)

Sub == 1 .. MaxSubs

Status == {"none", "uncommitted", "ACTIVE", "SUSPENDED", "CANCELLED"}

Subscription == [status: Status, max: [OrgType -> PlanLimit]]

Command == [step: {"idle", "replacing", "found", "written"}, to: Status,
            sub: Sub, replaces: SUBSET Sub]

NoCommand == [step |-> "idle", to |-> "none", sub |-> 1, replaces |-> {}]

Opening == [step: {"idle", "asked", "loaded", "limited", "counted"}, type: OrgType, max: PlanLimit,
            load: SUBSET [OrgType -> PlanLimit]]

NoOpening == [step |-> "idle", type |-> CHOOSE t \in OrgType : TRUE, max |-> 0, load |-> {}]

Committed == {s \in Sub : subs[s].status \in {"ACTIVE", "SUSPENDED", "CANCELLED"}}

ActiveSubs == {s \in Sub : subs[s].status = "ACTIVE"}

Latest(S) == {s \in S : \A o \in S : o <= s}

\* findActiveSubscription: the limits of the latest active one, if there is one.
ActiveLimits == {subs[s].max : s \in Latest(ActiveSubs)}

\* Rows an open transaction has updated.
Locked == UNION {command[m].replaces : m \in {n \in Manager : command[n].step = "replacing"}}

Higher(a, b) == IF a = -1 \/ b = -1 THEN -1 ELSE IF a < b THEN b ELSE a

TenancyInit ==
  /\ company = "none"
  /\ subs \in [Sub -> [status: {"none"}, max: {[t \in OrgType |-> 0]}]]
  /\ command = [m \in Manager |-> NoCommand]
  /\ limits = {}
  /\ units = [t \in OrgType |-> 0]
  /\ opening = [c \in Clerk |-> NoOpening]
  /\ overlapped = FALSE
  /\ granted = [t \in OrgType |-> 0]
  /\ retyped = [t \in OrgType |-> 0]

-----------------------------------------------------------------------------
(* The company *)

\* One transaction: the tenant, its three settings rows, its owner.
CreateTenant ==
  /\ company = "none"
  /\ company' = "ACTIVE"
  /\ UNCHANGED <<subs, command, limits, overlapped, granted, unitVars>>

\* suspendTenant, activateTenant: no command about subscriptions asks for it.
SetTenantStatus == \E status \in {"ACTIVE", "SUSPENDED"} :
  /\ company # "none"
  /\ company' = status
  /\ UNCHANGED <<subs, command, limits, overlapped, granted, unitVars>>

-----------------------------------------------------------------------------
(* Subscriptions *)

Opens(m, c) ==
  /\ company # "none"
  /\ command[m].step = "idle"
  /\ command' = [command EXCEPT ![m] = c]
  /\ overlapped' = (overlapped \/ \E n \in Manager \ {m} : command[n].step # "idle")

Closes(m) == command' = [command EXCEPT ![m] = NoCommand]

\* assignSubscription up to its insert: every active row is cancelled, after
\* a wait for the rows another assignment has updated.
Assign(m) == \E s \in Sub, plan \in PlanRows :
  /\ subs[s].status = "none" /\ \A o \in 1 .. s - 1 : subs[o].status # "none"
  /\ ActiveSubs \cap Locked = {}
  /\ Opens(m, [step |-> "replacing", to |-> "ACTIVE", sub |-> s, replaces |-> ActiveSubs])
  /\ subs' = [subs EXCEPT ![s] = [status |-> "uncommitted", max |-> plan]]
  /\ UNCHANGED <<company, limits, granted, unitVars>>

\* CacheEvict is inside the transaction: the cached subscription goes first.
EvictInside(m) ==
  /\ command[m].step = "replacing"
  /\ limits # {}
  /\ limits' = {}
  /\ UNCHANGED <<subscriptionVars, unitVars>>

CommitAssign(m) ==
  /\ command[m].step = "replacing"
  /\ subs' = [s \in Sub |->
       IF s = command[m].sub THEN [subs[s] EXCEPT !.status = "ACTIVE"]
       ELSE IF s \in command[m].replaces THEN [subs[s] EXCEPT !.status = "CANCELLED"]
       ELSE subs[s]]
  /\ granted' = [t \in OrgType |-> Higher(granted[t], subs[command[m].sub].max[t])]
  /\ Closes(m)
  /\ UNCHANGED <<company, limits, overlapped, unitVars>>

\* A failed statement, or a crash: the transaction leaves nothing.
RollBackAssign(m) ==
  /\ command[m].step = "replacing"
  /\ subs' = [subs EXCEPT ![command[m].sub] = [status |-> "none", max |-> [t \in OrgType |-> 0]]]
  /\ Closes(m)
  /\ UNCHANGED <<company, limits, overlapped, granted, unitVars>>

Finds(m, S, to) == \E s \in S :
  /\ Opens(m, [step |-> "found", to |-> to, sub |-> s, replaces |-> {}])
  /\ UNCHANGED <<company, subs, limits, granted, unitVars>>

Suspend(m) == Finds(m, Latest(ActiveSubs), "SUSPENDED")

ResumeAny(m) == Finds(m, {s \in Committed : subs[s].status = "SUSPENDED"}, "ACTIVE")

\* The latest subscription of all, and only if it is suspended.
Resume(m) == Finds(m, {s \in Latest(Committed) : subs[s].status = "SUSPENDED"}, "ACTIVE")

Cancel(m) == Finds(m, Latest(ActiveSubs), "CANCELLED")

\* By id, whatever the row has become.
WriteStatus(m) ==
  LET s == command[m].sub IN
  /\ command[m].step = "found"
  /\ s \notin Locked
  /\ subs' = [subs EXCEPT ![s].status = command[m].to]
  /\ command' = [command EXCEPT ![m].step = "written"]
  /\ UNCHANGED <<company, limits, overlapped, granted, unitVars>>

\* The history row is a statement of its own; the eviction comes after it.  A
\* crash between the two leaves the status without its history.
Record(m) ==
  /\ command[m].step = "written"
  /\ Closes(m)
  /\ limits' \in {{}, limits}
  /\ UNCHANGED <<company, subs, overlapped, granted, unitVars>>

LimitsExpire ==
  /\ limits # {}
  /\ limits' = {}
  /\ UNCHANGED <<subscriptionVars, unitVars>>

-----------------------------------------------------------------------------
(* Organization units *)

OpenUnit(c) == \E t \in OrgType :
  /\ opening[c].step = "idle"
  /\ opening' = [opening EXCEPT ![c] = [NoOpening EXCEPT !.step = "asked", !.type = t]]
  /\ UNCHANGED <<limits, units, retyped, subscriptionVars>>

\* getMaxBranchesAllowed, getMaxWarehousesAllowed.
LimitFrom(c, S) == IF S = {} THEN 0 ELSE (CHOOSE max \in S : TRUE)[opening[c].type]

CachedLimit(c) ==
  /\ opening[c].step = "asked"
  /\ limits # {}
  /\ opening' = [opening EXCEPT ![c].step = "limited", ![c].max = LimitFrom(c, limits)]
  /\ UNCHANGED <<limits, units, retyped, subscriptionVars>>

LoadLimit(c) ==
  /\ opening[c].step = "asked"
  /\ limits = {}
  /\ opening' = [opening EXCEPT ![c].step = "loaded", ![c].load = ActiveLimits]
  /\ UNCHANGED <<limits, units, retyped, subscriptionVars>>

\* What was loaded is kept, evicted since or not; that there is none is not.
KeepLimit(c) ==
  /\ opening[c].step = "loaded"
  /\ limits' = IF opening[c].load = {} THEN limits ELSE opening[c].load
  /\ opening' = [opening EXCEPT ![c].step = "limited", ![c].load = {},
                                ![c].max = LimitFrom(c, opening[c].load)]
  /\ UNCHANGED <<units, retyped, subscriptionVars>>

UpToLimit(c) == opening[c].max = -1 \/ units[opening[c].type] <= opening[c].max

\* -1 is no limit; a full type ends the request.
BelowLimit(c) == opening[c].max = -1 \/ units[opening[c].type] < opening[c].max

Count(c) ==
  /\ opening[c].step = "limited"
  /\ opening' = [opening EXCEPT ![c] = IF BelowLimit(c) THEN [@ EXCEPT !.step = "counted"]
                                       ELSE NoOpening]
  /\ UNCHANGED <<limits, units, retyped, subscriptionVars>>

InsertUnit(c) ==
  /\ opening[c].step = "counted"
  /\ units[opening[c].type] < MaxUnits
  /\ units' = [units EXCEPT ![opening[c].type] = @ + 1]
  /\ opening' = [opening EXCEPT ![c] = NoOpening]
  /\ UNCHANGED <<limits, retyped, subscriptionVars>>

\* The request fails on a location, a parent or a zone.
GivesUp(c) ==
  /\ opening[c].step = "counted"
  /\ opening' = [opening EXCEPT ![c] = NoOpening]
  /\ UNCHANGED <<limits, units, retyped, subscriptionVars>>

\* update may change the type of a unit, and asks for no limit.
UpdateUnit == \E from, to \in OrgType :
  /\ from # to
  /\ units[from] > 0 /\ units[to] < MaxUnits
  /\ units' = [units EXCEPT ![from] = @ - 1, ![to] = @ + 1]
  /\ retyped' = [retyped EXCEPT ![to] = IF @ < MaxUnits THEN @ + 1 ELSE @]
  /\ UNCHANGED <<limits, opening, subscriptionVars>>

\* What a client can ask for.
TenantController == CreateTenant \/ SetTenantStatus
SubscriptionController(m) == Assign(m) \/ Suspend(m) \/ Resume(m) \/ Cancel(m)
OrganizationUnitController == UpdateUnit \/ \E c \in Clerk : OpenUnit(c)

TenancyNext ==
  \/ TenantController \/ OrganizationUnitController \/ LimitsExpire
  \/ \E m \in Manager :
       \/ SubscriptionController(m)
       \/ EvictInside(m) \/ CommitAssign(m) \/ RollBackAssign(m) \/ WriteStatus(m) \/ Record(m)
  \/ \E c \in Clerk :
       \/ CachedLimit(c) \/ LoadLimit(c) \/ KeepLimit(c)
       \/ Count(c) \/ InsertUnit(c) \/ GivesUp(c)

TenancySpec == TenancyInit /\ [][TenancyNext]_tenancyVars

-----------------------------------------------------------------------------
(* Properties *)

TenancyTypeOK ==
  /\ company \in {"none", "ACTIVE", "SUSPENDED"}
  /\ subs \in [Sub -> Subscription]
  /\ command \in [Manager -> Command]
  /\ limits \in SUBSET [OrgType -> PlanLimit]
  /\ units \in [OrgType -> 0 .. MaxUnits]
  /\ opening \in [Clerk -> Opening]
  /\ overlapped \in BOOLEAN
  /\ granted \in [OrgType -> PlanLimit]
  /\ retyped \in [OrgType -> 0 .. MaxUnits]

\* As long as commands about it were never open together, a tenant has one
\* active subscription at most: no order of assigning, suspending, resuming,
\* cancelling and failing half way leaves it two.
OneActiveSubscription == ~overlapped => Cardinality(ActiveSubs) <= 1

\* A tenant has more units of a type than a subscription ever allowed only by
\* requests that counted before another one inserted, one unit for each clerk
\* but the first, and by units whose type was changed: however old the cached
\* subscription is that said how many.
UnitsWithinLimit == \A t \in OrgType :
  granted[t] # -1 => units[t] <= granted[t] + Cardinality(Clerk) - 1 + retyped[t]
=============================================================================
