-------------------------------- MODULE Access --------------------------------
(***************************************************************************)
(* What an employee may do: assignments to organization units, the roles   *)
(* of each, the permissions of each role, and the guards that read all     *)
(* three through two caches on every request.                              *)
(*                                                                         *)
(*   request: idle --Asks--> loaded --Fill--> known --ReadsRoles-->        *)
(*              read --FillRoles--> granted --Decide--> idle               *)
(*   command: idle --BeginReplace--> reading --DeleteSeen--> deleted       *)
(*              --CommitReplace--> evicting --Evict--> idle                *)
(*                                                                         *)
(* Two modules write employees.  Commands of employee2 evict the keys that *)
(* begin with `employee:`, the principal's among them; those of employee   *)
(* evict other keys, and leave the principal to expire.                    *)
(***************************************************************************)
EXTENDS Naturals, FiniteSets

CONSTANTS
  Unit,            \* organization units; the employee has at most one assignment to each
  Desk,            \* those with an active branch or warehouse at or beneath them
  Role, Permission,
  Needed,          \* what the endpoint requires
  Request,         \* requests in flight
  Clerk,           \* administrators' commands in flight
  MaxChanges       \* bound: commands that change a row

ASSUME UnitAssumption == Unit # {} /\ Unit \cap Role = {}
ASSUME DeskAssumption == Desk \subseteq Unit
ASSUME NeededAssumption == Needed \subseteq Permission /\ Needed # {}
ASSUME ChangesAssumption == MaxChanges \in Nat

VARIABLES
  employee,        \* table employee: is the row there, and active
  assigned,        \* table employee_assignment
  roles,           \* table role
  lists,           \* assignment_role and role_permission: the rows of each owner
  principalCache,  \* Redis employee:principal: no entry, or one list of rows
  roleCache,       \* Redis roles:details: for each role, no entry or one list
  requests, edits,
  changes,         \* commands that have changed a row
  given            \* history: what the tables have ever said

accessVars == <<employee, assigned, roles, lists, principalCache, roleCache,
                requests, edits, changes, given>>
accessTables == <<employee, assigned, roles, lists>>

-----------------------------------------------------------------------------
(* Rows, requests and commands *)

Owner == Unit \cup Role

Entry(o) == IF o \in Unit THEN Role ELSE Permission

RequestState == [stage: {"idle", "loaded", "known", "read", "granted"},
                 rows: SUBSET (Unit \X Role), grants: [Role -> SUBSET Permission],
                 loaded: SUBSET Role]

NoCall == [stage |-> "idle", rows |-> {}, grants |-> [r \in Role |-> {}], loaded |-> {}]

EditState == [stage: {"idle", "counted", "reading", "deleted", "evicting"}, owner: Owner,
              seen: SUBSET (Role \cup Permission), list: SUBSET (Role \cup Permission),
              evicts: {"none", "principal", "roles"}]

NoEdit == [stage |-> "idle", owner |-> CHOOSE u \in Unit : TRUE, seen |-> {}, list |-> {},
           evicts |-> "none"]

RowsOfAnyone == {row \in assigned \X Role : row[2] \in lists[row[1]]}

\* getEmployeeAssignmentsWithRoles: the roles of the active employee's assignments.
AssignmentRows ==
  {row \in assigned \X Role : employee = "active" /\ row[2] \in lists[row[1]]}

GrantsOf(rows, grants) ==
  UNION {grants[row[2]] : row \in {x \in rows : x[1] \in Desk}}

\* PermissionsGuard: every permission is in the role of some branch or warehouse.
MayPass(q) == Needed \subseteq GrantsOf(q.rows, q.grants)

There == {r \in Role : roles[r] = "there"}

AccessInit ==
  /\ employee \in {"none", "active"}
  /\ assigned = {}
  /\ roles = [r \in Role |-> "new"]
  /\ lists = [o \in Owner |-> {}]
  /\ principalCache = {}
  /\ roleCache = [r \in Role |-> {}]
  /\ requests = [q \in Request |-> NoCall]
  /\ edits = [k \in Clerk |-> NoEdit]
  /\ changes = 0
  /\ given = [roles |-> {}, permissions |-> {}]

-----------------------------------------------------------------------------
(* A request and its guards *)

Step(q, stage, call) == requests[q].stage = stage /\ requests' = [requests EXCEPT ![q] = call]

\* GlobalAuthGuard asks for the principal: the cached rows, or a query.
Asks(q) ==
  /\ \/ \E rows \in principalCache :
          Step(q, "idle", [NoCall EXCEPT !.stage = "known", !.rows = rows])
     \/ /\ principalCache = {}
        /\ Step(q, "idle", [NoCall EXCEPT !.stage = "loaded", !.rows = AssignmentRows])
  /\ UNCHANGED <<accessTables, principalCache, roleCache, edits, changes>>

\* An empty list is stored too, and keeps a new employee out until it expires.
Fill(q) ==
  /\ Step(q, "loaded", [requests[q] EXCEPT !.stage = "known"])
  /\ principalCache' = {requests[q].rows}
  /\ UNCHANGED <<accessTables, roleCache, edits, changes>>

RolesOf(call) == {row[2] : row \in call.rows}

\* getRolesWithPermissions: the cached roles, and a query for the others.
ReadsRoles(q) ==
  LET call    == requests[q]
      missed  == {r \in RolesOf(call) : roleCache[r] = {}}
      grants  == [r \in Role |-> CASE r \in RolesOf(call) \ missed -> UNION roleCache[r]
                                   [] r \in missed \cap There      -> lists[r]
                                   [] OTHER                        -> {}]
  IN  /\ call.rows # {}
      /\ Step(q, "known", [call EXCEPT !.stage = IF missed = {} THEN "granted" ELSE "read",
                                       !.grants = grants, !.loaded = missed \cap There])
      /\ UNCHANGED <<accessTables, principalCache, roleCache, edits, changes>>

\* rememberMany stores the roles that the query returned.
FillRoles(q) ==
  /\ Step(q, "read", [requests[q] EXCEPT !.stage = "granted"])
  /\ roleCache' = [r \in Role |-> IF r \in requests[q].loaded THEN {requests[q].grants[r]}
                                  ELSE roleCache[r]]
  /\ UNCHANGED <<accessTables, principalCache, edits, changes>>

\* Unauthorized without assignments; else the guard lets it pass, or forbids it.
Ends(q) ==
  /\ \/ Step(q, "granted", NoCall)
     \/ requests[q].rows = {} /\ Step(q, "known", NoCall)
  /\ UNCHANGED <<accessTables, principalCache, roleCache, edits, changes>>

StaysForever == principalCache # {} /\ UNCHANGED accessVars

PrincipalExpires ==
  /\ principalCache # {}
  /\ principalCache' = {}
  /\ UNCHANGED <<accessTables, roleCache, requests, edits, changes>>

RoleExpires(r) ==
  /\ roleCache[r] # {}
  /\ roleCache' = [roleCache EXCEPT ![r] = {}]
  /\ UNCHANGED <<accessTables, principalCache, requests, edits, changes>>

-----------------------------------------------------------------------------
(* Commands *)

\* One more committed change, and the caches its decorator will evict.
Commits(k, evicts) ==
  /\ changes < MaxChanges
  /\ changes' = changes + 1
  /\ edits' = [edits EXCEPT ![k] = IF evicts = "none" THEN NoEdit
                                   ELSE [NoEdit EXCEPT !.stage = "evicting", !.evicts = evicts]]
  /\ UNCHANGED <<principalCache, roleCache, requests>>

Free(k) == edits[k].stage = "idle"

\* Rows an open transaction has deleted are locked until it ends.
Locked(o) == {e \in Entry(o) : \E k \in Clerk :
                edits[k].stage = "deleted" /\ edits[k].owner = o /\ e \in edits[k].seen}

InsertsInto(o) == \E k \in Clerk : edits[k].stage = "deleted" /\ edits[k].owner = o

\* A new employee, with assignments or without.
NewEmployee(units) == \E list \in SUBSET There :
  /\ employee = "none"
  /\ employee' = "active"
  /\ assigned' = units
  /\ lists' = [o \in Owner |-> IF o \in units THEN list ELSE lists[o]]
  /\ UNCHANGED roles

Hire(k) == \E units \in SUBSET Unit :
  /\ Free(k) /\ Cardinality(units) <= 1
  /\ NewEmployee(units)
  /\ Commits(k, "none")

\* create of employee2 may give it several assignments.
Hire2(k) == \E units \in SUBSET Unit :
  /\ Free(k) /\ NewEmployee(units)
  /\ Commits(k, "principal")

SetsActive ==
  /\ employee \in {"active", "inactive"}
  /\ employee' \in {"active", "inactive"} \ {employee}
  /\ UNCHANGED <<assigned, roles, lists>>

\* activateEmployee, deactivateEmployee: the keys they delete hold no principal.
SetActive(k) == Free(k) /\ SetsActive /\ Commits(k, "none")

SetActive2(k) == Free(k) /\ SetsActive /\ Commits(k, "principal")

\* delete of employee2: the assignments go with the row.
DeleteEmployee(k) ==
  /\ Free(k) /\ employee \in {"active", "inactive"}
  /\ \A u \in Unit : ~InsertsInto(u)
  /\ employee' = "gone"
  /\ assigned' = {}
  /\ lists' = [o \in Owner |-> IF o \in Unit THEN {} ELSE lists[o]]
  /\ Commits(k, "principal")
  /\ UNCHANGED roles

\* New assignments; a unit the employee has already is refused.
NewAssignments(units) == \E list \in SUBSET There :
  /\ employee \in {"active", "inactive"}
  /\ units \cap assigned = {}
  /\ assigned' = assigned \cup units
  /\ lists' = [o \in Owner |-> IF o \in units THEN list ELSE lists[o]]
  /\ UNCHANGED <<employee, roles>>

AssignEmployee(k) == \E u \in Unit :
  Free(k) /\ NewAssignments({u}) /\ Commits(k, "none")

AddAssignments(k) == \E units \in SUBSET Unit \ {{}} :
  Free(k) /\ NewAssignments(units) /\ Commits(k, "principal")

\* The roles of the assignment go with it.
Unassign == \E u \in assigned :
  /\ ~InsertsInto(u)
  /\ assigned' = assigned \ {u}
  /\ lists' = [lists EXCEPT ![u] = {}]
  /\ UNCHANGED <<employee, roles>>

RemoveAssignment(k) == Free(k) /\ Unassign /\ Commits(k, "none")

RemoveAssignment2(k) == Free(k) /\ Unassign /\ Commits(k, "principal")

\* createRole; only the lists of roles are evicted.
CreateRole(k) == \E r \in Role, list \in SUBSET Permission :
  /\ Free(k) /\ roles[r] = "new"
  /\ roles' = [roles EXCEPT ![r] = "there"]
  /\ lists' = [lists EXCEPT ![r] = list]
  /\ Commits(k, "none")
  /\ UNCHANGED <<employee, assigned>>

\* updateRole: no guard reads the name, nor whether the role is active.
UpdateRole(k) ==
  /\ Free(k) /\ There # {}
  /\ Commits(k, "roles")
  /\ UNCHANGED accessTables

\* deleteRole counts the assignments, and deletes by a second statement:
\* the role leaves the assignments that were given it in between.
CountAssignments(k) == \E r \in There :
  /\ Free(k)
  /\ \A u \in Unit : r \notin lists[u]
  /\ edits' = [edits EXCEPT ![k] = [NoEdit EXCEPT !.stage = "counted", !.owner = r]]
  /\ UNCHANGED <<accessTables, principalCache, roleCache, requests, changes>>

DeleteRole(k) ==
  LET r == edits[k].owner IN
  /\ edits[k].stage = "counted" /\ r \in There /\ ~InsertsInto(r)
  /\ roles' = [roles EXCEPT ![r] = "gone"]
  /\ lists' = [o \in Owner |-> IF o = r THEN {} ELSE lists[o] \ {r}]
  /\ Commits(k, "roles")
  /\ UNCHANGED <<employee, assigned>>

-----------------------------------------------------------------------------
(* setAssignmentRoles and setRolePermissions, each in its transaction *)

BeginReplace(k) == \E o \in assigned \cup There :
  \E list \in SUBSET (IF o \in Unit THEN There ELSE Permission) :
    /\ Free(k)
    /\ edits' = [edits EXCEPT ![k] = [NoEdit EXCEPT !.stage = "reading", !.owner = o,
                                        !.seen = lists[o], !.list = list]]
    /\ UNCHANGED <<accessTables, principalCache, roleCache, requests, changes>>

\* deleteMany waits for the rows others hold, and deletes those still there.
DeleteSeen(k) ==
  LET o == edits[k].owner IN
  /\ edits[k].stage = "reading"
  /\ edits[k].seen \cap Locked(o) = {}
  /\ edits' = [edits EXCEPT ![k].stage = "deleted", ![k].seen = @ \cap lists[o]]
  /\ UNCHANGED <<accessTables, principalCache, roleCache, requests, changes>>

\* The entries that another replacement committed meanwhile are not among
\* those it deleted: they stay beside its own.
CommitReplace(k) ==
  LET e == edits[k] IN
  /\ e.stage = "deleted"
  /\ e.owner \in assigned \cup There
  /\ e.list \cap Role \subseteq There
  /\ lists' = [lists EXCEPT ![e.owner] = (@ \ e.seen) \cup e.list]
  /\ changes < MaxChanges
  /\ changes' = changes + 1
  /\ \E evicts \in IF e.owner \in Unit THEN {"none", "principal"} ELSE {"roles"} :
       edits' = [x \in Clerk |->
         CASE x = k -> IF evicts = "none" THEN NoEdit
                       ELSE [NoEdit EXCEPT !.stage = "evicting", !.evicts = evicts]
           [] x # k /\ edits[x].stage = "reading" /\ edits[x].owner = e.owner ->
                [edits[x] EXCEPT !.seen = @ \ e.seen]
           [] OTHER -> edits[x]]
  /\ UNCHANGED <<employee, assigned, roles, principalCache, roleCache, requests>>

\* The command fails or its process ends: its transaction rolls back.
Abandon(k) ==
  /\ edits[k].stage \in {"counted", "reading", "deleted"}
  /\ edits' = [edits EXCEPT ![k] = NoEdit]
  /\ UNCHANGED <<accessTables, principalCache, roleCache, requests, changes>>

\* CacheEvict, after the commit; a failure is logged and no more.
Evict(k) ==
  LET which == edits[k].evicts IN
  /\ edits[k].stage = "evicting"
  /\ edits' = [edits EXCEPT ![k] = NoEdit]
  /\ \/ /\ principalCache' = IF which = "principal" THEN {} ELSE principalCache
        /\ roleCache' = IF which = "roles" THEN [r \in Role |-> {}] ELSE roleCache
     \/ UNCHANGED <<principalCache, roleCache>>
  /\ UNCHANGED <<accessTables, requests, changes>>

-----------------------------------------------------------------------------
(* The system *)

Remember == given' =
  [roles |-> given.roles \cup
     {r \in Role : employee' = "active" /\ \E u \in assigned' \cap Desk : r \in lists'[u]},
   permissions |-> given.permissions \cup UNION {{r} \X lists[r] : r \in Role}']

\* What a client can ask for, besides a list of roles or permissions in the
\* place of another, which each of the three has.
EmployeeController(k) ==
  \/ Hire(k) \/ SetActive(k) \/ AssignEmployee(k) \/ RemoveAssignment(k)

Employee2Controller(k) ==
  \/ Hire2(k) \/ SetActive2(k) \/ DeleteEmployee(k) \/ AddAssignments(k) \/ RemoveAssignment2(k)

RoleController(k) == CreateRole(k) \/ UpdateRole(k) \/ CountAssignments(k)

AccessMove ==
  \/ \E q \in Request : Asks(q) \/ Fill(q) \/ ReadsRoles(q) \/ FillRoles(q) \/ Ends(q)
  \/ PrincipalExpires
  \/ \E r \in Role : RoleExpires(r)
  \/ \E k \in Clerk :
       \/ EmployeeController(k) \/ Employee2Controller(k) \/ RoleController(k)
       \/ DeleteRole(k) \/ BeginReplace(k) \/ DeleteSeen(k) \/ CommitReplace(k)
       \/ Abandon(k) \/ Evict(k)

AccessNext == AccessMove /\ Remember

\* A cached value has a lifetime, and a request that has begun goes on.
AccessFairness ==
  /\ WF_accessVars(PrincipalExpires /\ Remember)
  /\ \A r \in Role : WF_accessVars(RoleExpires(r) /\ Remember)
  /\ \A q \in Request :
       WF_accessVars((Fill(q) \/ ReadsRoles(q) \/ FillRoles(q) \/ Ends(q)) /\ Remember)

AccessSpec == AccessInit /\ [][AccessNext]_accessVars /\ AccessFairness

-----------------------------------------------------------------------------
(* Properties *)

AccessTypeOK ==
  /\ employee \in {"none", "active", "inactive", "gone"}
  /\ assigned \subseteq Unit
  /\ roles \in [Role -> {"new", "there", "gone"}]
  /\ \A o \in Owner : lists[o] \subseteq Entry(o)
  /\ principalCache \subseteq SUBSET (Unit \X Role)
  /\ roleCache \in [Role -> SUBSET SUBSET Permission]
  /\ requests \in [Request -> RequestState]
  /\ edits \in [Clerk -> EditState]
  /\ changes \in 0 .. MaxChanges
  /\ given.roles \subseteq Role /\ given.permissions \subseteq Role \X Permission

\* Rows and caches are read at different times and changed in between, yet a
\* request passes only with permissions of a role that the employee had, and
\* that had them, at some time.
PassesWithGivenRoles ==
  \A q \in Request : requests[q].stage = "granted" /\ MayPass(requests[q]) =>
    \A p \in Needed : \E r \in given.roles : <<r, p>> \in given.permissions

\* Whatever order loads, evictions that fail and expiry come in: once the
\* rows are left alone, the guards come to believe what they say, and go on.
GuardsCatchUp ==
  <>[](/\ principalCache \subseteq {AssignmentRows}
       /\ \A r \in Role : roleCache[r] \subseteq {lists[r]})
=============================================================================
