----------------------------- MODULE Access_proofs -----------------------------
(***************************************************************************)
(* What holds of sign-in for any lines, requests, users and number of    *)
(* sessions, and of the guards for any units, roles, permissions, requests *)
(* and administrators' commands.                                           *)
(*                                                                         *)
(* Sessions: a line of sessions is at one place at a time: its live row    *)
(* and the request that opens its next one exclude each other (OnePlace),  *)
(* and a line begins with neither, whatever token began it.  The           *)
(* delete carries the argument: of the requests that found one row, only   *)
(* the one that deletes it goes on to open the successor, and from then on *)
(* the row is not live.  The counts of LinesNeverFork follow at the end.   *)
(*                                                                         *)
(* Guards: `given` remembers each role that an active employee ever had at *)
(* a branch or warehouse, and each permission that a role ever had.  What  *)
(* the tables say now is in it (TablesInv), what a cache keeps was loaded  *)
(* from a table or from a request (CachesInv), and what a request has in   *)
(* hand was read from a cache or a table (RequestsInv); no step adds to    *)
(* one of them what was not in another, and nothing leaves `given`.        *)
(***************************************************************************)
EXTENDS Sessions, Access, FiniteSetTheorems, TLAPS

-----------------------------------------------------------------------------
(* Sessions: the inductive invariant *)

Opens(h, d) == handlers[h].stage = "opening" /\ handlers[h].line = d

\* A row is live only after it was made, and a request remembers the row it found.
RowsInv ==
  /\ \A i \in SessionId : sessions[i].live => sessions[i].made
  /\ \A h \in Handler : handlers[h].stage = "found" =>
       /\ sessions[handlers[h].session].made
       /\ sessions[handlers[h].session].line = handlers[h].line

\* A line has a live row, or one request that opens it, or neither.
OnePlace ==
  /\ \A i, j \in SessionId :
       sessions[i].live /\ sessions[j].live /\ sessions[i].line = sessions[j].line => i = j
  /\ \A h \in Handler, i \in SessionId :
       sessions[i].live => ~Opens(h, sessions[i].line)
  /\ \A h, g \in Handler, d \in Line : Opens(h, d) /\ Opens(g, d) => h = g

\* The inductive invariant.
SessionsInv == SessionsTypeOK /\ RowsInv /\ OnePlace

LEMMA NoRequestType == NoRequest \in HandlerState
<1>1. (CHOOSE l \in Line : TRUE) \in Line
  BY LineAssumption
<1>2. 1 \in SessionId
  BY SessionBound DEF SessionId
<1> QED
  BY <1>1, <1>2 DEF NoRequest, HandlerState, ProfileType

LEMMA OpeningType ==
  ASSUME NEW d \in Line, NEW p \in ProfileType
  PROVE  Opening(d, p) \in HandlerState
BY NoRequestType DEF Opening, HandlerState

LEMMA SessionsInitHolds == SessionsInit => SessionsInv
<1> SUFFICES ASSUME SessionsInit PROVE SessionsInv
  OBVIOUS
<1>1. (CHOOSE l \in Line : TRUE) \in Line
  BY LineAssumption
<1>2. SessionsTypeOK
  BY <1>1, NoRequestType DEF SessionsInit, SessionsTypeOK, Session, ProfileType
<1>3. \A h \in Handler : handlers[h].stage = "idle"
  BY DEF SessionsInit, NoRequest
<1>4. \A i \in SessionId : ~sessions[i].live
  BY DEF SessionsInit
<1> QED
  BY <1>2, <1>3, <1>4 DEF SessionsInv, RowsInv, OnePlace, Opens

\* A login, and the choice that follows one, begin a line that has nothing yet:
\* neither a row nor a request.
LEMMA BeginHolds ==
  ASSUME SessionsInv, NEW h \in Handler, NEW d \in Line, NEW p \in ProfileType,
         Serving(h, "idle"), ~Begun(d),
         Goes(h, Opening(d, p)), choosing' \in BOOLEAN,
         UNCHANGED <<user, sessions>>
  PROVE  SessionsInv'
<1>1. handlers' \in [Handler -> HandlerState]
  BY OpeningType DEF SessionsInv, SessionsTypeOK, Goes
<1>2. SessionsTypeOK'
  BY <1>1 DEF SessionsInv, SessionsTypeOK
<1>3. /\ handlers'[h].stage = "opening" /\ handlers'[h].line = d
      /\ \A g \in Handler : g # h => handlers'[g] = handlers[g]
  BY DEF SessionsInv, SessionsTypeOK, Goes, Opening, NoRequest
<1>4. RowsInv'
  BY <1>3 DEF SessionsInv, RowsInv
<1>5. /\ \A i \in SessionId : sessions[i].made => sessions[i].line # d
      /\ \A g \in Handler : handlers[g].stage # "idle" => handlers[g].line # d
  BY DEF Begun
<1>6. OnePlace'
  <2>2. ASSUME NEW g \in Handler, NEW i \in SessionId, sessions[i].live
        PROVE  ~Opens(g, sessions[i].line)'
    BY <1>3, <1>5, <2>2 DEF SessionsInv, OnePlace, RowsInv, Opens
  <2>3. ASSUME NEW g \in Handler, NEW k \in Handler, NEW e \in Line,
               Opens(g, e)', Opens(k, e)'
        PROVE  g = k
    BY <1>3, <1>5, <2>3 DEF SessionsInv, OnePlace, Opens
  <2> QED
    BY <2>2, <2>3 DEF SessionsInv, OnePlace, Opens
<1> QED
  BY <1>2, <1>4, <1>6 DEF SessionsInv

LEMMA LoginHolds ==
  ASSUME SessionsInv, NEW h \in Handler, NEW d \in Line, Login(h, d)
  PROVE  SessionsInv'
<1>1. CASE \E p \in ActiveProfiles : Goes(h, Opening(d, p)) /\ UNCHANGED choosing
  <2>1. PICK p \in ProfileType : Goes(h, Opening(d, p)) /\ UNCHANGED choosing
    BY <1>1 DEF ActiveProfiles
  <2>2. choosing' \in BOOLEAN
    BY <2>1 DEF SessionsInv, SessionsTypeOK
  <2> QED
    BY <2>1, <2>2, BeginHolds DEF Login
<1>2. CASE choosing' = TRUE /\ UNCHANGED handlers
  <2>1. UNCHANGED <<user, sessions, handlers>>
    BY <1>2 DEF Login
  <2> QED
    BY <1>2, <2>1 DEF SessionsInv, SessionsTypeOK, RowsInv, OnePlace, Opens
<1> QED
  BY <1>1, <1>2 DEF Login

LEMMA SelectProfileHolds ==
  ASSUME SessionsInv, NEW h \in Handler, NEW d \in Line, SelectProfile(h, d)
  PROVE  SessionsInv'
<1>1. PICK p \in ProfileType : Goes(h, Opening(d, p))
  BY DEF SelectProfile, ActiveProfiles
<1>2. choosing' \in BOOLEAN
  BY DEF SelectProfile, SessionsInv, SessionsTypeOK
<1> QED
  BY <1>1, <1>2, BeginHolds DEF SelectProfile

\* The request hands its place in the line to the new row.
LEMMA OpenHolds ==
  ASSUME SessionsInv, NEW h \in Handler, Open(h)
  PROVE  SessionsInv'
<1> DEFINE d == handlers[h].line
<1>1. PICK i \in SessionId :
        /\ ~sessions[i].made
        /\ sessions' = [sessions EXCEPT ![i] =
             [made |-> TRUE, live |-> TRUE, line |-> d, profile |-> handlers[h].profile]]
  BY DEF Open
<1>2. /\ handlers[h] \in HandlerState /\ Opens(h, d)
      /\ Goes(h, NoRequest) /\ UNCHANGED <<user, choosing>>
  BY DEF SessionsInv, SessionsTypeOK, Open, Serving, Opens
<1>3. d \in Line /\ handlers[h].profile \in ProfileType
  BY <1>2 DEF HandlerState
<1>4. sessions' \in [SessionId -> Session] /\ handlers' \in [Handler -> HandlerState]
  BY <1>1, <1>2, <1>3, NoRequestType DEF SessionsInv, SessionsTypeOK, Session, Goes
<1>5. SessionsTypeOK'
  BY <1>2, <1>4 DEF SessionsInv, SessionsTypeOK
<1>6. /\ sessions'[i].made /\ sessions'[i].live /\ sessions'[i].line = d
      /\ \A j \in SessionId : j # i => sessions'[j] = sessions[j]
  BY <1>1 DEF SessionsInv, SessionsTypeOK
<1>7. /\ handlers'[h].stage = "idle"
      /\ \A g \in Handler : g # h => handlers'[g] = handlers[g]
  BY <1>2 DEF SessionsInv, SessionsTypeOK, Goes, NoRequest
<1>8. RowsInv'
  <2>1. ASSUME NEW g \in Handler, handlers'[g].stage = "found"
        PROVE  /\ sessions'[handlers'[g].session].made
               /\ sessions'[handlers'[g].session].line = handlers'[g].line
    <3>1. g # h /\ handlers'[g] = handlers[g]
      BY <1>7, <2>1
    <3>2. handlers[g].session \in SessionId /\ sessions[handlers[g].session].made
      BY <2>1, <3>1 DEF SessionsInv, SessionsTypeOK, RowsInv, HandlerState
    <3>3. handlers[g].session # i
      BY <1>1, <3>2
    <3> QED
      BY <1>6, <2>1, <3>1, <3>2, <3>3 DEF SessionsInv, RowsInv
  <2> QED
    BY <1>6, <2>1 DEF SessionsInv, RowsInv
<1>9. OnePlace'
  <2>1. \A j \in SessionId : sessions[j].live => sessions[j].line # d
    BY <1>2 DEF SessionsInv, OnePlace
  <2>2. \A g \in Handler : g # h => ~Opens(g, d)
    BY <1>2, <1>3 DEF SessionsInv, OnePlace
  <2>4. ASSUME NEW j \in SessionId, NEW k \in SessionId, sessions'[j].live, sessions'[k].live,
               sessions'[j].line = sessions'[k].line
        PROVE  j = k
    BY <1>6, <2>1, <2>4 DEF SessionsInv, OnePlace
  <2>5. ASSUME NEW g \in Handler, NEW j \in SessionId, sessions'[j].live
        PROVE  ~Opens(g, sessions[j].line)'
    BY <1>6, <1>7, <2>2, <2>5 DEF SessionsInv, OnePlace, Opens
  <2>6. ASSUME NEW g \in Handler, NEW k \in Handler, NEW e \in Line,
               Opens(g, e)', Opens(k, e)'
        PROVE  g = k
    BY <1>7, <2>6 DEF SessionsInv, OnePlace, Opens
  <2> QED
    BY <2>4, <2>5, <2>6 DEF OnePlace
<1> QED
  BY <1>5, <1>8, <1>9 DEF SessionsInv

\* Any number of requests may find the row.
LEMMA RefreshHolds ==
  ASSUME SessionsInv, NEW h \in Handler, Refresh(h)
  PROVE  SessionsInv'
<1>1. PICK i \in SessionId :
        /\ sessions[i].live
        /\ Goes(h, [stage |-> "found", line |-> sessions[i].line,
                    profile |-> sessions[i].profile, session |-> i])
        /\ UNCHANGED <<user, sessions, choosing>>
  BY DEF Refresh
<1>2. sessions[i] \in Session /\ sessions[i].made
  BY <1>1 DEF SessionsInv, SessionsTypeOK, RowsInv
<1>3. handlers' \in [Handler -> HandlerState]
  BY <1>1, <1>2 DEF SessionsInv, SessionsTypeOK, Goes, HandlerState, Session
<1>4. SessionsTypeOK'
  BY <1>1, <1>3 DEF SessionsInv, SessionsTypeOK
<1>5. /\ handlers'[h].stage = "found" /\ handlers'[h].session = i
      /\ handlers'[h].line = sessions[i].line
      /\ \A g \in Handler : g # h => handlers'[g] = handlers[g]
  BY <1>1 DEF SessionsInv, SessionsTypeOK, Goes
<1>6. RowsInv'
  BY <1>1, <1>2, <1>5 DEF SessionsInv, RowsInv
<1>7. OnePlace'
  <2>1. \A g \in Handler, e \in Line : Opens(g, e)' => Opens(g, e)
    BY <1>5 DEF Opens
  <2>2. \A j \in SessionId : sessions[j].line \in Line
    BY DEF SessionsInv, SessionsTypeOK, Session
  <2> QED
    BY <1>1, <2>1, <2>2 DEF SessionsInv, OnePlace
<1> QED
  BY <1>4, <1>6, <1>7 DEF SessionsInv

\* The row was live, so no request is opening its successor, and it is the only
\* one of its line: the request that deletes it takes its place.
LEMMA RotateHolds ==
  ASSUME SessionsInv, NEW h \in Handler, Rotate(h)
  PROVE  SessionsInv'
<1> DEFINE d == handlers[h].line
           i == handlers[h].session
<1>1. /\ handlers[h] \in HandlerState /\ handlers[h].stage = "found"
      /\ sessions[i].live /\ sessions' = [sessions EXCEPT ![i].live = FALSE]
      /\ Goes(h, Opening(d, handlers[h].profile)) /\ UNCHANGED <<user, choosing>>
  BY DEF SessionsInv, SessionsTypeOK, Rotate, Serving, DeletesRow
<1>2. d \in Line /\ i \in SessionId /\ handlers[h].profile \in ProfileType
  BY <1>1 DEF HandlerState
<1>3. sessions[i].made /\ sessions[i].line = d
  BY <1>1 DEF SessionsInv, RowsInv
<1>4. sessions' \in [SessionId -> Session] /\ handlers' \in [Handler -> HandlerState]
  BY <1>1, <1>2, OpeningType DEF SessionsInv, SessionsTypeOK, Session, Goes
<1>5. SessionsTypeOK'
  BY <1>1, <1>4 DEF SessionsInv, SessionsTypeOK
<1>6. /\ ~sessions'[i].live
      /\ \A j \in SessionId : j # i => sessions'[j] = sessions[j]
      /\ \A j \in SessionId : /\ sessions'[j].made = sessions[j].made
                              /\ sessions'[j].line = sessions[j].line
  BY <1>1, <1>2 DEF SessionsInv, SessionsTypeOK, Session
<1>7. /\ handlers'[h].stage = "opening" /\ handlers'[h].line = d
      /\ \A g \in Handler : g # h => handlers'[g] = handlers[g]
  BY <1>1 DEF SessionsInv, SessionsTypeOK, Goes, Opening, NoRequest
<1>8. RowsInv'
  <2>1. \A g \in Handler : handlers[g].session \in SessionId
    BY DEF SessionsInv, SessionsTypeOK, HandlerState
  <2> QED
    BY <1>6, <1>7, <2>1 DEF SessionsInv, RowsInv
<1>9. OnePlace'
  <2>1. \A j \in SessionId : sessions'[j].live => sessions'[j].line # d
    BY <1>1, <1>2, <1>3, <1>6 DEF SessionsInv, OnePlace
  <2>2. \A g \in Handler : ~Opens(g, d)
    BY <1>1, <1>2, <1>3 DEF SessionsInv, OnePlace
  <2>4. ASSUME NEW j \in SessionId, NEW k \in SessionId, sessions'[j].live, sessions'[k].live,
               sessions'[j].line = sessions'[k].line
        PROVE  j = k
    BY <1>6, <2>4 DEF SessionsInv, OnePlace
  <2>5. ASSUME NEW g \in Handler, NEW j \in SessionId, sessions'[j].live
        PROVE  ~Opens(g, sessions[j].line)'
    BY <1>6, <1>7, <2>1, <2>5 DEF SessionsInv, OnePlace, Opens
  <2>6. ASSUME NEW g \in Handler, NEW k \in Handler, NEW e \in Line,
               Opens(g, e)', Opens(k, e)'
        PROVE  g = k
    BY <1>7, <2>2, <2>6 DEF SessionsInv, OnePlace, Opens
  <2> QED
    BY <2>4, <2>5, <2>6 DEF OnePlace
<1> QED
  BY <1>5, <1>8, <1>9 DEF SessionsInv

\* What ends, ends: a request without its row, or a row without a request.
LEMMA FailsHolds ==
  ASSUME SessionsInv, NEW h \in Handler, Fails(h)
  PROVE  SessionsInv'
<1>1. /\ handlers' \in [Handler -> HandlerState] /\ UNCHANGED <<user, sessions, choosing>>
      /\ handlers'[h].stage = "idle"
      /\ \A g \in Handler : g # h => handlers'[g] = handlers[g]
  BY NoRequestType DEF SessionsInv, SessionsTypeOK, Fails, Goes, NoRequest
<1>2. \A g \in Handler, e \in Line : Opens(g, e)' => Opens(g, e)
  BY <1>1 DEF Opens
<1>3. \A j \in SessionId : sessions[j].line \in Line
  BY DEF SessionsInv, SessionsTypeOK, Session
<1>4. SessionsTypeOK' /\ RowsInv'
  BY <1>1 DEF SessionsInv, SessionsTypeOK, RowsInv
<1> QED
  BY <1>1, <1>2, <1>3, <1>4 DEF SessionsInv, OnePlace

LEMMA LogoutHolds == SessionsInv /\ Logout => SessionsInv'
<1> SUFFICES ASSUME SessionsInv, Logout PROVE SessionsInv'
  OBVIOUS
<1>1. PICK i \in SessionId : sessions' = [sessions EXCEPT ![i].live = FALSE]
  BY DEF Logout
<1>2. UNCHANGED <<user, choosing, handlers>>
  BY DEF Logout
<1>3. \A j \in SessionId : /\ sessions'[j].made = sessions[j].made
                           /\ sessions'[j].line = sessions[j].line
                           /\ sessions'[j].live => sessions[j].live
  BY <1>1 DEF SessionsInv, SessionsTypeOK, Session
<1>4. sessions' \in [SessionId -> Session]
  BY <1>1 DEF SessionsInv, SessionsTypeOK, Session
<1>5. RowsInv'
  <2>1. \A g \in Handler : handlers[g].session \in SessionId
    BY DEF SessionsInv, SessionsTypeOK, HandlerState
  <2> QED
    BY <1>2, <1>3, <2>1 DEF SessionsInv, RowsInv
<1>6. OnePlace'
  BY <1>2, <1>3 DEF SessionsInv, OnePlace, Opens
<1> QED
  BY <1>2, <1>4, <1>5, <1>6 DEF SessionsInv, SessionsTypeOK

LEMMA SessionsStepHolds == SessionsInv /\ [SessionsNext]_sessionVars => SessionsInv'
<1> SUFFICES ASSUME SessionsInv, [SessionsNext]_sessionVars PROVE SessionsInv'
  OBVIOUS
<1>1. CASE \E h \in Handler, d \in Line : Login(h, d) \/ SelectProfile(h, d)
  BY <1>1, LoginHolds, SelectProfileHolds
<1>2. CASE \E h \in Handler : Open(h) \/ Refresh(h) \/ Rotate(h) \/ Fails(h)
  BY <1>2, OpenHolds, RefreshHolds, RotateHolds, FailsHolds
<1>3. CASE Logout
  BY <1>3, LogoutHolds
<1>4. CASE TokenExpires \/ ChangeUser \/ UNCHANGED sessionVars
  <2>1. choosing' \in BOOLEAN /\ user' \in UserRows
    BY <1>4 DEF TokenExpires, ChangeUser, sessionVars, SessionsInv, SessionsTypeOK
  <2>2. UNCHANGED <<sessions, handlers>>
    BY <1>4 DEF TokenExpires, ChangeUser, sessionVars
  <2> QED
    BY <2>1, <2>2 DEF SessionsInv, SessionsTypeOK, RowsInv, OnePlace, Opens
<1> QED
  BY <1>1, <1>2, <1>3, <1>4 DEF SessionsNext

-----------------------------------------------------------------------------
(* Counting *)

\* A set without two elements has at most one.
LEMMA AtMostOne ==
  ASSUME NEW S, \A x, y \in S : x = y
  PROVE  IsFiniteSet(S) /\ Cardinality(S) \in {0, 1} /\ (Cardinality(S) = 1 => S # {})
<1>1. CASE S = {}
  BY <1>1, FS_EmptySet
<1>2. CASE S # {}
  <2>1. PICK x \in S : S = {x}
    BY <1>2
  <2> QED
    BY <2>1, FS_Singleton
<1> QED
  BY <1>1, <1>2

LEMMA PlaceIsCounted == SessionsInv => LinesNeverFork
<1> SUFFICES ASSUME SessionsInv, NEW d \in Line
             PROVE  Cardinality(RowsOpen(d))
                      + Cardinality({h \in Handler : Serving(h, "opening")
                                                     /\ handlers[h].line = d}) <= 1
  BY DEF LinesNeverFork
<1> DEFINE R == RowsOpen(d)
           O == {h \in Handler : Serving(h, "opening") /\ handlers[h].line = d}
<1>1. Cardinality(R) \in {0, 1} /\ (Cardinality(R) = 1 => R # {})
  <2>1. \A x, y \in R : x = y
    BY DEF SessionsInv, OnePlace, RowsOpen
  <2> QED
    BY <2>1, AtMostOne
<1>2. Cardinality(O) \in {0, 1} /\ (Cardinality(O) = 1 => O # {})
  <2>1. \A x, y \in O : x = y
    BY DEF SessionsInv, OnePlace, Opens, Serving
  <2> QED
    BY <2>1, AtMostOne
<1>3. R = {} \/ O = {}
  BY DEF SessionsInv, OnePlace, Opens, Serving, RowsOpen
<1> HIDE DEF R, O
<1>4. Cardinality(R) + Cardinality(O) <= 1
  BY <1>1, <1>2, <1>3
<1> QED
  BY <1>4 DEF R, O

\* Rows and requests of the sign-in keep their types.
THEOREM SessionsTypeCorrect == SessionsSpec => []SessionsTypeOK
<1>1. SessionsInv => SessionsTypeOK
  BY DEF SessionsInv
<1> QED
  BY <1>1, SessionsInitHolds, SessionsStepHolds, PTL DEF SessionsSpec

\* The tokens of one line never become two sessions, however many requests
\* exchange them at once.
THEOREM TokensNeverFork == SessionsSpec => []LinesNeverFork
<1> QED
  BY PlaceIsCounted, SessionsInitHolds, SessionsStepHolds, PTL DEF SessionsSpec

-----------------------------------------------------------------------------
(* The guards: the inductive invariant *)

\* Lists of roles are kept for units, lists of permissions for roles, and what
\* a replacement will write is such a list.
ListsInv ==
  /\ lists \in [Owner -> SUBSET (Role \cup Permission)]
  /\ \A k \in Clerk : edits[k].stage \in {"reading", "deleted"} =>
       edits[k].list \subseteq Entry(edits[k].owner)

RowsGiven(rows) == \A row \in rows : row[1] \in Desk => row[2] \in given.roles

PermissionGiven(r, p) == <<r, p>> \in given.permissions

\* Whatever a table, a cache or a request says now was remembered.
TablesInv ==
  /\ employee = "active" => \A u \in assigned \cap Desk : \A r \in Role :
       r \in lists[u] => r \in given.roles
  /\ \A r \in Role : \A p \in lists[r] : PermissionGiven(r, p)

CachesInv ==
  /\ \A rows \in principalCache : RowsGiven(rows)
  /\ \A r \in Role : \A S \in roleCache[r] : \A p \in S : PermissionGiven(r, p)

RequestsInv == \A q \in Request :
  /\ RowsGiven(requests[q].rows)
  /\ \A r \in Role : \A p \in requests[q].grants[r] : PermissionGiven(r, p)

AccessInv == AccessTypeOK /\ ListsInv /\ TablesInv /\ CachesInv /\ RequestsInv

\* What was given once stays given.
LEMMA GivenGrows ==
  Remember => given.roles \subseteq given'.roles /\ given.permissions \subseteq given'.permissions
BY DEF Remember

LEMMA AssignmentRowsGiven ==
  ASSUME AccessInv
  PROVE  AssignmentRows \in SUBSET (Unit \X Role) /\ RowsGiven(AssignmentRows)
<1>1. ASSUME NEW row \in AssignmentRows
      PROVE  /\ row \in assigned \X Role /\ employee = "active" /\ row[2] \in lists[row[1]]
  BY <1>1 DEF AssignmentRows
<1>2. assigned \subseteq Unit
  BY DEF AccessInv, AccessTypeOK
<1> QED
  BY <1>1, <1>2 DEF AccessInv, TablesInv, RowsGiven

LEMMA NoCallIsARequest ==
  /\ NoCall \in RequestState
  /\ NoCall.rows = {}
  /\ \A r \in Role : NoCall.grants[r] = {}
BY DEF NoCall, RequestState

\* A request that goes on with what it holds.
LEMMA StageIsARequest ==
  ASSUME NEW call \in RequestState,
         NEW stage \in {"idle", "loaded", "known", "read", "granted"}
  PROVE  /\ [call EXCEPT !.stage = stage] \in RequestState
         /\ [call EXCEPT !.stage = stage].rows = call.rows
         /\ [call EXCEPT !.stage = stage].grants = call.grants
BY DEF RequestState

LEMMA NoEditIsAnEdit ==
  /\ NoEdit \in EditState
  /\ NoEdit.stage = "idle" /\ NoEdit.list = {} /\ NoEdit.owner \in Owner
<1>1. (CHOOSE u \in Unit : TRUE) \in Unit
  BY UnitAssumption
<1> QED
  BY <1>1 DEF NoEdit, EditState, Owner

LEMMA EntriesAreKnown ==
  /\ \A o \in Owner : Entry(o) \subseteq Role \cup Permission
  /\ \A u \in Unit : u \in Owner /\ Entry(u) = Role
  /\ \A r \in Role : r \in Owner /\ Entry(r) = Permission
BY UnitAssumption DEF Owner, Entry

-----------------------------------------------------------------------------
(* The guards: what a step must show *)

\* The tables and the commands in flight have their types.
TablesTyped ==
  /\ employee \in {"none", "active", "inactive", "gone"}
  /\ assigned \subseteq Unit
  /\ roles \in [Role -> {"new", "there", "gone"}]
  /\ lists \in [Owner -> SUBSET (Role \cup Permission)]
  /\ \A o \in Owner : lists[o] \subseteq Entry(o)

EditsInv ==
  /\ edits \in [Clerk -> EditState]
  /\ \A k \in Clerk : edits[k].stage \in {"reading", "deleted"} =>
       edits[k].list \subseteq Entry(edits[k].owner)

LEMMA RowsAndEditsHold ==
  ASSUME AccessInv PROVE TablesTyped /\ EditsInv
BY DEF AccessInv, AccessTypeOK, ListsInv, TablesTyped, EditsInv

LEMMA TablesAreRemembered ==
  ASSUME Remember PROVE TablesInv'
<1>1. ASSUME employee' = "active", NEW u \in assigned' \cap Desk, NEW r \in Role, r \in lists'[u]
      PROVE  r \in given'.roles
  BY <1>1 DEF Remember
<1>2. ASSUME NEW r \in Role, NEW p \in lists'[r]
      PROVE  <<r, p>> \in given'.permissions
  <2>1. <<r, p>> \in {r} \X lists'[r]
    OBVIOUS
  <2> QED
    BY <2>1 DEF Remember
<1> QED
  BY <1>1, <1>2 DEF TablesInv, PermissionGiven

LEMMA WhatIsGivenIsTyped ==
  ASSUME AccessInv, Remember, TablesTyped'
  PROVE  given'.roles \subseteq Role /\ given'.permissions \subseteq Role \X Permission
<1>1. given.roles \subseteq Role /\ given.permissions \subseteq Role \X Permission
  BY DEF AccessInv, AccessTypeOK
<1>2. \A r \in Role : lists'[r] \subseteq Permission
  BY EntriesAreKnown DEF TablesTyped
<1>3. (UNION {{r} \X lists[r] : r \in Role})' \subseteq Role \X Permission
  BY <1>2
<1> QED
  BY <1>1, <1>3 DEF Remember

\* What a request and a cache hold stays given.
LEMMA RequestsStayGiven ==
  ASSUME AccessInv, Remember, requests' = requests PROVE RequestsInv'
<1>1. ASSUME NEW q \in Request
      PROVE  /\ \A row \in requests[q].rows : row[1] \in Desk => row[2] \in given'.roles
             /\ \A r \in Role : \A p \in requests[q].grants[r] : <<r, p>> \in given'.permissions
  BY GivenGrows DEF AccessInv, RequestsInv, RowsGiven, PermissionGiven
<1> QED
  BY <1>1 DEF RequestsInv, RowsGiven, PermissionGiven

LEMMA CachesStayGiven ==
  ASSUME AccessInv, Remember,
         principalCache' \subseteq principalCache,
         \A r \in Role : roleCache'[r] \subseteq roleCache[r]
  PROVE  CachesInv'
<1>1. ASSUME NEW rows \in principalCache', NEW row \in rows, row[1] \in Desk
      PROVE  row[2] \in given'.roles
  BY <1>1, GivenGrows DEF AccessInv, CachesInv, RowsGiven
<1>2. ASSUME NEW r \in Role, NEW S \in roleCache'[r], NEW p \in S
      PROVE  <<r, p>> \in given'.permissions
  BY <1>2, GivenGrows DEF AccessInv, CachesInv, PermissionGiven
<1> QED
  BY <1>1, <1>2 DEF CachesInv, RowsGiven, PermissionGiven

\* A step of a command changes rows, and neither caches nor requests.
LEMMA CommandKeeps ==
  ASSUME AccessInv, Remember, TablesTyped', EditsInv', changes' \in 0 .. MaxChanges,
         UNCHANGED <<principalCache, roleCache, requests>>
  PROVE  AccessInv'
<1>1. AccessTypeOK' /\ ListsInv'
  BY WhatIsGivenIsTyped DEF AccessInv, AccessTypeOK, TablesTyped, EditsInv, ListsInv
<1> QED
  BY <1>1, TablesAreRemembered, RequestsStayGiven, CachesStayGiven DEF AccessInv

\* A step of a request, or of a cache, changes no row.
LEMMA ReadKeeps ==
  ASSUME AccessInv, Remember, UNCHANGED <<accessTables, changes>>, EditsInv',
         principalCache' \subseteq SUBSET (Unit \X Role),
         roleCache' \in [Role -> SUBSET SUBSET Permission],
         requests' \in [Request -> RequestState],
         CachesInv', RequestsInv'
  PROVE  AccessInv'
<1>1. TablesTyped'
  BY RowsAndEditsHold DEF TablesTyped, Entry, accessTables
<1>2. AccessTypeOK' /\ ListsInv'
  BY <1>1, WhatIsGivenIsTyped DEF AccessInv, AccessTypeOK, TablesTyped, EditsInv, ListsInv
<1> QED
  BY <1>2, TablesAreRemembered DEF AccessInv

LEMMA EditsStay ==
  ASSUME AccessInv, edits' = edits PROVE EditsInv'
BY RowsAndEditsHold DEF EditsInv, Entry

LEMMA RequestChanges ==
  ASSUME AccessInv, Remember, NEW q \in Request, NEW call \in RequestState,
         RowsGiven(call.rows),
         \A r \in Role : \A p \in call.grants[r] : PermissionGiven(r, p),
         requests' = [requests EXCEPT ![q] = call]
  PROVE  requests' \in [Request -> RequestState] /\ RequestsInv'
<1>1. requests \in [Request -> RequestState]
  BY DEF AccessInv, AccessTypeOK
<1>2. ASSUME NEW o \in Request
      PROVE  /\ \A row \in requests'[o].rows : row[1] \in Desk => row[2] \in given'.roles
             /\ \A r \in Role : \A p \in requests'[o].grants[r] : <<r, p>> \in given'.permissions
  <2>1. CASE o = q
    <3>1. requests'[o] = call
      BY <2>1, <1>1
    <3> QED
      BY <3>1, GivenGrows DEF RowsGiven, PermissionGiven
  <2>2. CASE o # q
    <3>1. requests'[o] = requests[o]
      BY <2>2, <1>1
    <3> QED
      BY <3>1, GivenGrows DEF AccessInv, RequestsInv, RowsGiven, PermissionGiven
  <2> QED
    BY <2>1, <2>2
<1> QED
  BY <1>1, <1>2 DEF RequestsInv, RowsGiven, PermissionGiven

LEMMA EditChanges ==
  ASSUME AccessInv, NEW k \in Clerk, NEW e \in EditState,
         e.stage \in {"reading", "deleted"} => e.list \subseteq Entry(e.owner),
         edits' = [edits EXCEPT ![k] = e]
  PROVE  EditsInv'
<1>1. EditsInv
  BY RowsAndEditsHold
<1>2. ASSUME NEW x \in Clerk, edits'[x].stage \in {"reading", "deleted"}
      PROVE  edits'[x].list \subseteq Entry(edits'[x].owner)
  BY <1>1, <1>2 DEF EditsInv
<1>3. edits' \in [Clerk -> EditState]
  BY <1>1 DEF EditsInv
<1> QED
  BY <1>2, <1>3 DEF EditsInv, Entry

LEMMA CommitsChanges ==
  ASSUME AccessInv, NEW k \in Clerk, NEW evicts \in {"none", "principal", "roles"},
         Commits(k, evicts)
  PROVE  /\ EditsInv' /\ changes' \in 0 .. MaxChanges
         /\ UNCHANGED <<principalCache, roleCache, requests>>
<1> DEFINE e == IF evicts = "none" THEN NoEdit
                ELSE [NoEdit EXCEPT !.stage = "evicting", !.evicts = evicts]
<1>1. e \in EditState /\ e.stage \notin {"reading", "deleted"}
  BY NoEditIsAnEdit DEF EditState
<1>2. edits' = [edits EXCEPT ![k] = e]
  BY DEF Commits
<1> HIDE DEF e
<1>3. EditsInv'
  BY <1>1, <1>2, EditChanges
<1>4. changes' \in 0 .. MaxChanges
  BY ChangesAssumption DEF Commits, AccessInv, AccessTypeOK
<1> QED
  BY <1>3, <1>4 DEF Commits

-----------------------------------------------------------------------------
(* The guards: each step of a request and of a cache *)

LEMMA AsksStep ==
  ASSUME AccessInv, Remember, NEW q \in Request, Asks(q) PROVE AccessInv'
<1>1. UNCHANGED <<accessTables, principalCache, roleCache, edits, changes>>
  BY DEF Asks
<1>2. /\ principalCache \subseteq SUBSET (Unit \X Role)
      /\ roleCache \in [Role -> SUBSET SUBSET Permission]
  BY DEF AccessInv, AccessTypeOK
<1>3. PICK rows \in SUBSET (Unit \X Role), stage \in {"known", "loaded"} :
        /\ RowsGiven(rows)
        /\ requests' = [requests EXCEPT ![q] = [NoCall EXCEPT !.stage = stage, !.rows = rows]]
  <2>1. CASE principalCache = {}
    <3>1. PICK rows \in SUBSET (Unit \X Role) : rows = AssignmentRows /\ RowsGiven(rows)
      BY AssignmentRowsGiven
    <3>2. requests' = [requests EXCEPT ![q] = [NoCall EXCEPT !.stage = "loaded", !.rows = rows]]
      BY <2>1, <3>1 DEF Asks, Step
    <3> QED
      BY <3>1, <3>2
  <2>2. CASE principalCache # {}
    <3>1. PICK rows \in principalCache :
            requests' = [requests EXCEPT ![q] = [NoCall EXCEPT !.stage = "known", !.rows = rows]]
      BY <2>2 DEF Asks, Step
    <3> QED
      BY <3>1, <1>2 DEF AccessInv, CachesInv
  <2> QED
    BY <2>1, <2>2
<1> DEFINE call == [NoCall EXCEPT !.stage = stage, !.rows = rows]
<1>4. call \in RequestState /\ call.rows = rows /\ \A r \in Role : call.grants[r] = {}
  BY NoCallIsARequest DEF RequestState
<1>5. requests' = [requests EXCEPT ![q] = call]
  BY <1>3
<1> HIDE DEF call
<1>6. requests' \in [Request -> RequestState] /\ RequestsInv'
  BY <1>3, <1>4, <1>5, RequestChanges
<1> QED
  BY <1>1, <1>2, <1>6, EditsStay, CachesStayGiven, ReadKeeps

LEMMA FillStep ==
  ASSUME AccessInv, Remember, NEW q \in Request, Fill(q) PROVE AccessInv'
<1>1. UNCHANGED <<accessTables, roleCache, edits, changes>>
  BY DEF Fill
<1>2. /\ requests[q] \in RequestState
      /\ roleCache \in [Role -> SUBSET SUBSET Permission]
  BY DEF AccessInv, AccessTypeOK
<1>3. /\ RowsGiven(requests[q].rows)
      /\ \A r \in Role : \A p \in requests[q].grants[r] : PermissionGiven(r, p)
  BY DEF AccessInv, RequestsInv
<1>4. PICK call \in RequestState :
        /\ call = [requests[q] EXCEPT !.stage = "known"]
        /\ call.rows = requests[q].rows /\ call.grants = requests[q].grants
  <2>1. PICK old \in RequestState : old = requests[q]
    BY <1>2
  <2> QED
    BY <2>1, StageIsARequest
<1>5. requests' \in [Request -> RequestState] /\ RequestsInv'
  <2>1. requests' = [requests EXCEPT ![q] = call]
    BY <1>4 DEF Fill, Step
  <2>2. /\ RowsGiven(call.rows)
        /\ \A r \in Role : \A p \in call.grants[r] : PermissionGiven(r, p)
    BY <1>3, <1>4
  <2> QED
    BY <2>1, <2>2, RequestChanges
<1>6. principalCache' = {requests[q].rows}
  BY DEF Fill
<1>7. principalCache' \subseteq SUBSET (Unit \X Role)
  BY <1>2, <1>6 DEF RequestState
<1>8. CachesInv'
  <2>1. ASSUME NEW rows \in principalCache', NEW row \in rows, row[1] \in Desk
        PROVE  row[2] \in given'.roles
    BY <2>1, <1>3, <1>6, GivenGrows DEF RowsGiven
  <2>2. ASSUME NEW r \in Role, NEW S \in roleCache'[r], NEW p \in S
        PROVE  <<r, p>> \in given'.permissions
    BY <1>1, GivenGrows DEF AccessInv, CachesInv, PermissionGiven
  <2> QED
    BY <2>1, <2>2 DEF CachesInv, RowsGiven, PermissionGiven
<1> QED
  BY <1>1, <1>2, <1>5, <1>7, <1>8, EditsStay, ReadKeeps

\* What a request reads of the roles: from the cache, or from the rows.
LEMMA ReadsRolesStep ==
  ASSUME AccessInv, Remember, NEW q \in Request, ReadsRoles(q) PROVE AccessInv'
<1> DEFINE old    == requests[q]
           missed == {r \in RolesOf(old) : roleCache[r] = {}}
           grants == [r \in Role |-> CASE r \in RolesOf(old) \ missed -> UNION roleCache[r]
                                       [] r \in missed \cap There     -> lists[r]
                                       [] OTHER                       -> {}]
           call   == [old EXCEPT !.stage = IF missed = {} THEN "granted" ELSE "read",
                                 !.grants = grants, !.loaded = missed \cap There]
<1>1. UNCHANGED <<accessTables, principalCache, roleCache, edits, changes>>
  BY DEF ReadsRoles
<1>2. /\ old \in RequestState
      /\ principalCache \subseteq SUBSET (Unit \X Role)
      /\ roleCache \in [Role -> SUBSET SUBSET Permission]
  BY DEF AccessInv, AccessTypeOK
<1>3. \A r \in Role : lists[r] \subseteq Permission
  BY RowsAndEditsHold, EntriesAreKnown DEF TablesTyped
<1>4. \A r \in Role : grants[r] \in {UNION roleCache[r], lists[r], {}}
  OBVIOUS
<1>5. \A r \in Role : grants[r] \subseteq Permission
  BY <1>2, <1>3, <1>4
<1>6. ASSUME NEW r \in Role, NEW p \in grants[r] PROVE PermissionGiven(r, p)
  BY <1>4, <1>6 DEF AccessInv, TablesInv, CachesInv
<1>7. grants \in [Role -> SUBSET Permission]
  BY <1>5
<1>8. missed \cap There \subseteq Role
  BY DEF There
<1>9. requests' = [requests EXCEPT ![q] = call]
  BY DEF ReadsRoles, Step
<1> HIDE DEF grants, missed
<1>10. call \in RequestState /\ call.rows = old.rows /\ call.grants = grants
  BY <1>2, <1>7, <1>8 DEF RequestState
<1>11. RowsGiven(call.rows) /\ \A r \in Role : \A p \in call.grants[r] : PermissionGiven(r, p)
  BY <1>6, <1>10 DEF AccessInv, RequestsInv
<1> HIDE DEF call, old
<1>12. PICK rigid \in RequestState : rigid = call
  BY <1>10
<1>13. requests' \in [Request -> RequestState] /\ RequestsInv'
  BY <1>9, <1>11, <1>12, RequestChanges
<1> QED
  BY <1>1, <1>2, <1>13, EditsStay, CachesStayGiven, ReadKeeps

LEMMA FillRolesStep ==
  ASSUME AccessInv, Remember, NEW q \in Request, FillRoles(q) PROVE AccessInv'
<1>1. UNCHANGED <<accessTables, principalCache, edits, changes>>
  BY DEF FillRoles
<1>2. /\ requests[q] \in RequestState
      /\ principalCache \subseteq SUBSET (Unit \X Role)
      /\ roleCache \in [Role -> SUBSET SUBSET Permission]
  BY DEF AccessInv, AccessTypeOK
<1>3. /\ RowsGiven(requests[q].rows)
      /\ \A r \in Role : \A p \in requests[q].grants[r] : PermissionGiven(r, p)
  BY DEF AccessInv, RequestsInv
<1>4. PICK call \in RequestState :
        /\ call = [requests[q] EXCEPT !.stage = "granted"]
        /\ call.rows = requests[q].rows /\ call.grants = requests[q].grants
  <2>1. PICK old \in RequestState : old = requests[q]
    BY <1>2
  <2> QED
    BY <2>1, StageIsARequest
<1>5. requests' \in [Request -> RequestState] /\ RequestsInv'
  <2>1. requests' = [requests EXCEPT ![q] = call]
    BY <1>4 DEF FillRoles, Step
  <2>2. /\ RowsGiven(call.rows)
        /\ \A r \in Role : \A p \in call.grants[r] : PermissionGiven(r, p)
    BY <1>3, <1>4
  <2> QED
    BY <2>1, <2>2, RequestChanges
<1>6. \A r \in Role : roleCache'[r] \in {roleCache[r], {requests[q].grants[r]}}
  BY DEF FillRoles
<1>7. roleCache' \in [Role -> SUBSET SUBSET Permission]
  <2>1. \A r \in Role : requests[q].grants[r] \subseteq Permission
    BY <1>2 DEF RequestState
  <2>2. \A r \in Role : roleCache'[r] \in SUBSET SUBSET Permission
    BY <2>1, <1>2, <1>6
  <2> QED
    BY <2>2 DEF FillRoles
<1>8. CachesInv'
  <2>1. ASSUME NEW rows \in principalCache', NEW row \in rows, row[1] \in Desk
        PROVE  row[2] \in given'.roles
    BY <2>1, <1>1, GivenGrows DEF AccessInv, CachesInv, RowsGiven
  <2>2. ASSUME NEW r \in Role, NEW S \in roleCache'[r], NEW p \in S
        PROVE  PermissionGiven(r, p)
    BY <1>3, <1>6 DEF AccessInv, CachesInv
  <2>3. ASSUME NEW r \in Role, NEW S \in roleCache'[r], NEW p \in S
        PROVE  <<r, p>> \in given'.permissions
    BY <2>2, GivenGrows DEF PermissionGiven
  <2> QED
    BY <2>1, <2>3 DEF CachesInv, RowsGiven, PermissionGiven
<1> QED
  BY <1>1, <1>2, <1>5, <1>7, <1>8, EditsStay, ReadKeeps

LEMMA EndsStep ==
  ASSUME AccessInv, Remember, NEW q \in Request, Ends(q) PROVE AccessInv'
<1>1. UNCHANGED <<accessTables, principalCache, roleCache, edits, changes>>
  BY DEF Ends
<1>2. requests' = [requests EXCEPT ![q] = NoCall]
  BY DEF Ends, Step
<1>3. requests' \in [Request -> RequestState] /\ RequestsInv'
  BY <1>2, NoCallIsARequest, RequestChanges DEF RowsGiven
<1>4. /\ principalCache \subseteq SUBSET (Unit \X Role)
      /\ roleCache \in [Role -> SUBSET SUBSET Permission]
  BY DEF AccessInv, AccessTypeOK
<1> QED
  BY <1>1, <1>3, <1>4, EditsStay, CachesStayGiven, ReadKeeps

\* An entry that leaves a cache, by its lifetime or by an eviction.
LEMMA EntriesLeave ==
  ASSUME AccessInv, Remember, UNCHANGED <<accessTables, requests, changes>>, EditsInv',
         principalCache' \in {{}, principalCache},
         roleCache' \in [Role -> SUBSET SUBSET Permission],
         \A r \in Role : roleCache'[r] \in {{}, roleCache[r]}
  PROVE  AccessInv'
<1>1. /\ principalCache' \subseteq SUBSET (Unit \X Role)
      /\ requests' \in [Request -> RequestState]
  BY DEF AccessInv, AccessTypeOK
<1>2. \A r \in Role : roleCache'[r] \subseteq roleCache[r]
  OBVIOUS
<1>3. RequestsInv' /\ CachesInv'
  BY <1>2, RequestsStayGiven, CachesStayGiven
<1> QED
  BY <1>1, <1>3, ReadKeeps

LEMMA PrincipalExpiresStep ==
  ASSUME AccessInv, Remember, PrincipalExpires PROVE AccessInv'
<1>1. roleCache' \in [Role -> SUBSET SUBSET Permission]
  BY DEF PrincipalExpires, AccessInv, AccessTypeOK
<1> QED
  BY <1>1, EditsStay, EntriesLeave DEF PrincipalExpires

LEMMA RoleExpiresStep ==
  ASSUME AccessInv, Remember, NEW r \in Role, RoleExpires(r) PROVE AccessInv'
<1>1. roleCache \in [Role -> SUBSET SUBSET Permission]
  BY DEF AccessInv, AccessTypeOK
<1>2. roleCache' = [roleCache EXCEPT ![r] = {}]
  BY DEF RoleExpires
<1>3. /\ roleCache' \in [Role -> SUBSET SUBSET Permission]
      /\ \A x \in Role : roleCache'[x] \in {{}, roleCache[x]}
  BY <1>1, <1>2
<1> QED
  BY <1>3, EditsStay, EntriesLeave DEF RoleExpires

-----------------------------------------------------------------------------
(* The guards: each step of a command *)

LEMMA RowsChange ==
  ASSUME employee' \in {"none", "active", "inactive", "gone"},
         assigned' \subseteq Unit,
         roles' \in [Role -> {"new", "there", "gone"}],
         lists' = [o \in Owner |-> lists'[o]],
         \A o \in Owner : lists'[o] \subseteq Entry(o)
  PROVE  TablesTyped'
<1>1. \A o \in Owner : lists'[o] \subseteq Role \cup Permission
  BY EntriesAreKnown
<1>2. lists' \in [Owner -> SUBSET (Role \cup Permission)]
  BY <1>1
<1> QED
  BY <1>2 DEF TablesTyped, Entry

LEMMA RowsStay ==
  ASSUME AccessInv, UNCHANGED accessTables PROVE TablesTyped'
BY RowsAndEditsHold DEF TablesTyped, Entry, accessTables

LEMMA UnitsAreGivenRoles ==
  ASSUME AccessInv, NEW units \in SUBSET Unit, NEW list \in SUBSET There,
         employee' \in {"none", "active", "inactive", "gone"},
         assigned' \subseteq Unit, roles' = roles,
         lists' = [o \in Owner |-> IF o \in units THEN list ELSE lists[o]]
  PROVE  TablesTyped'
<1>1. TablesTyped
  BY RowsAndEditsHold
<1>2. ASSUME NEW o \in Owner PROVE lists'[o] \subseteq Entry(o)
  <2>1. CASE o \in units
    BY <2>1, EntriesAreKnown DEF There
  <2>2. CASE o \notin units
    BY <2>2, <1>1 DEF TablesTyped
  <2> QED
    BY <2>1, <2>2
<1>3. lists' = [o \in Owner |-> lists'[o]]
  OBVIOUS
<1> QED
  BY <1>1, <1>2, <1>3, RowsChange DEF TablesTyped

LEMMA NewEmployeeRows ==
  ASSUME AccessInv, NEW units \in SUBSET Unit, NewEmployee(units) PROVE TablesTyped'
<1>1. PICK list \in SUBSET There :
        lists' = [o \in Owner |-> IF o \in units THEN list ELSE lists[o]]
  BY DEF NewEmployee
<1> QED
  BY <1>1, UnitsAreGivenRoles DEF NewEmployee

LEMMA NewAssignmentsRows ==
  ASSUME AccessInv, NEW units \in SUBSET Unit, NewAssignments(units) PROVE TablesTyped'
<1>1. PICK list \in SUBSET There :
        lists' = [o \in Owner |-> IF o \in units THEN list ELSE lists[o]]
  BY DEF NewAssignments
<1> QED
  BY <1>1, UnitsAreGivenRoles DEF NewAssignments, AccessInv, AccessTypeOK

LEMMA SetsActiveRows ==
  ASSUME AccessInv, SetsActive PROVE TablesTyped'
BY RowsAndEditsHold DEF SetsActive, TablesTyped, Entry

\* A list that is replaced by one of its kind, or by none.
LEMMA OneListChanges ==
  ASSUME AccessInv, NEW o \in Owner, NEW list \in SUBSET (Role \cup Permission),
         list \subseteq Entry(o),
         employee' = employee, assigned' \subseteq assigned,
         roles' \in [Role -> {"new", "there", "gone"}],
         lists' = [lists EXCEPT ![o] = list]
  PROVE  TablesTyped'
<1>1. TablesTyped
  BY RowsAndEditsHold
<1>2. ASSUME NEW x \in Owner PROVE lists'[x] \subseteq Entry(x)
  BY <1>1, <1>2 DEF TablesTyped
<1>3. lists' = [x \in Owner |-> lists'[x]]
  BY <1>1 DEF TablesTyped
<1> QED
  BY <1>1, <1>2, <1>3, RowsChange DEF TablesTyped

LEMMA UnassignRows ==
  ASSUME AccessInv, Unassign PROVE TablesTyped'
<1>1. PICK u \in assigned :
        /\ assigned' = assigned \ {u}
        /\ lists' = [lists EXCEPT ![u] = {}]
        /\ UNCHANGED <<employee, roles>>
  BY DEF Unassign
<1>2. u \in Owner /\ roles \in [Role -> {"new", "there", "gone"}]
  BY <1>1, EntriesAreKnown DEF AccessInv, AccessTypeOK
<1>3. {} \in SUBSET (Role \cup Permission) /\ {} \subseteq Entry(u)
  OBVIOUS
<1>4. employee' = employee /\ assigned' \subseteq assigned /\ roles' = roles
  BY <1>1
<1> QED
  BY <1>1, <1>2, <1>3, <1>4, OneListChanges

LEMMA DeleteEmployeeRows ==
  ASSUME AccessInv, NEW k \in Clerk, DeleteEmployee(k) PROVE TablesTyped'
<1>1. TablesTyped
  BY RowsAndEditsHold
<1>2. \A o \in Owner : lists'[o] \subseteq Entry(o)
  BY <1>1 DEF DeleteEmployee, TablesTyped
<1>3. lists' = [o \in Owner |-> lists'[o]]
  BY DEF DeleteEmployee
<1> QED
  BY <1>1, <1>2, <1>3, RowsChange DEF DeleteEmployee, TablesTyped

LEMMA CreateRoleRows ==
  ASSUME AccessInv, NEW k \in Clerk, CreateRole(k) PROVE TablesTyped'
<1>1. PICK r \in Role, list \in SUBSET Permission :
        /\ roles' = [roles EXCEPT ![r] = "there"]
        /\ lists' = [lists EXCEPT ![r] = list]
        /\ UNCHANGED <<employee, assigned>>
  BY DEF CreateRole
<1>2. r \in Owner /\ list \subseteq Entry(r)
  BY EntriesAreKnown
<1>3. roles' \in [Role -> {"new", "there", "gone"}]
  BY <1>1 DEF AccessInv, AccessTypeOK
<1> QED
  BY <1>1, <1>2, <1>3, OneListChanges

LEMMA DeleteRoleRows ==
  ASSUME AccessInv, NEW k \in Clerk, DeleteRole(k) PROVE TablesTyped'
<1>1. TablesTyped
  BY RowsAndEditsHold
<1>2. PICK r \in Role :
        /\ roles' = [roles EXCEPT ![r] = "gone"]
        /\ lists' = [o \in Owner |-> IF o = r THEN {} ELSE lists[o] \ {r}]
  BY DEF DeleteRole, There
<1>3. roles' \in [Role -> {"new", "there", "gone"}]
  BY <1>1, <1>2 DEF TablesTyped
<1>4. \A o \in Owner : lists'[o] \subseteq Entry(o)
  BY <1>1, <1>2 DEF TablesTyped
<1>5. lists' = [o \in Owner |-> lists'[o]]
  BY <1>2
<1> QED
  BY <1>1, <1>3, <1>4, <1>5, RowsChange DEF DeleteRole, TablesTyped

\* A command that commits at once: its rows, and what Commits does.
LEMMA CommitKeeps ==
  ASSUME AccessInv, Remember, NEW k \in Clerk, NEW evicts \in {"none", "principal", "roles"},
         Commits(k, evicts), TablesTyped'
  PROVE  AccessInv'
BY CommitsChanges, CommandKeeps

LEMMA EmployeeControllerStep ==
  ASSUME AccessInv, Remember, NEW k \in Clerk, EmployeeController(k) PROVE AccessInv'
<1>1. CASE Hire(k)
  BY <1>1, NewEmployeeRows, CommitKeeps DEF Hire
<1>2. CASE SetActive(k)
  BY <1>2, SetsActiveRows, CommitKeeps DEF SetActive
<1>3. CASE AssignEmployee(k)
  <2>1. PICK u \in Unit : NewAssignments({u}) /\ Commits(k, "none")
    BY <1>3 DEF AssignEmployee
  <2>2. {u} \in SUBSET Unit
    OBVIOUS
  <2> QED
    BY <2>1, <2>2, NewAssignmentsRows, CommitKeeps
<1>4. CASE RemoveAssignment(k)
  BY <1>4, UnassignRows, CommitKeeps DEF RemoveAssignment
<1> QED
  BY <1>1, <1>2, <1>3, <1>4 DEF EmployeeController

LEMMA Employee2ControllerStep ==
  ASSUME AccessInv, Remember, NEW k \in Clerk, Employee2Controller(k) PROVE AccessInv'
<1>1. CASE Hire2(k)
  BY <1>1, NewEmployeeRows, CommitKeeps DEF Hire2
<1>2. CASE SetActive2(k)
  BY <1>2, SetsActiveRows, CommitKeeps DEF SetActive2
<1>3. CASE DeleteEmployee(k)
  BY <1>3, DeleteEmployeeRows, CommitKeeps DEF DeleteEmployee
<1>4. CASE AddAssignments(k)
  <2>1. PICK units \in SUBSET Unit : NewAssignments(units) /\ Commits(k, "principal")
    BY <1>4 DEF AddAssignments
  <2> QED
    BY <2>1, NewAssignmentsRows, CommitKeeps
<1>5. CASE RemoveAssignment2(k)
  BY <1>5, UnassignRows, CommitKeeps DEF RemoveAssignment2
<1> QED
  BY <1>1, <1>2, <1>3, <1>4, <1>5 DEF Employee2Controller

\* A command that writes no row yet, or no more.
LEMMA EditKeeps ==
  ASSUME AccessInv, Remember, NEW k \in Clerk, NEW e \in EditState,
         e.stage \in {"reading", "deleted"} => e.list \subseteq Entry(e.owner),
         edits' = [edits EXCEPT ![k] = e],
         UNCHANGED <<accessTables, principalCache, roleCache, requests, changes>>
  PROVE  AccessInv'
<1>1. EditsInv' /\ TablesTyped'
  BY EditChanges, RowsStay
<1>2. changes' \in 0 .. MaxChanges
  BY DEF AccessInv, AccessTypeOK
<1> QED
  BY <1>1, <1>2, CommandKeeps

LEMMA CountAssignmentsStep ==
  ASSUME AccessInv, Remember, NEW k \in Clerk, CountAssignments(k) PROVE AccessInv'
<1>1. PICK r \in There :
        edits' = [edits EXCEPT ![k] = [NoEdit EXCEPT !.stage = "counted", !.owner = r]]
  BY DEF CountAssignments
<1> DEFINE e == [NoEdit EXCEPT !.stage = "counted", !.owner = r]
<1>2. r \in Owner
  BY EntriesAreKnown DEF There
<1>3. e \in EditState /\ e.stage \notin {"reading", "deleted"}
  BY <1>2, NoEditIsAnEdit DEF EditState
<1>4. edits' = [edits EXCEPT ![k] = e]
  BY <1>1
<1> HIDE DEF e
<1> QED
  BY <1>3, <1>4, EditKeeps DEF CountAssignments

LEMMA RoleControllerStep ==
  ASSUME AccessInv, Remember, NEW k \in Clerk, RoleController(k) PROVE AccessInv'
<1>1. CASE CreateRole(k)
  BY <1>1, CreateRoleRows, CommitKeeps DEF CreateRole
<1>2. CASE UpdateRole(k)
  BY <1>2, RowsStay, CommitKeeps DEF UpdateRole
<1>3. CASE CountAssignments(k)
  BY <1>3, CountAssignmentsStep
<1> QED
  BY <1>1, <1>2, <1>3 DEF RoleController

LEMMA DeleteRoleStep ==
  ASSUME AccessInv, Remember, NEW k \in Clerk, DeleteRole(k) PROVE AccessInv'
BY DeleteRoleRows, CommitKeeps DEF DeleteRole

LEMMA BeginReplaceStep ==
  ASSUME AccessInv, Remember, NEW k \in Clerk, BeginReplace(k) PROVE AccessInv'
<1>1. PICK o \in assigned \cup There :
        \E list \in SUBSET (IF o \in Unit THEN There ELSE Permission) :
          /\ edits' = [edits EXCEPT ![k] = [NoEdit EXCEPT !.stage = "reading", !.owner = o,
                                              !.seen = lists[o], !.list = list]]
          /\ UNCHANGED <<accessTables, principalCache, roleCache, requests, changes>>
  BY DEF BeginReplace
<1>2. PICK list \in SUBSET (IF o \in Unit THEN There ELSE Permission) :
        /\ edits' = [edits EXCEPT ![k] = [NoEdit EXCEPT !.stage = "reading", !.owner = o,
                                            !.seen = lists[o], !.list = list]]
        /\ UNCHANGED <<accessTables, principalCache, roleCache, requests, changes>>
  BY <1>1
<1>3. o \in Owner /\ list \subseteq Entry(o)
  BY EntriesAreKnown DEF AccessInv, AccessTypeOK, There, Entry
<1>4. PICK seen \in SUBSET (Role \cup Permission) : seen = lists[o]
  BY <1>3, RowsAndEditsHold DEF TablesTyped
<1> DEFINE e == [NoEdit EXCEPT !.stage = "reading", !.owner = o, !.seen = seen, !.list = list]
<1>5. list \in SUBSET (Role \cup Permission)
  BY <1>3, EntriesAreKnown
<1>6. e \in EditState /\ e.list = list /\ e.owner = o
  BY <1>3, <1>5, NoEditIsAnEdit DEF EditState
<1>7. edits' = [edits EXCEPT ![k] = e]
  BY <1>2, <1>4
<1> HIDE DEF e
<1> QED
  BY <1>2, <1>3, <1>6, <1>7, EditKeeps

LEMMA DeleteSeenStep ==
  ASSUME AccessInv, Remember, NEW k \in Clerk, DeleteSeen(k) PROVE AccessInv'
<1>1. EditsInv
  BY RowsAndEditsHold
<1>2. PICK old \in EditState, kept \in SUBSET (Role \cup Permission) :
        old = edits[k] /\ kept = old.seen \cap lists[old.owner]
  BY <1>1 DEF EditsInv, EditState
<1> DEFINE e == [old EXCEPT !.stage = "deleted", !.seen = kept]
<1>3. e \in EditState /\ e.list = old.list /\ e.owner = old.owner
  BY DEF EditState
<1>4. old.list \subseteq Entry(old.owner)
  BY <1>1, <1>2 DEF EditsInv, DeleteSeen
<1>5. edits' = [edits EXCEPT ![k] = e]
  BY <1>1, <1>2 DEF DeleteSeen, EditsInv
<1> HIDE DEF e
<1> QED
  BY <1>3, <1>4, <1>5, EditKeeps DEF DeleteSeen

\* A replacement: the list of its owner, its own command, and those that wait
\* to delete what it deleted.
LEMMA CommitReplaceStep ==
  ASSUME AccessInv, Remember, NEW k \in Clerk, CommitReplace(k) PROVE AccessInv'
<1>1. EditsInv /\ TablesTyped
  BY RowsAndEditsHold
<1>2. PICK e \in EditState : e = edits[k]
  BY <1>1 DEF EditsInv
<1>3. /\ e.stage = "deleted" /\ e.owner \in Owner /\ e.list \subseteq Entry(e.owner)
      /\ e.list \in SUBSET (Role \cup Permission)
      /\ lists' = [lists EXCEPT ![e.owner] = (@ \ e.seen) \cup e.list]
  BY <1>1, <1>2 DEF CommitReplace, EditsInv, EditState
<1>4. TablesTyped'
  <2>1. PICK list \in SUBSET (Role \cup Permission) :
          list = (lists[e.owner] \ e.seen) \cup e.list /\ list \subseteq Entry(e.owner)
    BY <1>1, <1>3 DEF TablesTyped
  <2>2. lists' = [lists EXCEPT ![e.owner] = list]
    BY <1>1, <1>3, <2>1 DEF TablesTyped
  <2>3. UNCHANGED <<employee, assigned, roles>>
    BY DEF CommitReplace
  <2>4. roles' \in [Role -> {"new", "there", "gone"}]
    BY <1>1, <2>3 DEF TablesTyped
  <2> QED
    BY <1>3, <2>1, <2>2, <2>3, <2>4, OneListChanges
<1>5. PICK evicts \in {"none", "principal", "roles"} :
        edits' = [x \in Clerk |->
          CASE x = k -> IF evicts = "none" THEN NoEdit
                        ELSE [NoEdit EXCEPT !.stage = "evicting", !.evicts = evicts]
            [] x # k /\ edits[x].stage = "reading" /\ edits[x].owner = e.owner ->
                 [edits[x] EXCEPT !.seen = @ \ e.seen]
            [] OTHER -> edits[x]]
  BY <1>2 DEF CommitReplace
<1>6. ASSUME NEW x \in Clerk
      PROVE  /\ edits'[x] \in EditState
             /\ edits'[x].stage \in {"reading", "deleted"} =>
                  edits'[x].list \subseteq Entry(edits'[x].owner)
  <2>1. CASE x = k
    <3> DEFINE n == IF evicts = "none" THEN NoEdit
                    ELSE [NoEdit EXCEPT !.stage = "evicting", !.evicts = evicts]
    <3>1. n \in EditState /\ n.stage \notin {"reading", "deleted"}
      BY NoEditIsAnEdit DEF EditState
    <3>2. edits'[x] = n
      BY <2>1, <1>5
    <3> HIDE DEF n
    <3> QED
      BY <3>1, <3>2
  <2>2. CASE x # k
    <3>1. PICK old \in EditState : old = edits[x]
      BY <1>1 DEF EditsInv
    <3> DEFINE n == [old EXCEPT !.seen = @ \ e.seen]
    <3>2. n \in EditState /\ n.stage = old.stage /\ n.list = old.list /\ n.owner = old.owner
      BY DEF EditState
    <3>3. edits'[x] = n \/ edits'[x] = old
      BY <2>2, <1>5, <3>1
    <3> HIDE DEF n
    <3>4. old.stage \in {"reading", "deleted"} => old.list \subseteq Entry(old.owner)
      BY <1>1, <3>1 DEF EditsInv
    <3> QED
      BY <3>1, <3>2, <3>3, <3>4
  <2> QED
    BY <2>1, <2>2
<1>7. EditsInv'
  <2>1. edits' = [x \in Clerk |-> edits'[x]]
    BY <1>5
  <2>2. edits' \in [Clerk -> EditState]
    BY <1>6, <2>1
  <2> QED
    BY <1>6, <2>2 DEF EditsInv, Entry
<1>8. changes' \in 0 .. MaxChanges
  BY ChangesAssumption DEF CommitReplace, AccessInv, AccessTypeOK
<1> QED
  BY <1>4, <1>7, <1>8, CommandKeeps DEF CommitReplace

LEMMA AbandonStep ==
  ASSUME AccessInv, Remember, NEW k \in Clerk, Abandon(k) PROVE AccessInv'
<1>1. PICK e \in EditState : e = NoEdit /\ e.stage \notin {"reading", "deleted"}
  BY NoEditIsAnEdit
<1>2. edits' = [edits EXCEPT ![k] = e]
  BY <1>1 DEF Abandon
<1> QED
  BY <1>1, <1>2, EditKeeps DEF Abandon

LEMMA EvictStep ==
  ASSUME AccessInv, Remember, NEW k \in Clerk, Evict(k) PROVE AccessInv'
<1>1. PICK e \in EditState : e = NoEdit /\ e.stage \notin {"reading", "deleted"}
  BY NoEditIsAnEdit
<1>2. edits' = [edits EXCEPT ![k] = e]
  BY <1>1 DEF Evict
<1>3. EditsInv'
  BY <1>1, <1>2, EditChanges
<1>4. roleCache \in [Role -> SUBSET SUBSET Permission]
  BY DEF AccessInv, AccessTypeOK
<1>5. /\ principalCache' \in {{}, principalCache}
      /\ roleCache' \in {[r \in Role |-> {}], roleCache}
  BY DEF Evict
<1>6. /\ roleCache' \in [Role -> SUBSET SUBSET Permission]
      /\ \A r \in Role : roleCache'[r] \in {{}, roleCache[r]}
  BY <1>4, <1>5
<1> QED
  BY <1>3, <1>5, <1>6, EntriesLeave DEF Evict

-----------------------------------------------------------------------------
(* The guards: every step *)

LEMMA AccessInitHolds ==
  ASSUME AccessInit PROVE AccessInv
<1>1. \A q \in Request : requests[q] = NoCall
  BY DEF AccessInit
<1>2. requests \in [Request -> RequestState]
  BY NoCallIsARequest DEF AccessInit
<1>3. edits \in [Clerk -> EditState] /\ \A k \in Clerk : edits[k] = NoEdit
  BY NoEditIsAnEdit DEF AccessInit
<1>4. AccessTypeOK
  BY <1>2, <1>3, ChangesAssumption DEF AccessInit, AccessTypeOK
<1>5. ListsInv
  <2>1. \A k \in Clerk : edits[k].stage \notin {"reading", "deleted"}
    BY <1>3, NoEditIsAnEdit
  <2>2. lists \in [Owner -> SUBSET (Role \cup Permission)]
    BY DEF AccessInit
  <2> QED
    BY <2>1, <2>2 DEF ListsInv
<1>6. TablesInv
  <2>1. \A r \in Role : lists[r] = {}
    BY EntriesAreKnown DEF AccessInit
  <2> QED
    BY <2>1 DEF AccessInit, TablesInv
<1>7. CachesInv
  BY DEF AccessInit, CachesInv
<1>8. RequestsInv
  BY <1>1, NoCallIsARequest DEF RequestsInv, RowsGiven
<1> QED
  BY <1>4, <1>5, <1>6, <1>7, <1>8 DEF AccessInv

LEMMA AccessStepHolds ==
  ASSUME AccessInv, [AccessNext]_accessVars PROVE AccessInv'
<1>1. CASE UNCHANGED accessVars
  BY <1>1 DEF accessVars, AccessInv, AccessTypeOK, ListsInv, TablesInv, CachesInv, RequestsInv,
              RowsGiven, PermissionGiven, Entry
<1>2. CASE AccessNext
  <2>1. Remember
    BY <1>2 DEF AccessNext
  <2>2. ASSUME NEW q \in Request,
               Asks(q) \/ Fill(q) \/ ReadsRoles(q) \/ FillRoles(q) \/ Ends(q)
        PROVE  AccessInv'
    BY <2>1, <2>2, AsksStep, FillStep, ReadsRolesStep, FillRolesStep, EndsStep
  <2>3. CASE PrincipalExpires
    BY <2>1, <2>3, PrincipalExpiresStep
  <2>4. ASSUME NEW r \in Role, RoleExpires(r) PROVE AccessInv'
    BY <2>1, <2>4, RoleExpiresStep
  <2>5. ASSUME NEW k \in Clerk,
               EmployeeController(k) \/ Employee2Controller(k) \/ RoleController(k)
        PROVE  AccessInv'
    BY <2>1, <2>5, EmployeeControllerStep, Employee2ControllerStep, RoleControllerStep
  <2>6. ASSUME NEW k \in Clerk,
               \/ DeleteRole(k) \/ BeginReplace(k) \/ DeleteSeen(k)
               \/ CommitReplace(k) \/ Abandon(k) \/ Evict(k)
        PROVE  AccessInv'
    BY <2>1, <2>6, DeleteRoleStep, BeginReplaceStep, DeleteSeenStep, CommitReplaceStep,
       AbandonStep, EvictStep
  <2> QED
    BY <1>2, <2>2, <2>3, <2>4, <2>5, <2>6 DEF AccessNext, AccessMove
<1> QED
  BY <1>1, <1>2

LEMMA AccessInvHolds == AccessSpec => []AccessInv
BY AccessInitHolds, AccessStepHolds, PTL DEF AccessSpec

\* The tables of employees, units and roles, both caches, and all that a
\* request or a command carries between two of its steps keep their types:
\* a unit only ever has roles, a role only permissions.
THEOREM AccessTypeCorrect == AccessSpec => []AccessTypeOK
<1>1. AccessInv => AccessTypeOK
  BY DEF AccessInv
<1> QED
  BY <1>1, AccessInvHolds, PTL

\* Whatever order loads, fills, evictions and expiry come in, the guards of a
\* request let it pass only with a permission that some role had, of a role
\* that the employee had, each at some time.
THEOREM PassesAreGiven == AccessSpec => []PassesWithGivenRoles
<1>1. ASSUME AccessInv PROVE PassesWithGivenRoles
  <2>1. ASSUME NEW q \in Request, MayPass(requests[q]), NEW p \in Needed
        PROVE  \E r \in given.roles : <<r, p>> \in given.permissions
    <3>1. PICK row \in requests[q].rows : row[1] \in Desk /\ p \in requests[q].grants[row[2]]
      BY <2>1 DEF MayPass, GrantsOf
    <3>2. requests[q].rows \subseteq Unit \X Role
      BY <1>1 DEF AccessInv, AccessTypeOK, RequestState
    <3>3. row[2] \in Role
      BY <3>1, <3>2
    <3> QED
      BY <1>1, <3>1, <3>3 DEF AccessInv, RequestsInv, RowsGiven, PermissionGiven
  <2> QED
    BY <2>1 DEF PassesWithGivenRoles
<1> QED
  BY <1>1, AccessInvHolds, PTL
=============================================================================
