------------------------------- MODULE Sessions -------------------------------
(***************************************************************************)
(* Signing in: the profiles of a user, the sessions that logins open, and  *)
(* the refresh tokens that are exchanged one for the next.  A login with a *)
(* profile, and each choice of one after a login without, begins a line of *)
(* sessions of its own.                                                    *)
(*                                                                         *)
(*   idle --Login | SelectProfile--> opening --Open--> idle                *)
(*   idle --Refresh--> found --Rotate--> opening --Open--> idle            *)
(*                                                                         *)
(* A refresh token carries the id of its session and works while that row  *)
(* exists.  The row is deleted and its successor inserted by two           *)
(* statements with no transaction around them.  The token that lets a user *)
(* choose a profile is in no table: it is good for any number of choices   *)
(* until it expires.                                                       *)
(***************************************************************************)
EXTENDS Naturals, FiniteSets

CONSTANTS
  Line,            \* lines of sessions: one is begun by each login or choice
  Handler,         \* requests served at the same time
  MaxSessions,     \* bound: rows of user_session, their ids in order
  UserRows         \* rows a user may have in the profile tables

ASSUME SessionBound == MaxSessions \in Nat \ {0}
ASSUME LineAssumption == Line # {}

ProfileType == {"PLATFORM_OWNER", "TENANT_ADMIN", "EMPLOYEE", "DRIVER", "CUSTOMER"}

ASSUME UserRowsAssumption ==
  UserRows \subseteq [owner: BOOLEAN, admin: BOOLEAN, employee: {"none", "active", "inactive"},
                      vehicle: BOOLEAN, customer: BOOLEAN]

VARIABLES
  user,            \* the user's rows: platform_admin, tenant_owner, employee,
                   \* an active vehicle_assignment, customer_profile
  sessions,        \* table user_session: the line a row belongs to, if it is live
  choosing,        \* an unexpired session token is out: it may choose a profile
  handlers         \* requests in flight

sessionVars == <<user, sessions, choosing, handlers>>

-----------------------------------------------------------------------------
(* Profiles, rows and requests *)

SessionId == 1 .. MaxSessions

\* getIdentityByEmail: a profile per row; an employee who has a vehicle is a
\* driver too, and both are active while the employee is.
ActiveProfiles ==
  {p \in ProfileType :
    \/ p = "PLATFORM_OWNER" /\ user.owner
    \/ p = "TENANT_ADMIN" /\ user.admin
    \/ p = "EMPLOYEE" /\ user.employee = "active"
    \/ p = "DRIVER" /\ user.employee = "active" /\ user.vehicle
    \/ p = "CUSTOMER" /\ user.customer}

Session == [made: BOOLEAN, live: BOOLEAN, line: Line, profile: ProfileType]

HandlerState == [stage: {"idle", "found", "opening"}, line: Line, profile: ProfileType,
                 session: SessionId]

NoRequest == [stage |-> "idle", line |-> CHOOSE l \in Line : TRUE,
              profile |-> "CUSTOMER", session |-> 1]

Serving(h, stage) == handlers[h].stage = stage

Goes(h, request) == handlers' = [handlers EXCEPT ![h] = request]

Opening(l, p) == [NoRequest EXCEPT !.stage = "opening", !.line = l, !.profile = p]

RowsOpen(l) == {i \in SessionId : sessions[i].live /\ sessions[i].line = l}

Begun(l) == \/ \E i \in SessionId : sessions[i].made /\ sessions[i].line = l
            \/ \E h \in Handler : handlers[h].stage # "idle" /\ handlers[h].line = l

SessionsInit ==
  /\ user \in UserRows
  /\ sessions = [i \in SessionId |-> [made |-> FALSE, live |-> FALSE,
                   line |-> CHOOSE l \in Line : TRUE, profile |-> "CUSTOMER"]]
  /\ choosing = FALSE
  /\ handlers = [h \in Handler |-> NoRequest]

-----------------------------------------------------------------------------
(* Signing in *)

\* login: the profile that was asked for, or the only one there is; with more
\* than one and none asked for, a session token of fifteen minutes.
Login(h, l) ==
  /\ Serving(h, "idle")
  /\ ~Begun(l)
  /\ \/ \E p \in ActiveProfiles : Goes(h, Opening(l, p)) /\ UNCHANGED choosing
     \/ /\ Cardinality(ActiveProfiles) > 1
        /\ choosing' = TRUE
        /\ UNCHANGED handlers
  /\ UNCHANGED <<user, sessions>>

\* selectProfile reads the profiles again, and leaves the token as good as it was.
SelectProfile(h, l) ==
  /\ Serving(h, "idle")
  /\ choosing
  /\ ~Begun(l)
  /\ \E p \in ActiveProfiles : Goes(h, Opening(l, p))
  /\ UNCHANGED <<user, sessions, choosing>>

\* The last session token that is out runs out.
TokenExpires ==
  /\ choosing
  /\ choosing' = FALSE
  /\ UNCHANGED <<user, sessions, handlers>>

\* generateTokens: a new row, and the tokens that name it.
Open(h) ==
  LET r == handlers[h] IN
  /\ Serving(h, "opening")
  /\ \E i \in SessionId :
       /\ ~sessions[i].made /\ \A j \in 1 .. i - 1 : sessions[j].made
       /\ sessions' = [sessions EXCEPT ![i] =
            [made |-> TRUE, live |-> TRUE, line |-> r.line, profile |-> r.profile]]
  /\ Goes(h, NoRequest)
  /\ UNCHANGED <<user, choosing>>

-----------------------------------------------------------------------------
(* Refreshing and signing out *)

\* refreshToken: the row is there and its hash is that of the token.
Refresh(h) == \E i \in SessionId :
  /\ Serving(h, "idle")
  /\ sessions[i].live
  /\ Goes(h, [stage |-> "found", line |-> sessions[i].line,
              profile |-> sessions[i].profile, session |-> i])
  /\ UNCHANGED <<user, sessions, choosing>>

DeletesAny(i) == TRUE

\* delete, unlike deleteMany, fails when another request took the row first.
DeletesRow(i) == sessions[i].live

\* Rotation: the row is deleted; the successor keeps the token's profile,
\* whatever became of it since the login.
Rotate(h) ==
  LET r == handlers[h] IN
  /\ Serving(h, "found")
  /\ DeletesRow(r.session)
  /\ sessions' = [sessions EXCEPT ![r.session].live = FALSE]
  /\ Goes(h, Opening(r.line, r.profile))
  /\ UNCHANGED <<user, choosing>>

\* The delete finds no row, or the process ends: the request is over, and a
\* rotation that was half done leaves its line without a session.
Fails(h) ==
  /\ ~Serving(h, "idle")
  /\ Goes(h, NoRequest)
  /\ UNCHANGED <<user, sessions, choosing>>

\* logout: deleteMany by the session id of the access token, which may be an
\* older one than the line's last.
Logout == \E i \in SessionId :
  /\ sessions[i].live
  /\ sessions' = [sessions EXCEPT ![i].live = FALSE]
  /\ UNCHANGED <<user, choosing, handlers>>

\* The other modules change the user's rows.
ChangeUser == \E rows \in UserRows \ {user} :
  /\ user' = rows
  /\ UNCHANGED <<sessions, choosing, handlers>>

SessionsNext ==
  \/ \E h \in Handler, l \in Line : Login(h, l) \/ SelectProfile(h, l)
  \/ \E h \in Handler : Open(h) \/ Refresh(h) \/ Rotate(h) \/ Fails(h)
  \/ Logout
  \/ TokenExpires
  \/ ChangeUser

SessionsSpec == SessionsInit /\ [][SessionsNext]_sessionVars

-----------------------------------------------------------------------------
(* Properties *)

SessionsTypeOK ==
  /\ user \in UserRows
  /\ sessions \in [SessionId -> Session]
  /\ choosing \in BOOLEAN
  /\ handlers \in [Handler -> HandlerState]

\* However often and however concurrently the tokens of one line are exchanged,
\* they never become two sessions.  One login may well begin several lines.
LinesNeverFork ==
  \A l \in Line :
    Cardinality(RowsOpen(l))
      + Cardinality({h \in Handler : Serving(h, "opening") /\ handlers[h].line = l}) <= 1
=============================================================================
