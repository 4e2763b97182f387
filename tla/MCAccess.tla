------------------------------- MODULE MCAccess -------------------------------
(***************************************************************************)
(* An instance of Sessions and Access for TLC.  A token names a profile    *)
(* and Access asks what the profile may do: they share no row, so a        *)
(* behaviour of both is checked as a behaviour of each; `part` says which. *)
(***************************************************************************)
EXTENDS Sessions, Access

CONSTANTS l1, l2, h1, h2, u1, u2, r1, p1, q1, k1, k2

VARIABLE part

partVars == <<part, sessionVars, accessVars>>

\* A customer; an employee who drives; one who owns the company too.
Users ==
  LET row(a, e, v, c) ==
        [owner |-> FALSE, admin |-> a, employee |-> e, vehicle |-> v, customer |-> c]
  IN  {row(FALSE, "none", FALSE, TRUE), row(FALSE, "active", TRUE, FALSE),
       row(TRUE, "inactive", TRUE, TRUE)}

\* The part that stays as it is starts in one state.
MCInit ==
  /\ SessionsInit /\ AccessInit
  /\ \/ part = "sessions" /\ employee = "none"
     \/ part = "access" /\ user = CHOOSE row \in UserRows : TRUE

MCNext ==
  /\ UNCHANGED part
  /\ \/ part = "sessions" /\ SessionsNext /\ UNCHANGED accessVars
     \/ part = "access" /\ AccessNext /\ UNCHANGED sessionVars

\* What is fair in Access is fair in the part that runs it.
MCSpec == MCInit /\ [][MCNext]_partVars /\ AccessFairness
=============================================================================
