------------------------------- MODULE Tracking -------------------------------
(***************************************************************************)
(* Live tracking: drivers report positions over a socket, the gateway      *)
(* checks that the driver is on the trip (or remembers that it checked a   *)
(* moment ago), buffers the position in a Redis list and broadcasts it to  *)
(* the trip's room; a cron job drains the lists into trip_location_log.    *)
(*                                                                         *)
(*   position:  unsent --Report--> reading --ReadTrip--> read --Decide--+  *)
(*                 \--Report (remembered)---------------------> accepted   *)
(*              accepted --Push--> pushed,   read --Decide--> refused      *)
(*                                                                         *)
(* Each server is one process: what it remembers, the handlers it runs and *)
(* the batch it has drained die with it.  Trips belong to fleet and are    *)
(* seen here as their status and driver; fleet checks the trip it read and *)
(* writes it by id, so a late request overwrites what came between.        *)
(***************************************************************************)
EXTENDS Naturals, FiniteSets

CONSTANTS
  Trip,            \* trip ids
  Driver,          \* employees that drive
  NoDriver,        \* nobody remembered for a trip
  Server,          \* gateway processes
  Position,        \* positions the drivers may report in a run
  MaxRequests      \* bound: kinds of request under way on one trip at a time

ASSUME NoDriverAssumption == NoDriver \notin Driver

VARIABLES
  journeys,        \* fleet's trip rows: status and driver
  requests,        \* requests on a trip that have read it and not written it
  remembered,      \* tripAuthCache of each server, the unexpired entries
  reports,         \* the handler of each position: stage, trip, driver, server
  buffer,          \* positions in the Redis lists trip:locations:*
  batches,         \* positions a server drained and has not inserted yet
  logged,          \* trip_location_log: rows of each position
  lost,            \* positions that were drained and never inserted
  hasDriven        \* history: who was driving which trip while it was on the road

positionVars == <<reports, buffer, batches, logged, lost>>
tripVars == <<journeys, requests, hasDriven>>
trackingVars == <<tripVars, remembered, positionVars>>

-----------------------------------------------------------------------------
(* Trips and reports *)

Journey == [status: {"SCHEDULED", "IN_PROGRESS", "COMPLETED", "CANCELLED"}, driver: Driver]

ReportStage == {"unsent", "reading", "read", "accepted", "pushed", "refused"}

\* What a handler holds of the trip when it has not read it, or is done with it.
NotRead == CHOOSE journey \in Journey : journey.status = "SCHEDULED"

Report == [stage: ReportStage, trip: Trip, driver: Driver, server: Server, seen: Journey]

Requests == {"start", "complete", "cancel", "update"}

\* The status each request asserts on the trip it read, and the one it writes.
Asserted(op) == IF op = "complete" THEN "IN_PROGRESS" ELSE "SCHEDULED"

Written(op) == CASE op = "start" -> "IN_PROGRESS"
                 [] op = "complete" -> "COMPLETED"
                 [] op = "cancel" -> "CANCELLED"

OnTheRoad(t) == journeys[t].status = "IN_PROGRESS"

Ended(t) == journeys[t].status \in {"COMPLETED", "CANCELLED"}

\* Positions in the list of trip t.
ListOf(t) == {p \in buffer : reports[p].trip = t}

\* A report on trip t would pass, or one that read the trip earlier is about to.
Trusted(t) == \/ \E s \in Server : remembered[s][t] # NoDriver
              \/ \E p \in Position : /\ reports[p].trip = t
                                      /\ reports[p].stage = "read"
                                      /\ reports[p].seen.status = "IN_PROGRESS"

\* Who is on the road together, remembered for OnlyItsDriver.
Pairs(js) == {<<js[t].driver, t>> : t \in {u \in Trip : js[u].status = "IN_PROGRESS"}}

TrackingInit ==
  /\ journeys \in [Trip -> [status: {"SCHEDULED"}, driver: Driver]]
  /\ requests = [t \in Trip |-> {}]
  /\ remembered = [s \in Server |-> [t \in Trip |-> NoDriver]]
  /\ reports \in [Position -> [stage: {"unsent"}, trip: Trip, driver: Driver,
                               server: Server, seen: {NotRead}]]
  /\ buffer = {}
  /\ batches = [s \in Server |-> {}]
  /\ logged = [p \in Position |-> 0]
  /\ lost = {}
  /\ hasDriven = {}

-----------------------------------------------------------------------------
(* What fleet does to a trip *)

\* A request reads the trip and asserts its status.
BeginRequest(t) == \E op \in Requests \ requests[t] :
  /\ journeys[t].status = Asserted(op)
  /\ Cardinality(requests[t]) < MaxRequests
  /\ requests' = [requests EXCEPT ![t] = @ \cup {op}]
  /\ UNCHANGED <<journeys, hasDriven, remembered, positionVars>>

\* It is answered, unless another one that read the same is still under way.
Answered(t, op) == \/ requests' = [requests EXCEPT ![t] = @ \ {op}]
                   \/ UNCHANGED requests

\* Whatever the row says by now, the write is `where: { id }`.
WriteTrip(t, op, journey) ==
  /\ op \in requests[t]
  /\ journeys' = [journeys EXCEPT ![t] = journey]
  /\ Answered(t, op)
  /\ hasDriven' = hasDriven \cup Pairs(journeys')
  /\ UNCHANGED <<remembered, positionVars>>

\* startTrip, completeTrip and cancelTrip write the status they decided on.
Depart(t) == \E op \in Requests \ {"update"} :
               WriteTrip(t, op, [journeys[t] EXCEPT !.status = Written(op)])

\* updateTrip writes the driver and leaves the status alone.
Reassign(t) == \E d \in Driver \ {journeys[t].driver} :
                 WriteTrip(t, "update", [journeys[t] EXCEPT !.driver = d])

\* A request is refused after its read: no manifest, no such driver.
RefuseRequest(t) == \E op \in requests[t] :
  /\ requests' = [requests EXCEPT ![t] = @ \ {op}]
  /\ UNCHANGED <<journeys, hasDriven, remembered, positionVars>>

-----------------------------------------------------------------------------
(* A driver's position *)

At(p, stage) == reports[p].stage = stage

Turn(p, stage) == reports' = [reports EXCEPT ![p].stage = stage, ![p].seen = NotRead]

RemembersAnyone(s, t, d) == remembered[s][t] # NoDriver

Remembers(s, t, d) == remembered[s][t] = d

\* handleDriverLocation: an unexpired entry of this very driver is enough.
SendReport(p) ==
  LET r == reports[p] IN
  /\ At(p, "unsent")
  /\ Turn(p, IF Remembers(r.server, r.trip, r.driver) THEN "accepted" ELSE "reading")
  /\ UNCHANGED <<tripVars, remembered, buffer, batches, logged, lost>>

\* getTripDetails reads the trip, then resolves names before it returns.
ReadTrip(p) ==
  /\ At(p, "reading")
  /\ reports' = [reports EXCEPT ![p].stage = "read", ![p].seen = journeys[reports[p].trip]]
  /\ UNCHANGED <<tripVars, remembered, buffer, batches, logged, lost>>

\* assertDriverOwnsActiveTrip, once the trip has arrived: a trip that is not
\* on the road is forgotten, its driver is remembered, anyone else is refused.
Decide(p) ==
  LET r == reports[p]
      remember(d) == remembered' = [remembered EXCEPT ![r.server][r.trip] = d]
  IN /\ At(p, "read")
     /\ \/ /\ r.seen.status # "IN_PROGRESS"
           /\ Turn(p, "refused")
           /\ remember(NoDriver)
        \/ /\ r.seen.status = "IN_PROGRESS"
           /\ r.seen.driver # r.driver
           /\ Turn(p, "refused")
           /\ UNCHANGED remembered
        \/ /\ r.seen = [status |-> "IN_PROGRESS", driver |-> r.driver]
           /\ Turn(p, "accepted")
           /\ remember(r.driver)
     /\ UNCHANGED <<tripVars, buffer, batches, logged, lost>>

\* RPUSH, then the broadcast to whoever is in the room.
Push(p) ==
  /\ At(p, "accepted")
  /\ Turn(p, "pushed")
  /\ buffer' = buffer \cup {p}
  /\ UNCHANGED <<tripVars, remembered, batches, logged, lost>>

ExpiresNever(s, t) == FALSE /\ UNCHANGED trackingVars

\* Twenty seconds after it was remembered.
Expires(s, t) ==
  /\ remembered[s][t] # NoDriver
  /\ remembered' = [remembered EXCEPT ![s][t] = NoDriver]
  /\ UNCHANGED <<tripVars, positionVars>>

-----------------------------------------------------------------------------
(* The flush *)

DrainWithoutTrim(s, t) ==
  /\ batches[s] = {}
  /\ ListOf(t) # {}
  /\ batches' = [batches EXCEPT ![s] = ListOf(t)]
  /\ UNCHANGED <<tripVars, remembered, reports, buffer, logged, lost>>

DrainLongLists(s, t) ==
  /\ batches[s] = {}
  /\ Cardinality(ListOf(t)) > 1
  /\ batches' = [batches EXCEPT ![s] = ListOf(t)]
  /\ buffer' = buffer \ ListOf(t)
  /\ UNCHANGED <<tripVars, remembered, reports, logged, lost>>

\* flushKey: LRANGE and LTRIM in one MULTI.  A flush that outlasts its interval
\* meets the next one, of its own process or of another: a server holds one
\* batch here, so the overlap is always that of two servers.
Drain(s, t) ==
  /\ batches[s] = {}
  /\ ListOf(t) # {}
  /\ batches' = [batches EXCEPT ![s] = ListOf(t)]
  /\ buffer' = buffer \ ListOf(t)
  /\ UNCHANGED <<tripVars, remembered, reports, logged, lost>>

\* createMany is one statement: every row of the batch or none.
Insert(s) ==
  /\ batches[s] # {}
  /\ logged' = [p \in Position |-> IF p \in batches[s] THEN logged[p] + 1 ELSE logged[p]]
  /\ batches' = [batches EXCEPT ![s] = {}]
  /\ UNCHANGED <<tripVars, remembered, reports, buffer, lost>>

\* The insert fails; the error is logged and the batch is not put back.
InsertFails(s) ==
  /\ batches[s] # {}
  /\ lost' = lost \cup batches[s]
  /\ batches' = [batches EXCEPT ![s] = {}]
  /\ UNCHANGED <<tripVars, remembered, reports, buffer, logged>>

\* A process ends: its memory, its batch and the handlers it was running go.
Restart(s) ==
  /\ remembered' = [remembered EXCEPT ![s] = [t \in Trip |-> NoDriver]]
  /\ lost' = lost \cup batches[s]
  /\ batches' = [batches EXCEPT ![s] = {}]
  /\ reports' = [p \in Position |->
       IF reports[p].server = s /\ reports[p].stage \in {"reading", "read", "accepted"}
         THEN [reports[p] EXCEPT !.stage = "refused", !.seen = NotRead] ELSE reports[p]]
  /\ UNCHANGED <<tripVars, buffer, logged>>

-----------------------------------------------------------------------------
TrackingNext ==
  \/ \E t \in Trip : BeginRequest(t) \/ Depart(t) \/ Reassign(t) \/ RefuseRequest(t)
  \/ \E p \in Position : SendReport(p) \/ ReadTrip(p) \/ Decide(p) \/ Push(p)
  \/ \E s \in Server, t \in Trip : Expires(s, t) \/ Drain(s, t)
  \/ \E s \in Server : Insert(s) \/ InsertFails(s) \/ Restart(s)

TrackingSpec == TrackingInit /\ [][TrackingNext]_trackingVars

\* A handler that was started runs on, an entry of the memory reaches its
\* twenty seconds, and the cron job fires again and again.  Nothing is assumed
\* of drivers or of fleet.
TrackingFairness ==
  /\ \A p \in Position : /\ WF_trackingVars(ReadTrip(p))
                         /\ WF_trackingVars(Decide(p))
                         /\ WF_trackingVars(Push(p))
  /\ \A s \in Server, t \in Trip : WF_trackingVars(Expires(s, t))
  /\ \A t \in Trip : SF_trackingVars(\E s \in Server : Drain(s, t))
  /\ \A s \in Server : WF_trackingVars(Insert(s) \/ InsertFails(s))

-----------------------------------------------------------------------------
(* Properties *)

TrackingTypeOK ==
  /\ journeys \in [Trip -> Journey]
  /\ requests \in [Trip -> SUBSET Requests]
  /\ remembered \in [Server -> [Trip -> Driver \cup {NoDriver}]]
  /\ reports \in [Position -> Report]
  /\ buffer \subseteq Position
  /\ batches \in [Server -> SUBSET Position]
  /\ logged \in [Position -> Nat]
  /\ lost \subseteq Position
  /\ hasDriven \subseteq Driver \X Trip

\* A position that was pushed is in exactly one place: its list, one server's
\* batch, one row of the log, or lost with a batch.  Flushes that overlap, on
\* one server or on several, never store it twice.
InOnePlace ==
  \A p \in Position :
    Cardinality({s \in Server : p \in batches[s]}) + logged[p]
      + (IF p \in buffer THEN 1 ELSE 0) + (IF p \in lost THEN 1 ELSE 0)
    = (IF At(p, "pushed") THEN 1 ELSE 0)

\* Nobody's position is taken for a trip that person was never driving, though
\* the check may be a remembered one and the trip may change hands under it.
OnlyItsDriver ==
  \A p \in Position : reports[p].stage \in {"accepted", "pushed"} =>
                        <<reports[p].driver, reports[p].trip>> \in hasDriven

\* Once a trip has ended for good its positions stop being taken: what the
\* servers remember of it runs out, however the last checks and the requests
\* that overtook its end were interleaved with it.
EndedTripFallsSilent ==
  \A t \in Trip : <>[]Ended(t) => <>[]~Trusted(t)

\* A position in a list leaves it for the log, or is lost with its batch.
BufferIsFlushed ==
  \A p \in Position : p \in buffer ~> (logged[p] > 0 \/ p \in lost)
=============================================================================
