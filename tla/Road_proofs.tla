------------------------------ MODULE Road_proofs ------------------------------
(***************************************************************************)
(* What holds of live tracking, of its rooms and of the vehicle register   *)
(* for any trips, drivers, servers, positions, sockets, vehicles, requests *)
(* and assignments.                                                        *)
(*                                                                         *)
(* Tracking.  A position has at most one place, and has one exactly when   *)
(* it was pushed (Placed): a drain empties the list it copies in the same  *)
(* step, so what another server finds in the list is in no batch.  Whoever *)
(* a check admits was read as the driver of a trip on the road (Vouched),  *)
(* by the report that is being handled or by the one a server remembers.   *)
(* Trust in a trip comes only from a read of it on the road, or from a     *)
(* report that is trusted already, so a trip that left the road, or never  *)
(* was on it, cannot get it back there.                                    *)
(*                                                                         *)
(* Rooms.  What a socket is granted is what the filter answered, of what   *)
(* it had asked; a grant, and the check of a driver's position, are the    *)
(* only ways into a room.                                                  *)
(*                                                                         *)
(* Vehicles.  OneDriverOneVehicle is inductive with the types.  The only   *)
(* step that makes a row active is WriteAssignment, and what IndexAdmits   *)
(* says then is exactly that no active row has this vehicle or this        *)
(* driver; what the request checked before it is never used.               *)
(***************************************************************************)
EXTENDS Tracking, TripRooms, Vehicles, FiniteSetTheorems, TLAPS

(* Live tracking *)

InBatch(p) == \E s \in Server : p \in batches[s]

\* One place at most, and one as soon as the position was pushed.
Placed ==
  \A p \in Position :
    /\ p \in buffer => p \notin lost /\ logged[p] = 0 /\ ~InBatch(p)
    /\ p \in lost => logged[p] = 0 /\ ~InBatch(p)
    /\ logged[p] \in {0, 1}
    /\ logged[p] = 1 => ~InBatch(p)
    /\ \A s, u \in Server : p \in batches[s] /\ p \in batches[u] => s = u
    /\ At(p, "pushed") <=> p \in buffer \/ p \in lost \/ logged[p] = 1 \/ InBatch(p)

\* Who is on the road, who is remembered and who was read as a trip's driver
\* have all been driving that trip.
Vouched ==
  /\ \A t \in Trip : OnTheRoad(t) => <<journeys[t].driver, t>> \in hasDriven
  /\ \A s \in Server, t \in Trip :
       remembered[s][t] # NoDriver => <<remembered[s][t], t>> \in hasDriven
  /\ \A p \in Position : At(p, "read") /\ reports[p].seen.status = "IN_PROGRESS" =>
       <<reports[p].seen.driver, reports[p].trip>> \in hasDriven
  /\ OnlyItsDriver

\* The inductive invariant.
TrackingInv == TrackingTypeOK /\ Placed /\ Vouched

LEMMA NotReadType == ASSUME Driver # {} PROVE NotRead \in Journey
<1>1. PICK d \in Driver : TRUE
  OBVIOUS
<1>2. [status |-> "SCHEDULED", driver |-> d] \in Journey
  BY DEF Journey
<1>3. \E journey \in Journey : journey.status = "SCHEDULED"
  BY <1>2
<1> QED
  BY <1>3 DEF NotRead

LEMMA TrackingInitHolds == TrackingInit => TrackingInv
<1> SUFFICES ASSUME TrackingInit PROVE TrackingInv
  OBVIOUS
<1>1. journeys \in [Trip -> Journey]
  BY DEF TrackingInit, Journey
<1>2. ASSUME NEW p \in Position
      PROVE  reports[p] \in Report /\ reports[p].stage = "unsent"
  <2>1. reports[p] \in [stage: {"unsent"}, trip: Trip, driver: Driver, server: Server,
                        seen: {NotRead}]
    BY DEF TrackingInit
  <2>2. NotRead \in Journey
    BY <2>1, NotReadType
  <2> QED
    BY <2>1, <2>2 DEF Report, ReportStage
<1>3. reports \in [Position -> Report]
  BY <1>2 DEF TrackingInit
<1>4. TrackingTypeOK
  BY <1>1, <1>3 DEF TrackingInit, TrackingTypeOK
<1>5. Placed
  BY <1>2 DEF TrackingInit, Placed, InBatch, At
<1>6. Vouched
  BY <1>2 DEF TrackingInit, Vouched, OnlyItsDriver, OnTheRoad, At
<1> QED
  BY <1>4, <1>5, <1>6 DEF TrackingInv

-----------------------------------------------------------------------------
(* Trips *)

\* A request that changes no trip changes nothing a position depends on.
LEMMA RequestsHold ==
  ASSUME TrackingInv, NEW t \in Trip, BeginRequest(t) \/ RefuseRequest(t)
  PROVE  TrackingInv'
<1>1. UNCHANGED <<journeys, remembered, reports, buffer, batches, logged, lost, hasDriven>>
  BY DEF BeginRequest, RefuseRequest, positionVars
<1>2. requests' \in [Trip -> SUBSET Requests]
  BY DEF BeginRequest, RefuseRequest, TrackingInv, TrackingTypeOK
<1>3. TrackingTypeOK'
  BY <1>1, <1>2 DEF TrackingInv, TrackingTypeOK
<1>4. Placed' /\ Vouched'
  BY <1>1 DEF TrackingInv, Placed, InBatch, Vouched, OnlyItsDriver, OnTheRoad, At
<1> QED
  BY <1>3, <1>4 DEF TrackingInv

\* Whatever fleet writes to a trip, its driver is noted if it is on the road.
LEMMA WriteHolds ==
  ASSUME TrackingInv, NEW t \in Trip, NEW op \in Requests, NEW journey \in Journey,
         WriteTrip(t, op, journey)
  PROVE  TrackingInv'
<1>1. journeys' \in [Trip -> Journey] /\ requests' \in [Trip -> SUBSET Requests]
  BY DEF TrackingInv, TrackingTypeOK, WriteTrip, Answered
<1>2. UNCHANGED <<remembered, reports, buffer, batches, logged, lost>>
  BY DEF WriteTrip, positionVars
<1>3. hasDriven' = hasDriven \cup Pairs(journeys')
  BY DEF WriteTrip
<1>4. Pairs(journeys') \subseteq Driver \X Trip
  BY <1>1 DEF Pairs, Journey
<1>5. TrackingTypeOK'
  BY <1>1, <1>2, <1>3, <1>4 DEF TrackingInv, TrackingTypeOK
<1>6. Placed'
  BY <1>2 DEF TrackingInv, Placed, InBatch, At
<1>7. \A u \in Trip : journeys'[u].status = "IN_PROGRESS" =>
        <<journeys'[u].driver, u>> \in hasDriven'
  BY <1>3 DEF Pairs
<1>8. Vouched'
  BY <1>2, <1>3, <1>7 DEF TrackingInv, Vouched, OnlyItsDriver, OnTheRoad, At
<1> QED
  BY <1>5, <1>6, <1>8 DEF TrackingInv

LEMMA JourneysHold ==
  ASSUME TrackingInv, NEW t \in Trip, Depart(t) \/ Reassign(t)
  PROVE  TrackingInv'
<1>1. journeys[t] \in Journey
  BY DEF TrackingInv, TrackingTypeOK
<1>2. CASE Depart(t)
  <2>1. PICK op \in Requests \ {"update"} :
          WriteTrip(t, op, [journeys[t] EXCEPT !.status = Written(op)])
    BY <1>2 DEF Depart
  <2>2. [journeys[t] EXCEPT !.status = Written(op)] \in Journey
    BY <1>1, <2>1 DEF Journey, Written, Requests
  <2> QED
    BY <2>1, <2>2, WriteHolds
<1>3. CASE Reassign(t)
  <2>1. PICK d \in Driver : WriteTrip(t, "update", [journeys[t] EXCEPT !.driver = d])
    BY <1>3 DEF Reassign
  <2>2. [journeys[t] EXCEPT !.driver = d] \in Journey
    BY <1>1 DEF Journey
  <2>3. "update" \in Requests
    BY DEF Requests
  <2> QED
    BY <2>1, <2>2, <2>3, WriteHolds
<1> QED
  BY <1>2, <1>3

-----------------------------------------------------------------------------
(* Reports *)

\* A report that changes its stage, before it is pushed, has no place yet.
LEMMA TurnKeepsPlaces ==
  ASSUME TrackingInv, NEW p \in Position, NEW stage \in ReportStage \ {"pushed"},
         ~At(p, "pushed"), Turn(p, stage), UNCHANGED <<buffer, batches, logged, lost>>
  PROVE  reports' \in [Position -> Report] /\ Placed'
<1>1. reports' \in [Position -> Report]
  <2>1. reports[p] \in Report /\ NotRead \in Journey
    BY NotReadType DEF TrackingInv, TrackingTypeOK, Report
  <2>2. [reports[p] EXCEPT !.stage = stage, !.seen = NotRead] \in Report
    BY <2>1 DEF Report
  <2>3. reports' = [reports EXCEPT ![p] = [reports[p] EXCEPT !.stage = stage, !.seen = NotRead]]
    BY DEF Turn, TrackingInv, TrackingTypeOK
  <2> QED
    BY <2>2, <2>3 DEF TrackingInv, TrackingTypeOK
<1>2. \A q \in Position : At(q, "pushed")' <=> At(q, "pushed")
  BY DEF TrackingInv, TrackingTypeOK, Turn, At
<1>3. Placed'
  BY <1>2 DEF TrackingInv, Placed, InBatch
<1> QED
  BY <1>1, <1>3

\* A remembered driver is nobody else than the one that reports.
LEMMA SendHolds ==
  ASSUME TrackingInv, NEW p \in Position, SendReport(p)
  PROVE  TrackingInv'
<1> DEFINE r == reports[p]
<1> DEFINE stage == IF Remembers(r.server, r.trip, r.driver) THEN "accepted" ELSE "reading"
<1>1. r.trip \in Trip /\ r.driver \in Driver /\ r.server \in Server
  BY DEF TrackingInv, TrackingTypeOK, Report
<1>2. At(p, "unsent") /\ Turn(p, stage)
  BY DEF SendReport
<1>3. UNCHANGED <<journeys, requests, hasDriven, remembered, buffer, batches, logged, lost>>
  BY DEF tripVars, SendReport
<1>4. stage \in ReportStage \ {"pushed"} /\ ~At(p, "pushed")
  BY <1>2 DEF ReportStage, At
<1>5. reports' \in [Position -> Report] /\ Placed'
  BY <1>2, <1>3, <1>4, TurnKeepsPlaces
<1>6. TrackingTypeOK'
  BY <1>3, <1>5 DEF TrackingInv, TrackingTypeOK
<1>7. stage = "accepted" => <<r.driver, r.trip>> \in hasDriven
  BY <1>1, NoDriverAssumption DEF TrackingInv, Vouched, Remembers
<1>8. /\ reports' = [reports EXCEPT ![p].stage = stage, ![p].seen = NotRead]
      /\ stage \in {"accepted", "reading"}
  BY <1>2 DEF Turn
<1> HIDE DEF stage
<1>9. ASSUME NEW q \in Position, q # p
      PROVE  reports'[q] = reports[q]
  BY <1>8, <1>9 DEF TrackingInv, TrackingTypeOK
<1>10. /\ reports'[p].stage = stage
       /\ reports'[p].driver = r.driver
       /\ reports'[p].trip = r.trip
       /\ reports'[p].stage \in {"accepted", "reading"}
  BY <1>8 DEF TrackingInv, TrackingTypeOK, Report
<1>11. OnlyItsDriver'
  BY <1>3, <1>7, <1>9, <1>10 DEF TrackingInv, Vouched, OnlyItsDriver
<1>12. Vouched'
  BY <1>3, <1>9, <1>10, <1>11 DEF TrackingInv, Vouched, OnTheRoad, At
<1> QED
  BY <1>5, <1>6, <1>12 DEF TrackingInv

\* What a report read of a trip on the road is what was noted of it.
LEMMA ReadHolds ==
  ASSUME TrackingInv, NEW p \in Position, ReadTrip(p)
  PROVE  TrackingInv'
<1> DEFINE r == reports[p]
<1>1. r \in Report /\ r.trip \in Trip /\ journeys[r.trip] \in Journey
  BY DEF TrackingInv, TrackingTypeOK, Report
<1>2. UNCHANGED <<journeys, requests, hasDriven, remembered, buffer, batches, logged, lost>>
  BY DEF tripVars, ReadTrip
<1>3. ASSUME NEW q \in Position, q # p
      PROVE  reports'[q] = reports[q]
  BY <1>3 DEF ReadTrip, TrackingInv, TrackingTypeOK
<1>4. reports'[p] = [r EXCEPT !.stage = "read", !.seen = journeys[r.trip]]
  BY DEF ReadTrip, TrackingInv, TrackingTypeOK
<1>5. reports'[p] \in Report
  BY <1>1, <1>4 DEF Report, ReportStage
<1>6. /\ reports'[p].stage = "read"
      /\ reports'[p].seen = journeys[r.trip]
      /\ reports'[p].trip = r.trip
  BY <1>1, <1>4 DEF Report
<1>7. reports' \in [Position -> Report]
  BY <1>5 DEF ReadTrip, TrackingInv, TrackingTypeOK
<1>8. TrackingTypeOK'
  BY <1>2, <1>7 DEF TrackingInv, TrackingTypeOK
<1>9. \A q \in Position : At(q, "pushed")' <=> At(q, "pushed")
  BY <1>3, <1>6 DEF At, ReadTrip
<1>10. Placed'
  BY <1>2, <1>9 DEF TrackingInv, Placed, InBatch
<1>11. Vouched'
  BY <1>1, <1>2, <1>3, <1>6 DEF TrackingInv, Vouched, OnlyItsDriver, OnTheRoad, At
<1> QED
  BY <1>8, <1>10, <1>11 DEF TrackingInv

\* A report is accepted, and its driver remembered, on what it read.
LEMMA DecideHolds ==
  ASSUME TrackingInv, NEW p \in Position, Decide(p)
  PROVE  TrackingInv'
<1> DEFINE r == reports[p]
<1>1. r \in Report /\ r.trip \in Trip /\ r.driver \in Driver /\ r.server \in Server
  BY DEF TrackingInv, TrackingTypeOK, Report
<1>2. At(p, "read") /\ UNCHANGED <<journeys, requests, hasDriven, buffer, batches, logged, lost>>
  BY DEF tripVars, Decide
<1>3. ASSUME NEW stage \in {"accepted", "refused"}, NEW d \in Driver \cup {NoDriver},
             Turn(p, stage),
             \/ UNCHANGED remembered
             \/ remembered' = [remembered EXCEPT ![r.server][r.trip] = d],
             d # NoDriver => <<d, r.trip>> \in hasDriven,
             stage = "accepted" => <<r.driver, r.trip>> \in hasDriven
      PROVE  TrackingInv'
  <2>1. stage \in ReportStage \ {"pushed"} /\ ~At(p, "pushed")
    BY <1>2 DEF ReportStage, At
  <2>2. reports' \in [Position -> Report] /\ Placed'
    BY <1>2, <1>3, <2>1, TurnKeepsPlaces
  <2>3. remembered' \in [Server -> [Trip -> Driver \cup {NoDriver}]]
    <3>1. remembered \in [Server -> [Trip -> Driver \cup {NoDriver}]]
      BY DEF TrackingInv, TrackingTypeOK
    <3>2. [remembered EXCEPT ![r.server][r.trip] = d]
            \in [Server -> [Trip -> Driver \cup {NoDriver}]]
      BY <1>1, <3>1
    <3> QED
      BY <1>3, <3>1, <3>2
  <2>4. TrackingTypeOK'
    BY <1>2, <2>2, <2>3 DEF TrackingInv, TrackingTypeOK
  <2>5. ASSUME NEW q \in Position, q # p
        PROVE  reports'[q] = reports[q]
    BY <1>3, <2>5 DEF TrackingInv, TrackingTypeOK, Turn
  <2>6. /\ reports'[p].stage = stage
        /\ reports'[p].driver = r.driver
        /\ reports'[p].trip = r.trip
    BY <1>3 DEF TrackingInv, TrackingTypeOK, Report, Turn
  <2>7. ASSUME NEW s \in Server, NEW t \in Trip, remembered'[s][t] # NoDriver
        PROVE  <<remembered'[s][t], t>> \in hasDriven
    <3>1. remembered'[s][t] = remembered[s][t] \/ (t = r.trip /\ remembered'[s][t] = d)
      BY <1>1, <1>3 DEF TrackingInv, TrackingTypeOK
    <3> QED
      BY <1>3, <2>7, <3>1 DEF TrackingInv, Vouched
  <2>8. OnlyItsDriver'
    BY <1>2, <1>3, <2>5, <2>6 DEF TrackingInv, Vouched, OnlyItsDriver
  <2>9. Vouched'
    BY <1>2, <1>3, <2>5, <2>6, <2>7, <2>8 DEF TrackingInv, Vouched, OnTheRoad, At
  <2> QED
    BY <2>2, <2>4, <2>9 DEF TrackingInv
<1>4. CASE r.seen.status # "IN_PROGRESS"
  <2>1. Turn(p, "refused")
    BY <1>4 DEF Decide
  <2>2. remembered' = [remembered EXCEPT ![r.server][r.trip] = NoDriver]
    BY <1>4 DEF Decide
  <2> QED
    BY <1>3, <2>1, <2>2
<1>5. CASE r.seen.status = "IN_PROGRESS" /\ r.seen.driver # r.driver
  <2>1. Turn(p, "refused") /\ UNCHANGED remembered
    BY <1>5 DEF Decide
  <2> QED
    BY <1>3, <2>1
<1>6. CASE r.seen = [status |-> "IN_PROGRESS", driver |-> r.driver]
  <2>1. Turn(p, "accepted") /\ remembered' = [remembered EXCEPT ![r.server][r.trip] = r.driver]
    BY <1>6 DEF Decide
  <2>2. <<r.driver, r.trip>> \in hasDriven
    BY <1>2, <1>6 DEF TrackingInv, Vouched
  <2> QED
    BY <1>1, <1>3, <2>1, <2>2
<1> QED
  BY <1>4, <1>5, <1>6 DEF Decide

\* A position gets its first place when it is pushed.
LEMMA PushHolds ==
  ASSUME TrackingInv, NEW p \in Position, Push(p)
  PROVE  TrackingInv'
<1>1. /\ At(p, "accepted")
      /\ reports' = [reports EXCEPT ![p].stage = "pushed", ![p].seen = NotRead]
      /\ buffer' = buffer \cup {p}
      /\ UNCHANGED <<journeys, requests, hasDriven, remembered, batches, logged, lost>>
  BY DEF tripVars, Push, Turn
<1>2. reports' \in [Position -> Report]
  <2>1. reports[p] \in Report /\ NotRead \in Journey
    BY NotReadType DEF TrackingInv, TrackingTypeOK, Report
  <2>2. [reports[p] EXCEPT !.stage = "pushed", !.seen = NotRead] \in Report
    BY <2>1 DEF Report, ReportStage
  <2> QED
    BY <1>1, <2>2 DEF TrackingInv, TrackingTypeOK
<1>3. TrackingTypeOK'
  BY <1>1, <1>2 DEF TrackingInv, TrackingTypeOK
<1>4. ASSUME NEW q \in Position, q # p
      PROVE  reports'[q] = reports[q]
  BY <1>1, <1>4 DEF TrackingInv, TrackingTypeOK
<1>5. /\ reports'[p].stage = "pushed"
      /\ reports'[p].driver = reports[p].driver
      /\ reports'[p].trip = reports[p].trip
  BY <1>1 DEF TrackingInv, TrackingTypeOK, Report
<1>6. /\ p \notin buffer /\ p \notin lost /\ ~InBatch(p)
      /\ logged[p] = 0
  BY <1>1 DEF TrackingInv, Placed, At
<1>7. Placed'
  BY <1>1, <1>4, <1>5, <1>6 DEF TrackingInv, Placed, InBatch, At
<1>8. At(p, "accepted") /\ UNCHANGED <<journeys, remembered, hasDriven>>
  BY <1>1
<1>9. Vouched'
  BY <1>4, <1>5, <1>8 DEF TrackingInv, Vouched, OnlyItsDriver, OnTheRoad, At
<1> QED
  BY <1>3, <1>7, <1>9 DEF TrackingInv

LEMMA ExpiresHolds ==
  ASSUME TrackingInv, NEW s \in Server, NEW t \in Trip, Expires(s, t)
  PROVE  TrackingInv'
<1>1. remembered' = [remembered EXCEPT ![s][t] = NoDriver]
  BY DEF Expires
<1>2. UNCHANGED <<journeys, requests, hasDriven, reports, buffer, batches, logged, lost>>
  BY DEF tripVars, Expires, positionVars
<1>3. remembered' \in [Server -> [Trip -> Driver \cup {NoDriver}]]
  BY <1>1 DEF TrackingInv, TrackingTypeOK
<1>4. \A u \in Server, v \in Trip :
        remembered'[u][v] = remembered[u][v] \/ remembered'[u][v] = NoDriver
  BY <1>1 DEF TrackingInv, TrackingTypeOK
<1>5. TrackingTypeOK'
  BY <1>2, <1>3 DEF TrackingInv, TrackingTypeOK
<1>6. Placed'
  BY <1>2 DEF TrackingInv, Placed, InBatch, At
<1>7. Vouched'
  BY <1>2, <1>4 DEF TrackingInv, Vouched, OnlyItsDriver, OnTheRoad, At
<1> QED
  BY <1>5, <1>6, <1>7 DEF TrackingInv

-----------------------------------------------------------------------------
(* The flush *)

\* A flush changes no report, no trip and nothing that is remembered.
LEMMA FlushKeepsVouched ==
  ASSUME TrackingInv, UNCHANGED <<journeys, requests, hasDriven, remembered, reports>>
  PROVE  Vouched'
BY DEF TrackingInv, Vouched, OnlyItsDriver, OnTheRoad, At

\* What is drained leaves the list in the same step, for one batch.
LEMMA DrainHolds ==
  ASSUME TrackingInv, NEW s \in Server, NEW t \in Trip, Drain(s, t)
  PROVE  TrackingInv'
<1>1. /\ batches[s] = {}
      /\ batches' = [batches EXCEPT ![s] = ListOf(t)]
      /\ buffer' = buffer \ ListOf(t)
      /\ UNCHANGED <<journeys, requests, hasDriven, remembered, reports, logged, lost>>
  BY DEF tripVars, Drain
<1>2. ListOf(t) \subseteq buffer /\ buffer \subseteq Position
  BY DEF ListOf, TrackingInv, TrackingTypeOK
<1>3. TrackingTypeOK'
  BY <1>1, <1>2 DEF TrackingInv, TrackingTypeOK
<1>4. \A u \in Server : batches'[u] = IF u = s THEN ListOf(t) ELSE batches[u]
  BY <1>1 DEF TrackingInv, TrackingTypeOK
<1>5. ASSUME NEW p \in Position, p \in ListOf(t)
      PROVE  /\ p \notin buffer' /\ p \notin lost' /\ logged'[p] = 0 /\ InBatch(p)'
             /\ At(p, "pushed")'
             /\ \A u \in Server : p \in batches'[u] => u = s
  BY <1>1, <1>2, <1>4, <1>5 DEF TrackingInv, Placed, InBatch, At
<1>6. ASSUME NEW p \in Position, p \notin ListOf(t)
      PROVE  /\ p \in buffer' <=> p \in buffer
             /\ \A u \in Server : p \in batches'[u] <=> p \in batches[u]
  BY <1>1, <1>4, <1>6
<1>7. Placed'
  BY <1>1, <1>5, <1>6 DEF TrackingInv, Placed, InBatch, At
<1> QED
  BY <1>1, <1>3, <1>7, FlushKeepsVouched DEF TrackingInv

\* A batch that ends leaves its positions in no batch at all.
LEMMA BatchEnds ==
  ASSUME TrackingInv, NEW s \in Server, batches' = [batches EXCEPT ![s] = {}]
  PROVE  /\ batches' \in [Server -> SUBSET Position]
         /\ \A p \in Position : p \in batches[s] =>
              ~InBatch(p)' /\ p \notin buffer /\ p \notin lost /\ logged[p] = 0
         /\ \A p \in Position, u \in Server : p \notin batches[s] =>
              (p \in batches'[u] <=> p \in batches[u])
<1>1. \A u \in Server : batches'[u] = IF u = s THEN {} ELSE batches[u]
  BY DEF TrackingInv, TrackingTypeOK
<1>2. batches' \in [Server -> SUBSET Position]
  BY DEF TrackingInv, TrackingTypeOK
<1>3. ASSUME NEW p \in Position, p \in batches[s]
      PROVE  /\ ~InBatch(p)'
             /\ p \notin buffer /\ p \notin lost /\ logged[p] = 0
  BY <1>1, <1>3 DEF TrackingInv, Placed, InBatch
<1> QED
  BY <1>1, <1>2, <1>3

LEMMA InsertHolds ==
  ASSUME TrackingInv, NEW s \in Server, Insert(s)
  PROVE  TrackingInv'
<1>1. /\ logged' = [p \in Position |-> IF p \in batches[s] THEN logged[p] + 1 ELSE logged[p]]
      /\ batches' = [batches EXCEPT ![s] = {}]
      /\ UNCHANGED <<journeys, requests, hasDriven, remembered, reports, buffer, lost>>
  BY DEF tripVars, Insert
<1>2. logged' \in [Position -> Nat]
  BY <1>1 DEF TrackingInv, TrackingTypeOK
<1>3. TrackingTypeOK'
  BY <1>1, <1>2, BatchEnds DEF TrackingInv, TrackingTypeOK
<1>4. ASSUME NEW p \in Position, p \in batches[s]
      PROVE  /\ p \notin buffer' /\ p \notin lost' /\ logged'[p] = 1 /\ ~InBatch(p)'
             /\ At(p, "pushed")'
             /\ \A u \in Server : p \notin batches'[u]
  <2>1. ~InBatch(p)' /\ p \notin buffer /\ p \notin lost /\ logged[p] = 0
    BY <1>1, <1>4, BatchEnds
  <2>2. At(p, "pushed")
    BY <1>4 DEF TrackingInv, Placed, InBatch
  <2> QED
    BY <1>1, <1>4, <2>1, <2>2 DEF InBatch, At
<1>5. ASSUME NEW p \in Position, p \notin batches[s]
      PROVE  /\ logged'[p] = logged[p]
             /\ \A u \in Server : p \in batches'[u] <=> p \in batches[u]
  BY <1>1, <1>5, BatchEnds
<1>6. Placed'
  BY <1>1, <1>4, <1>5 DEF TrackingInv, Placed, InBatch, At
<1> QED
  BY <1>1, <1>3, <1>6, FlushKeepsVouched DEF TrackingInv

\* A batch that is lost, to a failed insert or with its process.
LEMMA LostBatch ==
  ASSUME TrackingInv, NEW s \in Server,
         lost' = lost \cup batches[s],
         batches' = [batches EXCEPT ![s] = {}],
         \A p \in Position : At(p, "pushed")' <=> At(p, "pushed"),
         UNCHANGED <<buffer, logged>>
  PROVE  Placed' /\ lost' \subseteq Position /\ batches' \in [Server -> SUBSET Position]
<1>1. lost' \subseteq Position /\ batches' \in [Server -> SUBSET Position]
  BY BatchEnds DEF TrackingInv, TrackingTypeOK
<1>2. ASSUME NEW p \in Position, p \in batches[s]
      PROVE  /\ p \notin buffer' /\ p \in lost' /\ logged'[p] = 0 /\ ~InBatch(p)'
             /\ At(p, "pushed")'
             /\ \A u \in Server : p \notin batches'[u]
  <2>1. ~InBatch(p)' /\ p \notin buffer /\ logged[p] = 0
    BY <1>2, BatchEnds
  <2>2. At(p, "pushed")
    BY <1>2 DEF TrackingInv, Placed, InBatch
  <2> QED
    BY <1>2, <2>1, <2>2 DEF InBatch
<1>3. ASSUME NEW p \in Position, p \notin batches[s]
      PROVE  /\ p \in lost' <=> p \in lost
             /\ \A u \in Server : p \in batches'[u] <=> p \in batches[u]
  BY <1>3, BatchEnds
<1>4. Placed'
  BY <1>2, <1>3 DEF TrackingInv, Placed, InBatch
<1> QED
  BY <1>1, <1>4

LEMMA InsertFailsHolds ==
  ASSUME TrackingInv, NEW s \in Server, InsertFails(s)
  PROVE  TrackingInv'
<1>1. /\ lost' = lost \cup batches[s]
      /\ batches' = [batches EXCEPT ![s] = {}]
      /\ UNCHANGED <<journeys, requests, hasDriven, remembered, reports, buffer, logged>>
  BY DEF tripVars, InsertFails
<1>2. \A p \in Position : At(p, "pushed")' <=> At(p, "pushed")
  BY <1>1 DEF At
<1>3. Placed' /\ lost' \subseteq Position /\ batches' \in [Server -> SUBSET Position]
  BY <1>1, <1>2, LostBatch
<1>4. TrackingTypeOK'
  BY <1>1, <1>3 DEF TrackingInv, TrackingTypeOK
<1> QED
  BY <1>1, <1>3, <1>4, FlushKeepsVouched DEF TrackingInv

\* A process that ends takes its handlers, none of which had pushed.
LEMMA RestartHolds ==
  ASSUME TrackingInv, NEW s \in Server, Restart(s)
  PROVE  TrackingInv'
<1>1. /\ remembered' = [remembered EXCEPT ![s] = [t \in Trip |-> NoDriver]]
      /\ lost' = lost \cup batches[s]
      /\ batches' = [batches EXCEPT ![s] = {}]
      /\ UNCHANGED <<journeys, requests, hasDriven, buffer, logged>>
  BY DEF tripVars, Restart
<1>2. ASSUME NEW p \in Position
      PROVE  /\ reports'[p] \in Report
             /\ reports'[p] = reports[p]
                \/ /\ reports'[p].stage = "refused"
                   /\ reports[p].stage \in {"reading", "read", "accepted"}
  <2>1. reports[p] \in Report /\ NotRead \in Journey
    BY NotReadType DEF TrackingInv, TrackingTypeOK, Report
  <2>2. reports'[p] = IF reports[p].server = s
                           /\ reports[p].stage \in {"reading", "read", "accepted"}
                        THEN [reports[p] EXCEPT !.stage = "refused", !.seen = NotRead]
                        ELSE reports[p]
    BY DEF Restart
  <2> QED
    BY <2>1, <2>2 DEF Report, ReportStage
<1>3. reports' \in [Position -> Report]
  BY <1>2 DEF Restart
<1>4. remembered' \in [Server -> [Trip -> Driver \cup {NoDriver}]]
  BY <1>1 DEF TrackingInv, TrackingTypeOK
<1>5. \A u \in Server, t \in Trip :
        remembered'[u][t] = remembered[u][t] \/ remembered'[u][t] = NoDriver
  BY <1>1 DEF TrackingInv, TrackingTypeOK
<1>6. \A p \in Position : At(p, "pushed")' <=> At(p, "pushed")
  BY <1>2 DEF At
<1>7. Placed' /\ lost' \subseteq Position /\ batches' \in [Server -> SUBSET Position]
  BY <1>1, <1>6, LostBatch
<1>8. TrackingTypeOK'
  BY <1>1, <1>3, <1>4, <1>7 DEF TrackingInv, TrackingTypeOK
<1>9. OnlyItsDriver'
  BY <1>1, <1>2 DEF TrackingInv, Vouched, OnlyItsDriver
<1>10. Vouched'
  BY <1>1, <1>2, <1>5, <1>9 DEF TrackingInv, Vouched, OnTheRoad, At
<1> QED
  BY <1>7, <1>8, <1>10 DEF TrackingInv

-----------------------------------------------------------------------------
LEMMA TrackingStepHolds == TrackingInv /\ [TrackingNext]_trackingVars => TrackingInv'
<1> SUFFICES ASSUME TrackingInv, [TrackingNext]_trackingVars PROVE TrackingInv'
  OBVIOUS
<1>1. CASE \E t \in Trip : BeginRequest(t) \/ Depart(t) \/ Reassign(t) \/ RefuseRequest(t)
  BY <1>1, RequestsHold, JourneysHold
<1>2. CASE \E p \in Position : SendReport(p) \/ ReadTrip(p) \/ Decide(p) \/ Push(p)
  BY <1>2, SendHolds, ReadHolds, DecideHolds, PushHolds
<1>3. CASE \E s \in Server, t \in Trip : Expires(s, t) \/ Drain(s, t)
  BY <1>3, ExpiresHolds, DrainHolds
<1>4. CASE \E s \in Server : Insert(s) \/ InsertFails(s) \/ Restart(s)
  BY <1>4, InsertHolds, InsertFailsHolds, RestartHolds
<1>5. CASE UNCHANGED trackingVars
  BY <1>5 DEF trackingVars, tripVars, positionVars, TrackingInv, TrackingTypeOK, Placed, Vouched,
              OnlyItsDriver, InBatch, OnTheRoad, At
<1> QED
  BY <1>1, <1>2, <1>3, <1>4, <1>5 DEF TrackingNext

\* The servers that hold a position in a batch are none or one.
LEMMA PlacesAreOne == TrackingInv => InOnePlace
<1> SUFFICES ASSUME TrackingInv, NEW p \in Position
             PROVE  Cardinality({s \in Server : p \in batches[s]}) + logged[p]
                      + (IF p \in buffer THEN 1 ELSE 0) + (IF p \in lost THEN 1 ELSE 0)
                    = (IF At(p, "pushed") THEN 1 ELSE 0)
  BY DEF InOnePlace
<1> DEFINE holders == {s \in Server : p \in batches[s]}
<1>1. CASE ~InBatch(p)
  <2>1. holders = {}
    BY <1>1 DEF InBatch
  <2>2. Cardinality(holders) = 0
    BY <2>1, FS_EmptySet
  <2> HIDE DEF holders
  <2> QED
    BY <1>1, <2>2 DEF TrackingInv, Placed, holders
<1>2. CASE InBatch(p)
  <2>1. PICK s \in Server : p \in batches[s]
    BY <1>2 DEF InBatch
  <2>2. holders = {s}
    BY <2>1 DEF TrackingInv, Placed
  <2>3. Cardinality(holders) = 1
    BY <2>2, FS_Singleton
  <2>4. logged[p] = 0 /\ p \notin buffer /\ p \notin lost /\ At(p, "pushed")
    BY <1>2 DEF TrackingInv, Placed
  <2> QED
    BY <2>3, <2>4
<1> QED
  BY <1>1, <1>2

\* However many servers flush at once, fail or restart, a pushed position is in
\* its list, in one batch, in one row of the log or lost: never twice.
THEOREM PositionsAreInOnePlace == TrackingSpec => []InOnePlace
BY PlacesAreOne, TrackingInitHolds, TrackingStepHolds, PTL DEF TrackingSpec

\* A position is taken only for a trip its sender was driving at some time,
\* though the check is remembered and the trip changes hands under it.
THEOREM PositionsAreItsDrivers == TrackingSpec => []OnlyItsDriver
<1>1. TrackingInv => OnlyItsDriver
  BY DEF TrackingInv, Vouched
<1> QED
  BY <1>1, TrackingInitHolds, TrackingStepHolds, PTL DEF TrackingSpec

\* Trips, what servers remember, handlers, lists, batches and the log keep their
\* types, whatever fleet does to a trip and whichever server ends.
THEOREM TrackingTypeCorrect == TrackingSpec => []TrackingTypeOK
<1>1. TrackingInv => TrackingTypeOK
  BY DEF TrackingInv
<1> QED
  BY <1>1, TrackingInitHolds, TrackingStepHolds, PTL DEF TrackingSpec

\* A trip that is not on the road, with no check of it left that would pass.
Silent(t) == ~OnTheRoad(t) /\ ~Trusted(t)

\* Such a trip is not trusted after the next step either, not even one that
\* puts it on the road: trust comes from a read of the trip while it is there.
SilentUntilStarted == [][\A t \in Trip : Silent(t) => ~Trusted(t)']_trackingVars

\* A server comes to remember a driver only from a handler that read the trip
\* on the road.
LEMMA RememberedWasRead ==
  ASSUME TrackingInv, [TrackingNext]_trackingVars, NEW s \in Server, NEW t \in Trip,
         remembered[s][t] = NoDriver
  PROVE  \/ remembered'[s][t] = NoDriver
         \/ \E p \in Position : /\ reports[p].trip = t
                                /\ reports[p].stage = "read"
                                /\ reports[p].seen.status = "IN_PROGRESS"
<1>1. remembered \in [Server -> [Trip -> Driver \cup {NoDriver}]]
  BY DEF TrackingInv, TrackingTypeOK
<1>2. CASE UNCHANGED remembered
  BY <1>2
<1>3. ASSUME NEW p \in Position, Decide(p)
      PROVE  \/ remembered'[s][t] = NoDriver
             \/ /\ reports[p].trip = t
                /\ reports[p].stage = "read"
                /\ reports[p].seen.status = "IN_PROGRESS"
  <2>1. reports[p].trip \in Trip /\ reports[p].server \in Server
    BY DEF TrackingInv, TrackingTypeOK, Report
  <2> QED
    BY <1>1, <1>3, <2>1 DEF Decide, At
<1>4. ASSUME NEW u \in Server, NEW v \in Trip, Expires(u, v)
      PROVE  remembered'[s][t] = NoDriver
  BY <1>1, <1>4 DEF Expires
<1>5. ASSUME NEW u \in Server, Restart(u)
      PROVE  remembered'[s][t] = NoDriver
  BY <1>1, <1>5 DEF Restart
<1> QED
  BY <1>2, <1>3, <1>4, <1>5 DEF TrackingNext, BeginRequest, RefuseRequest, Depart, Reassign,
     WriteTrip, SendReport, ReadTrip, Push, Drain, Insert, InsertFails, trackingVars

\* A report has seen a trip on the road only if it had, or the trip is there.
LEMMA SeenWasRead ==
  ASSUME TrackingInv, [TrackingNext]_trackingVars, NEW p \in Position,
         reports'[p].stage = "read", reports'[p].seen.status = "IN_PROGRESS"
  PROVE  /\ reports'[p].trip = reports[p].trip
         /\ \/ /\ reports[p].stage = "read"
               /\ reports[p].seen.status = "IN_PROGRESS"
            \/ OnTheRoad(reports[p].trip)
<1>1. reports \in [Position -> Report] /\ reports[p] \in Report
  BY DEF TrackingInv, TrackingTypeOK
<1>2. CASE UNCHANGED reports
  BY <1>2
<1>3. ASSUME NEW q \in Position, NEW stage \in {"accepted", "reading", "refused", "pushed"},
             Turn(q, stage)
      PROVE  reports'[p] = reports[p]
  BY <1>1, <1>3 DEF Turn, Report
<1>4. ASSUME NEW q \in Position, SendReport(q) \/ Decide(q) \/ Push(q)
      PROVE  reports'[p] = reports[p]
  BY <1>3, <1>4 DEF SendReport, Decide, Push
<1>5. ASSUME NEW q \in Position, ReadTrip(q)
      PROVE  \/ reports'[p] = reports[p]
             \/ reports'[p].trip = reports[p].trip /\ OnTheRoad(reports[p].trip)
  <2>1. CASE q # p
    BY <1>1, <1>5, <2>1 DEF ReadTrip
  <2>2. CASE q = p
    BY <1>1, <1>5, <2>2 DEF ReadTrip, Report, OnTheRoad
  <2> QED
    BY <2>1, <2>2
<1>6. ASSUME NEW s \in Server, Restart(s)
      PROVE  reports'[p] = reports[p]
  BY <1>1, <1>6 DEF Restart, Report
<1> QED
  BY <1>2, <1>4, <1>5, <1>6 DEF TrackingNext, BeginRequest, RefuseRequest, Depart, Reassign,
     WriteTrip, Expires, Drain, Insert, InsertFails, positionVars, trackingVars

\* Once nothing a server remembers and no check under way would let a position
\* of a trip pass, nothing does while the trip is off the road, whichever requests
\* overtook each other in fleet: only a read of it on the road brings trust back.
THEOREM TripsOffTheRoadStaySilent == TrackingSpec => SilentUntilStarted
<1>1. ASSUME TrackingInv, [TrackingNext]_trackingVars, NEW t \in Trip, Silent(t)
      PROVE  ~Trusted(t)'
  <2>1. ASSUME NEW s \in Server
        PROVE  remembered'[s][t] = NoDriver
    BY <1>1, RememberedWasRead DEF Silent, Trusted
  <2>2. ASSUME NEW p \in Position, reports'[p].trip = t, reports'[p].stage = "read",
               reports'[p].seen.status = "IN_PROGRESS"
        PROVE  FALSE
    BY <1>1, <2>2, SeenWasRead DEF Silent, Trusted
  <2> QED
    BY <2>1, <2>2 DEF Trusted
<1>2. TrackingInv /\ [TrackingNext]_trackingVars
        => [\A t \in Trip : Silent(t) => ~Trusted(t)']_trackingVars
  BY <1>1
<1> QED
  BY <1>2, TrackingInitHolds, TrackingStepHolds, PTL DEF TrackingSpec, SilentUntilStarted

-----------------------------------------------------------------------------
(* The rooms *)

\* What is granted is some of what was asked.
GrantsAsked == \A c \in Client : asking[c].granted \subseteq asking[c].trips

\* The inductive invariant.
RoomsInv == RoomsTypeOK /\ GrantsAsked

LEMMA NotAskingType == NotAsking \in Asking
BY DEF NotAsking, Asking

LEMMA RoomsInitHolds == RoomsInit => RoomsInv
<1> SUFFICES ASSUME RoomsInit PROVE RoomsInv
  OBVIOUS
<1>1. movements \in Seq(Movements)
  BY DEF RoomsInit
<1>2. RoomsTypeOK
  BY <1>1, NotAskingType DEF RoomsInit, RoomsTypeOK
<1>3. GrantsAsked
  BY DEF RoomsInit, GrantsAsked, NotAsking
<1> QED
  BY <1>2, <1>3 DEF RoomsInv

LEMMA AsksHolds ==
  ASSUME RoomsInv, NEW c \in Client, NEW op \in {"subscribe", "ping"},
         NEW trips \in SUBSET RoomTrip, Asks(c, op, trips)
  PROVE  RoomsInv'
<1>1. units[c] \in SUBSET Unit
  BY DEF RoomsInv, RoomsTypeOK
<1>2. [op |-> op, trips |-> trips, units |-> units[c], granted |-> {}, answered |-> FALSE]
        \in Asking
  BY <1>1 DEF Asking
<1>3. RoomsTypeOK'
  BY <1>2 DEF RoomsInv, RoomsTypeOK, Asks, scopeVars, customerVars
<1>4. GrantsAsked'
  BY DEF RoomsInv, RoomsTypeOK, GrantsAsked, Asks
<1> QED
  BY <1>3, <1>4 DEF RoomsInv

LEMMA FilterHolds ==
  ASSUME RoomsInv, NEW c \in Client, Filter(c)
  PROVE  RoomsInv'
<1> DEFINE granted == {t \in asking[c].trips : Sees(asking[c].units, t)}
<1>1. asking[c] \in Asking
  BY DEF RoomsInv, RoomsTypeOK
<1>2. [asking[c] EXCEPT !.granted = granted, !.answered = TRUE] \in Asking
  BY <1>1 DEF Asking
<1>3. asking' = [asking EXCEPT ![c] = [asking[c] EXCEPT !.granted = granted, !.answered = TRUE]]
  BY DEF Filter, RoomsInv, RoomsTypeOK
<1>4. RoomsTypeOK'
  BY <1>2, <1>3 DEF RoomsInv, RoomsTypeOK, Filter, scopeVars, customerVars
<1>5. granted \subseteq asking[c].trips
  OBVIOUS
<1> HIDE DEF granted
<1>6. GrantsAsked'
  BY <1>1, <1>3, <1>5 DEF RoomsInv, RoomsTypeOK, GrantsAsked, Asking
<1> QED
  BY <1>4, <1>6 DEF RoomsInv

LEMMA SettleHolds ==
  ASSUME RoomsInv, NEW c \in Client, Settle(c)
  PROVE  RoomsInv'
<1>1. asking[c] \in Asking /\ rooms[c] \in SUBSET RoomTrip
  BY DEF RoomsInv, RoomsTypeOK
<1>2. rooms' \in [Client -> SUBSET RoomTrip]
  BY <1>1 DEF Settle, RoomsInv, RoomsTypeOK, Asking
<1>3. RoomsTypeOK'
  BY <1>2, NotAskingType DEF RoomsInv, RoomsTypeOK, Settle, scopeVars, customerVars
<1>4. GrantsAsked'
  BY DEF RoomsInv, RoomsTypeOK, GrantsAsked, Settle, NotAsking
<1> QED
  BY <1>3, <1>4 DEF RoomsInv

\* The other steps of a socket leave what it asked alone.
LEMMA OtherRoomsHold ==
  ASSUME RoomsInv, NEW c \in Client,
         \/ Refused(c) \/ Unsubscribe(c) \/ DriverChecked(c) \/ DriverJoins(c)
         \/ Transfer(c) \/ ChangeAdmission(c) \/ SubscribeParcel(c)
  PROVE  RoomsInv'
<1>1. UNCHANGED <<routes, asking>>
  BY DEF Refused, roomVars, scopeVars, Unsubscribe, DriverChecked, DriverJoins, Transfer,
         ChangeAdmission, SubscribeParcel
<1>2. CASE Refused(c)
  BY <1>2 DEF Refused, roomVars, scopeVars, customerVars, RoomsInv, RoomsTypeOK, GrantsAsked
<1>3. CASE Unsubscribe(c) \/ DriverChecked(c) \/ DriverJoins(c)
  BY <1>1, <1>3 DEF Unsubscribe, DriverChecked, DriverJoins, scopeVars, customerVars,
                    RoomsInv, RoomsTypeOK, GrantsAsked
<1>4. CASE Transfer(c) \/ ChangeAdmission(c)
  BY <1>1, <1>4 DEF Transfer, ChangeAdmission, customerVars, RoomsInv, RoomsTypeOK, GrantsAsked
<1>5. CASE SubscribeParcel(c)
  BY <1>1, <1>5 DEF SubscribeParcel, scopeVars, RoomsInv, RoomsTypeOK, GrantsAsked
<1> QED
  BY <1>2, <1>3, <1>4, <1>5

LEMMA RerouteHolds ==
  ASSUME RoomsInv, NEW t \in RoomTrip, Reroute(t)
  PROVE  RoomsInv'
BY DEF Reroute, customerVars, RoomsInv, RoomsTypeOK, GrantsAsked

LEMMA TravelHolds ==
  ASSUME RoomsInv, Travel
  PROVE  RoomsInv'
<1>1. PICK t \in RoomTrip, a \in {"LOADED_ON_TRIP", "ARRIVED_AT_UNIT"} : Moved(Movement(a, t))
  BY DEF Travel
<1>2. Movement(a, t) \in Movements
  BY DEF Movements
<1>3. movements' \in Seq(Movements)
  BY <1>1, <1>2 DEF Moved, RoomsInv, RoomsTypeOK
<1> QED
  BY <1>1, <1>3 DEF Moved, scopeVars, RoomsInv, RoomsTypeOK, GrantsAsked

LEMMA RoomsStepHolds == RoomsInv /\ [RoomsNext]_roomVars => RoomsInv'
<1> SUFFICES ASSUME RoomsInv, [RoomsNext]_roomVars PROVE RoomsInv'
  OBVIOUS
<1>1. ASSUME NEW c \in Client, Subscribe(c) \/ Ping(c) PROVE RoomsInv'
  <2>1. rooms[c] \in SUBSET RoomTrip
    BY DEF RoomsInv, RoomsTypeOK
  <2>2. CASE Subscribe(c)
    BY <2>2, AsksHolds DEF Subscribe
  <2>3. CASE Ping(c)
    BY <2>1, <2>3, AsksHolds DEF Ping
  <2> QED
    BY <1>1, <2>2, <2>3
<1>2. ASSUME NEW c \in Client, Filter(c) \/ Settle(c) PROVE RoomsInv'
  BY <1>2, FilterHolds, SettleHolds
<1>3. ASSUME NEW c \in Client,
             \/ Refused(c) \/ Unsubscribe(c) \/ DriverChecked(c) \/ DriverJoins(c)
             \/ Transfer(c) \/ ChangeAdmission(c) \/ SubscribeParcel(c)
      PROVE  RoomsInv'
  BY <1>3, OtherRoomsHold
<1>4. CASE Travel \/ \E t \in RoomTrip : Reroute(t)
  BY <1>4, TravelHolds, RerouteHolds
<1>5. CASE UNCHANGED roomVars
  BY <1>5 DEF roomVars, scopeVars, customerVars, RoomsInv, RoomsTypeOK, GrantsAsked
<1> QED
  BY <1>1, <1>2, <1>3, <1>4, <1>5 DEF RoomsNext, DashboardsNext, CustomersNext

\* Rooms, what sockets ask and are answered, and the movements a customer follows
\* keep their types.
THEOREM RoomsTypeCorrect == RoomsSpec => []RoomsTypeOK
<1>1. RoomsInv => RoomsTypeOK
  BY DEF RoomsInv
<1> QED
  BY <1>1, RoomsInitHolds, RoomsStepHolds, PTL DEF RoomsSpec

\* A socket that hears nothing of a trip, with no grant of it under way.
Outside(c, t) == t \notin rooms[c] /\ t \notin asking[c].granted

\* The units it has, or those it asked with, see the trip.
MaySee(c, t) == \/ Sees(units[c], t)
                \/ asking[c].op # "none" /\ Sees(asking[c].units, t)

\* Outside, it stays there unless it may see the trip or was found to drive it.
OutsideUntilVisible ==
  [][\A c \in Client, t \in RoomTrip :
       Outside(c, t) /\ ~MaySee(c, t) /\ t \notin driving[c] => Outside(c, t)']_roomVars

\* A socket out of the room of a trip does not come in by any subscription,
\* heartbeat or tracking number while neither its units nor those it asked with see
\* the trip: what is left is a grant answered before, and a driver's own position.
THEOREM RevokedStayOut == RoomsSpec => OutsideUntilVisible
<1>1. ASSUME RoomsInv, [RoomsNext]_roomVars, NEW c \in Client, NEW t \in RoomTrip,
             Outside(c, t), ~MaySee(c, t), t \notin driving[c]
      PROVE  Outside(c, t)'
  <2>1. /\ asking \in [Client -> Asking] /\ asking[c] \in Asking
        /\ rooms \in [Client -> SUBSET RoomTrip]
    BY <1>1 DEF RoomsInv, RoomsTypeOK
  <2>2. ASSUME NEW d \in Client, Subscribe(d) \/ Ping(d) PROVE Outside(c, t)'
    BY <1>1, <2>1, <2>2 DEF Subscribe, Ping, Asks, Outside, Asking
  <2>3. ASSUME NEW d \in Client, Filter(d) PROVE Outside(c, t)'
    <3>1. CASE d = c
      <4>1. asking[c].op # "none" /\ ~Sees(asking[c].units, t)
        BY <1>1, <2>3, <3>1 DEF Filter, MaySee
      <4>2. asking'[c].granted = {u \in asking[c].trips : Sees(asking[c].units, u)}
        BY <2>1, <2>3, <3>1 DEF Filter, Asking
      <4> QED
        BY <1>1, <2>3, <4>1, <4>2 DEF Filter, Outside
    <3>2. CASE d # c
      BY <1>1, <2>1, <2>3, <3>2 DEF Filter, Outside
    <3> QED
      BY <3>1, <3>2
  <2>4. ASSUME NEW d \in Client, Settle(d) PROVE Outside(c, t)'
    BY <1>1, <2>1, <2>4 DEF Settle, Outside, NotAsking
  <2>5. ASSUME NEW d \in Client,
               Unsubscribe(d) \/ DriverChecked(d) \/ DriverJoins(d) \/ SubscribeParcel(d)
        PROVE  Outside(c, t)'
    BY <1>1, <2>1, <2>5 DEF Unsubscribe, DriverChecked, DriverJoins, SubscribeParcel, Outside
  <2>6. ASSUME NEW d \in Client, Refused(d) \/ Transfer(d) \/ ChangeAdmission(d)
        PROVE  Outside(c, t)'
    BY <1>1, <2>6 DEF Refused, roomVars, Transfer, ChangeAdmission, Outside
  <2>7. CASE Travel \/ (\E u \in RoomTrip : Reroute(u)) \/ UNCHANGED roomVars
    BY <1>1, <2>7 DEF Travel, Moved, Reroute, Outside, roomVars
  <2> QED
    BY <1>1, <2>2, <2>3, <2>4, <2>5, <2>6, <2>7 DEF RoomsNext, DashboardsNext, CustomersNext
<1>2. RoomsInv /\ [RoomsNext]_roomVars
        => [\A c \in Client, t \in RoomTrip :
              Outside(c, t) /\ ~MaySee(c, t) /\ t \notin driving[c] => Outside(c, t)']_roomVars
  BY <1>1
<1> QED
  BY <1>2, RoomsInitHolds, RoomsStepHolds, PTL DEF RoomsSpec, OutsideUntilVisible

-----------------------------------------------------------------------------
(* The register *)

\* The inductive invariant.
VehiclesInv == VehiclesTypeOK /\ OneDriverOneVehicle

LEMMA NoOrderType == NoOrder \in Desk
<1>1. (CHOOSE v \in Vehicle : TRUE) \in Vehicle /\ (CHOOSE h \in Holder : TRUE) \in Holder
  BY NobodyAssumption
<1>2. [plate |-> NoPlate, status |-> "ACTIVE"] \in VehicleRow
  BY StatusAssumption DEF VehicleRow
<1>3. 1 \in Assignment
  BY VehicleBounds DEF Assignment
<1> QED
  BY <1>1, <1>2, <1>3 DEF NoOrder, Desk

LEMMA InitHolds == VehiclesInit => VehiclesInv
<1> SUFFICES ASSUME VehiclesInit PROVE VehiclesInv
  OBVIOUS
<1>1. vehicles \in [Vehicle -> VehicleRow]
  BY StatusAssumption DEF VehiclesInit, VehicleRow
<1>2. assignments \in [Assignment -> AssignmentRow]
  <2>1. (CHOOSE v \in Vehicle : TRUE) \in Vehicle /\ (CHOOSE h \in Holder : TRUE) \in Holder
    BY NobodyAssumption
  <2>2. 0 \in 0 .. MaxReleases
    BY VehicleBounds
  <2>3. [made: {FALSE}, vehicle: {CHOOSE v \in Vehicle : TRUE},
         holder: {CHOOSE h \in Holder : TRUE}, active: {FALSE}, releases: {0}]
          \subseteq AssignmentRow
    BY <2>1, <2>2 DEF AssignmentRow
  <2> QED
    BY <2>3 DEF VehiclesInit
<1>3. desk \in [Clerk -> Desk]
  BY NoOrderType DEF VehiclesInit
<1>4. OneDriverOneVehicle
  BY DEF VehiclesInit, OneDriverOneVehicle, Active
<1> QED
  BY <1>1, <1>2, <1>3, <1>4 DEF VehiclesInv, VehiclesTypeOK

\* A request that leaves, or keeps an order, keeps the type of desk.
LEMMA LeaveType ==
  ASSUME VehiclesTypeOK, NEW c \in Clerk, Leave(c)
  PROVE  desk' \in [Clerk -> Desk]
BY NoOrderType DEF VehiclesTypeOK, Leave

LEMMA CheckHolds ==
  ASSUME VehiclesInv, NEW c \in Clerk, NEW order \in Desk, Check(c, order)
  PROVE  VehiclesInv'
<1>1. desk' \in [Clerk -> Desk] /\ UNCHANGED <<vehicles, assignments>>
  BY DEF VehiclesInv, VehiclesTypeOK, Check
<1> QED
  BY <1>1 DEF VehiclesInv, VehiclesTypeOK, OneDriverOneVehicle, Active

\* What the four commands check becomes an order; no row changes.
LEMMA ControllerHolds ==
  ASSUME VehiclesInv, NEW c \in Clerk, VehicleController(c)
  PROVE  VehiclesInv'
<1>1. desk[c] \in Desk
  BY DEF VehiclesInv, VehiclesTypeOK
<1>2. CASE RegisterVehicle(c)
  <2>1. PICK v \in Vehicle, p \in Plate, status \in VehicleStatus :
          Check(c, [desk[c] EXCEPT !.op = "create", !.vehicle = v,
                                   !.row = [plate |-> p, status |-> status]])
    BY <1>2 DEF RegisterVehicle
  <2>2. [desk[c] EXCEPT !.op = "create", !.vehicle = v,
                        !.row = [plate |-> p, status |-> status]] \in Desk
    BY <1>1 DEF Desk, VehicleRow
  <2> QED
    BY <2>1, <2>2, CheckHolds
<1>3. CASE EditVehicle(c)
  <2>1. PICK v \in Vehicle, p \in Plate, status \in VehicleStatus :
          Check(c, [desk[c] EXCEPT !.op = "update", !.vehicle = v,
                                   !.row = [plate |-> p, status |-> status]])
    BY <1>3 DEF EditVehicle
  <2>2. [desk[c] EXCEPT !.op = "update", !.vehicle = v,
                        !.row = [plate |-> p, status |-> status]] \in Desk
    BY <1>1 DEF Desk, VehicleRow
  <2> QED
    BY <2>1, <2>2, CheckHolds
<1>4. CASE AssignDriver(c)
  <2>1. PICK v \in Vehicle, h \in Holder :
          Check(c, [desk[c] EXCEPT !.op = "assign", !.vehicle = v, !.holder = h])
    BY <1>4 DEF AssignDriver
  <2>2. [desk[c] EXCEPT !.op = "assign", !.vehicle = v, !.holder = h] \in Desk
    BY <1>1 DEF Desk
  <2> QED
    BY <2>1, <2>2, CheckHolds
<1>5. CASE Release(c)
  <2>1. PICK a \in Assignment :
          Check(c, [desk[c] EXCEPT !.op = "release", !.assignment = a,
                                   !.vehicle = assignments[a].vehicle])
    BY <1>5 DEF Release
  <2>2. assignments[a].vehicle \in Vehicle
    BY DEF VehiclesInv, VehiclesTypeOK, AssignmentRow
  <2>3. [desk[c] EXCEPT !.op = "release", !.assignment = a,
                        !.vehicle = assignments[a].vehicle] \in Desk
    BY <1>1, <2>2 DEF Desk
  <2> QED
    BY <2>1, <2>3, CheckHolds
<1> QED
  BY <1>2, <1>3, <1>4, <1>5 DEF VehicleController

\* The writes of the register change no assignment.
LEMMA RegisterHolds ==
  ASSUME VehiclesInv, NEW c \in Clerk, WriteNew(c) \/ WriteEdit(c) \/ Rejected(c)
  PROVE  VehiclesInv'
<1>1. desk[c].row \in VehicleRow /\ desk[c].vehicle \in Vehicle
  BY DEF VehiclesInv, VehiclesTypeOK, Desk
<1>2. vehicles' \in [Vehicle -> VehicleRow]
  BY <1>1 DEF VehiclesInv, VehiclesTypeOK, WriteNew, WriteEdit, Rejected
<1>3. desk' \in [Clerk -> Desk]
  BY LeaveType DEF VehiclesInv, WriteNew, WriteEdit, Rejected
<1>4. UNCHANGED assignments
  BY DEF WriteNew, WriteEdit, Rejected
<1> QED
  BY <1>2, <1>3, <1>4 DEF VehiclesInv, VehiclesTypeOK, OneDriverOneVehicle, Active

\* The indexes are checked with the insert: no active row has the vehicle or the
\* driver of the new one.
LEMMA AssignmentHolds ==
  ASSUME VehiclesInv, NEW c \in Clerk, WriteAssignment(c)
  PROVE  VehiclesInv'
<1>1. PICK a \in Assignment :
        /\ IndexAdmits(c)
        /\ assignments' = [assignments EXCEPT ![a] =
             [made |-> TRUE, vehicle |-> desk[c].vehicle, holder |-> desk[c].holder,
              active |-> TRUE, releases |-> 0]]
        /\ Leave(c)
        /\ UNCHANGED vehicles
  BY DEF WriteAssignment
<1>2. desk[c].vehicle \in Vehicle /\ desk[c].holder \in Holder
  BY DEF VehiclesInv, VehiclesTypeOK, Desk
<1>3. VehiclesTypeOK'
  <2>1. assignments' \in [Assignment -> AssignmentRow]
    BY <1>1, <1>2, VehicleBounds DEF VehiclesInv, VehiclesTypeOK, AssignmentRow
  <2> QED
    BY <1>1, <2>1, LeaveType DEF VehiclesInv, VehiclesTypeOK
<1>4. ASSUME NEW b \in Assignment, Active(b)
      PROVE  /\ assignments[b].vehicle # desk[c].vehicle
             /\ assignments[b].holder # desk[c].holder
  <2>1. assignments[b].vehicle \in Vehicle /\ assignments[b].holder \in Holder
    BY DEF VehiclesInv, VehiclesTypeOK, AssignmentRow
  <2>2. Holds(assignments[b].holder, assignments[b].vehicle)
    BY <1>4 DEF Holds
  <2> QED
    BY <1>1, <2>1, <2>2 DEF IndexAdmits, Held, Holding
<1>5. ASSUME NEW b \in Assignment, b # a
      PROVE  assignments'[b] = assignments[b]
  BY <1>1, <1>5 DEF VehiclesInv, VehiclesTypeOK
<1>6. /\ assignments'[a].vehicle = desk[c].vehicle
      /\ assignments'[a].holder = desk[c].holder
  BY <1>1 DEF VehiclesInv, VehiclesTypeOK
<1>7. OneDriverOneVehicle'
  BY <1>4, <1>5, <1>6 DEF VehiclesInv, OneDriverOneVehicle, Active
<1> QED
  BY <1>3, <1>7 DEF VehiclesInv

\* A release makes a row inactive and leaves who held what.
LEMMA ReleaseHolds ==
  ASSUME VehiclesInv, NEW c \in Clerk, WriteRelease(c)
  PROVE  VehiclesInv'
<1> DEFINE r == desk[c].assignment
<1>1. r \in Assignment
  BY DEF VehiclesInv, VehiclesTypeOK, Desk
<1>2. assignments[r].releases + 1 \in 0 .. MaxReleases
  BY <1>1, VehicleBounds DEF VehiclesInv, VehiclesTypeOK, AssignmentRow, WriteRelease
<1>3. assignments' = [assignments EXCEPT ![r].active = FALSE, ![r].releases = @ + 1]
  BY DEF WriteRelease
<1>4. assignments' \in [Assignment -> AssignmentRow]
  BY <1>1, <1>2, <1>3 DEF VehiclesInv, VehiclesTypeOK, AssignmentRow
<1>5. desk' \in [Clerk -> Desk] /\ UNCHANGED vehicles
  BY LeaveType DEF VehiclesInv, WriteRelease
<1>6. \A a \in Assignment : Active(a)' =>
        /\ Active(a)
        /\ assignments'[a].vehicle = assignments[a].vehicle
        /\ assignments'[a].holder = assignments[a].holder
  BY <1>1, <1>3 DEF VehiclesInv, VehiclesTypeOK, AssignmentRow, Active
<1>7. OneDriverOneVehicle'
  BY <1>6 DEF VehiclesInv, OneDriverOneVehicle
<1> QED
  BY <1>4, <1>5, <1>7 DEF VehiclesInv, VehiclesTypeOK

LEMMA StepHolds == VehiclesInv /\ [VehiclesNext]_vehicleVars => VehiclesInv'
<1> SUFFICES ASSUME VehiclesInv, [VehiclesNext]_vehicleVars PROVE VehiclesInv'
  OBVIOUS
<1>1. CASE VehiclesNext
  BY <1>1, ControllerHolds, RegisterHolds, AssignmentHolds, ReleaseHolds DEF VehiclesNext
<1>2. CASE UNCHANGED vehicleVars
  BY <1>2 DEF vehicleVars, VehiclesInv, VehiclesTypeOK, OneDriverOneVehicle, Active
<1> QED
  BY <1>1, <1>2

\* The rows of the register and the requests keep their types.
THEOREM RegisterTypeCorrect == VehiclesSpec => []VehiclesTypeOK
<1>1. VehiclesInv => VehiclesTypeOK
  BY DEF VehiclesInv
<1> QED
  BY <1>1, InitHolds, StepHolds, PTL DEF VehiclesSpec

\* A vehicle has one driver and a driver one vehicle, for any number of requests
\* that checked before the others wrote.
THEOREM DriversAreExclusive == VehiclesSpec => []OneDriverOneVehicle
<1>1. VehiclesInv => OneDriverOneVehicle
  BY DEF VehiclesInv
<1> QED
  BY <1>1, InitHolds, StepHolds, PTL DEF VehiclesSpec
================================================================================
