-------------------------------- MODULE MCRoad --------------------------------
(***************************************************************************)
(* An instance of Tracking, TripRooms and Vehicles for TLC.  The three     *)
(* share no state, so a behaviour of all of them is checked as a behaviour *)
(* of each: `part` says which one moves, and the others stay as they are.  *)
(* So are the dashboards and the customers of TripRooms: no customer gets  *)
(* into a room.                                                            *)
(***************************************************************************)
EXTENDS Tracking, TripRooms, Vehicles

CONSTANTS t1, t2, d1, d2, s1, s2, p1, p2, c1, v1, v2, h1, h2, k1, k2, u1

VARIABLE part

roadVars == <<part, trackingVars, roomVars, vehicleVars>>

\* Servers are alike and so are drivers: the first position is that of d1,
\* sent to s1.
RoadInit ==
  /\ TrackingInit /\ reports[p1].driver = d1 /\ reports[p1].server = s1
  /\ RoomsInit
  /\ VehiclesInit
  /\ part \in {"positions", "rooms", "customers", "vehicles"}
  /\ part = "positions" \/ (journeys[t1].driver = d1 /\ reports[p1] = reports[p2])
  /\ part = "rooms" \/ (units[c1] = {} /\ \A t \in RoomTrip : routes[t] = {u1})

RoadNext ==
  /\ UNCHANGED part
  /\ \/ part = "positions" /\ TrackingNext /\ UNCHANGED <<roomVars, vehicleVars>>
     \/ part = "rooms" /\ DashboardsNext /\ UNCHANGED <<trackingVars, vehicleVars>>
     \/ part = "customers" /\ CustomersNext /\ UNCHANGED <<trackingVars, vehicleVars>>
     \/ part = "vehicles" /\ VehiclesNext /\ UNCHANGED <<trackingVars, roomVars>>

RoadSpec == RoadInit /\ [][RoadNext]_roadVars /\ TrackingFairness /\ RoomsFairness
=============================================================================
