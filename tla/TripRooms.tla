------------------------------ MODULE TripRooms ------------------------------
(***************************************************************************)
(* The rooms of the tracking gateway: which sockets hear a trip's live     *)
(* positions and movements.  A dashboard asks for trips and is let into    *)
(* the rooms fleet says it may see; a customer asks by tracking number;    *)
(* a heartbeat asks again for every room the socket is in; a driver joins  *)
(* with its first position.  Every message but an unsubscription passes    *)
(* the interceptor first, which refuses an expired token and a deactivated *)
(* employee, and reads the units the employee works in.                    *)
(*                                                                         *)
(*   none --Subscribe | Ping--> asked --Filter--> answered --Settle--> none *)
(*                                                                         *)
(* A socket asks for one thing at a time here.                             *)
(***************************************************************************)
EXTENDS Naturals, Sequences

CONSTANTS
  RoomTrip,        \* trip ids
  Client,          \* sockets
  Unit,            \* branches and warehouses
  Route,           \* the sets of units a trip may run between
  MaxMovements     \* bound: movements of the parcel a customer follows

ASSUME MovementsAssumption == MaxMovements \in Nat

VARIABLES
  units,           \* units the interceptor reads for a client's employee; nobody else has any
  routes,          \* units each trip runs between
  admitted,        \* the interceptor lets a client's messages through
  rooms,           \* rooms a socket is in
  asking,          \* a socket's handler: what it asked, as whom, and its answer
  driving,         \* trips whose driver a socket was found to be, not yet joined
  movements,       \* table parcel_movement of one parcel, oldest first
  replies          \* what a socket was told about that parcel

scopeVars == <<units, routes, admitted>>
customerVars == <<movements, replies>>
roomVars == <<scopeVars, rooms, asking, driving, customerVars>>

Asking == [op: {"none", "subscribe", "ping"}, trips: SUBSET RoomTrip, units: SUBSET Unit,
           granted: SUBSET RoomTrip, answered: BOOLEAN]

NotAsking == [op |-> "none", trips |-> {}, units |-> {}, granted |-> {}, answered |-> FALSE]

\* No units, no filter: a tenant admin, a driver, the platform owner and an
\* employee that was never given a unit all see every trip.
Sees(us, t) == us = {} \/ us \cap routes[t] # {}

\* Rows come from the table as they are: their fields are its columns.
Movement(action, t) == [action_type |-> action, trip_id |-> t]

Movements == {Movement(a, t) : a \in {"LOADED_ON_TRIP", "ARRIVED_AT_UNIT"}, t \in RoomTrip}

\* The parcel is IN_TRANSIT from a loading to the arrival after it.
InTransit == movements # <<>> /\ movements[Len(movements)].action_type = "LOADED_ON_TRIP"

\* A field of a row, or nothing when the row has no such field.
Field(row, name) == IF name \in DOMAIN row THEN row[name] ELSE "undefined"

\* getParcelHistory orders newest first and handleSubscribeParcelTrip turns
\* it round, so what it takes is the oldest row that says LOADED_ON_TRIP, in
\* a field the rows do not have.
LoadedRows == {i \in 1 .. Len(movements) : Field(movements[i], "actionType") = "LOADED_ON_TRIP"}

RoomsInit ==
  /\ units \in [Client -> SUBSET Unit]
  /\ routes \in [RoomTrip -> Route]
  /\ admitted = [c \in Client |-> TRUE]
  /\ rooms = [c \in Client |-> {}]
  /\ asking = [c \in Client |-> NotAsking]
  /\ driving = [c \in Client |-> {}]
  /\ movements = <<>>
  /\ replies = [c \in Client |-> "none"]

-----------------------------------------------------------------------------
(* Dashboards *)

\* WsContextInterceptor lets the message in and reads who sends it.
Asks(c, op, trips) ==
  /\ admitted[c]
  /\ asking[c] = NotAsking
  /\ asking' = [asking EXCEPT ![c] = [op |-> op, trips |-> trips, units |-> units[c],
                                      granted |-> {}, answered |-> FALSE]]
  /\ UNCHANGED <<scopeVars, rooms, driving, customerVars>>

\* subscribe_trip and subscribe_trips.
Subscribe(c) == \E trips \in SUBSET RoomTrip \ {{}} : Asks(c, "subscribe", trips)

\* Heartbeat of a socket that is in some room.
Ping(c) == rooms[c] # {} /\ Asks(c, "ping", rooms[c])

\* The interceptor throws before any handler: the socket keeps its rooms.
Refused(c) == ~admitted[c] /\ UNCHANGED roomVars

\* filterVisibleTrips: the units it was asked with, the trips as they are.
Filter(c) ==
  LET a == asking[c] IN
  /\ a.op # "none"
  /\ ~a.answered
  /\ asking' = [asking EXCEPT ![c].granted = {t \in a.trips : Sees(a.units, t)},
                              ![c].answered = TRUE]
  /\ UNCHANGED <<scopeVars, rooms, driving, customerVars>>

SettleKeepingRooms(c) ==
  /\ asking[c].answered
  /\ rooms' = [rooms EXCEPT ![c] = @ \cup asking[c].granted]
  /\ asking' = [asking EXCEPT ![c] = NotAsking]
  /\ UNCHANGED <<scopeVars, driving, customerVars>>

\* Join what was granted; a ping leaves the rest of what it asked for.
Settle(c) ==
  LET a == asking[c] IN
  /\ a.answered
  /\ rooms' = [rooms EXCEPT ![c] = IF a.op = "subscribe" THEN @ \cup a.granted
                                                        ELSE @ \ (a.trips \ a.granted)]
  /\ asking' = [asking EXCEPT ![c] = NotAsking]
  /\ UNCHANGED <<scopeVars, driving, customerVars>>

\* unsubscribe_trip and unsubscribe_trips leave without asking.
Unsubscribe(c) == \E t \in rooms[c] :
  /\ rooms' = [rooms EXCEPT ![c] = @ \ {t}]
  /\ UNCHANGED <<scopeVars, asking, driving, customerVars>>

\* A position of a driver passed the check of Tracking, remembered or not.
DriverChecked(c) == \E t \in RoomTrip \ driving[c] :
  /\ admitted[c]
  /\ driving' = [driving EXCEPT ![c] = @ \cup {t}]
  /\ UNCHANGED <<scopeVars, rooms, asking, customerVars>>

\* handleDriverLocation, once the position is in its list: no filter is asked.
DriverJoins(c) == \E t \in driving[c] :
  /\ driving' = [driving EXCEPT ![c] = @ \ {t}]
  /\ rooms' = [rooms EXCEPT ![c] = @ \cup {t}]
  /\ UNCHANGED <<scopeVars, asking, customerVars>>

\* The client's employee moves to other units.
Transfer(c) == \E us \in SUBSET Unit \ {units[c]} :
  /\ units' = [units EXCEPT ![c] = us]
  /\ UNCHANGED <<routes, admitted, rooms, asking, driving, customerVars>>

\* The client's employee is deactivated or comes back, or its token expires.
ChangeAdmission(c) ==
  /\ admitted' = [admitted EXCEPT ![c] = ~@]
  /\ UNCHANGED <<units, routes, rooms, asking, driving, customerVars>>

Reroute(t) == \E route \in Route \ {routes[t]} :
  /\ routes' = [routes EXCEPT ![t] = route]
  /\ UNCHANGED <<units, admitted, rooms, asking, driving, customerVars>>

-----------------------------------------------------------------------------
(* Customers *)

\* The scans of customer-shipment append a row: loaded, or arrived.
Moved(row) == /\ Len(movements) < MaxMovements
              /\ movements' = Append(movements, row)
              /\ UNCHANGED <<scopeVars, rooms, asking, driving, replies>>

Travel == \E t \in RoomTrip :
  IF InTransit THEN /\ t = movements[Len(movements)].trip_id
                    /\ Moved(Movement("ARRIVED_AT_UNIT", t))
               ELSE Moved(Movement("LOADED_ON_TRIP", t))

\* handleSubscribeParcelTrip: a parcel that is not IN_TRANSIT is refused, and
\* so is one without a loading; otherwise the socket joins that trip's room.
SubscribeParcel(c) ==
  /\ admitted[c]
  /\ replies[c] = "none"
  /\ \/ /\ ~InTransit
        /\ replies' = [replies EXCEPT ![c] = "notInTransit"]
        /\ UNCHANGED rooms
     \/ /\ InTransit /\ LoadedRows = {}
        /\ replies' = [replies EXCEPT ![c] = "noTrip"]
        /\ UNCHANGED rooms
  /\ UNCHANGED <<scopeVars, asking, driving, movements>>

DashboardsNext ==
  \/ \E c \in Client : \/ Subscribe(c) \/ Ping(c) \/ Refused(c) \/ Filter(c) \/ Settle(c)
                       \/ Unsubscribe(c) \/ DriverChecked(c) \/ DriverJoins(c)
                       \/ Transfer(c) \/ ChangeAdmission(c)
  \/ \E t \in RoomTrip : Reroute(t)

CustomersNext == Travel \/ \E c \in Client : SubscribeParcel(c)

RoomsNext == DashboardsNext \/ CustomersNext

RoomsSpec == RoomsInit /\ [][RoomsNext]_roomVars

\* A handler that was started runs on.  Nothing is assumed of the clients.
RoomsFairness ==
  \A c \in Client : /\ WF_roomVars(Filter(c))
                    /\ WF_roomVars(Settle(c))
                    /\ WF_roomVars(DriverJoins(c))

-----------------------------------------------------------------------------
(* Properties *)

RoomsTypeOK ==
  /\ units \in [Client -> SUBSET Unit]
  /\ routes \in [RoomTrip -> Route]
  /\ admitted \in [Client -> BOOLEAN]
  /\ rooms \in [Client -> SUBSET RoomTrip]
  /\ asking \in [Client -> Asking]
  /\ driving \in [Client -> SUBSET RoomTrip]
  /\ movements \in Seq(Movements)
  /\ replies \in [Client -> {"none", "notInTransit", "noTrip"}]

\* A client left with units that do not see a trip, no longer found to be its
\* driver, is out of its room in the end if its heartbeats go on being let
\* through, though a subscription of before was under way meanwhile.
RevokedClientLeaves ==
  \A c \in Client, t \in RoomTrip, us \in SUBSET Unit :
    /\ <>[](units[c] = us /\ ~Sees(us, t) /\ t \notin driving[c])
    /\ []<><<Ping(c)>>_roomVars
    => <>[](t \notin rooms[c])
=============================================================================
