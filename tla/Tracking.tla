------------------------------ MODULE Tracking ------------------------------
(***************************************************************************)
(* Live positions of one delivery: the socket rooms of                     *)
(* delivery-tracking.gateway.ts and the rate limit and checks of           *)
(* delivery-tracking.service.ts.                                           *)
(*                                                                         *)
(* The delivery is claimed once and ends once (module Fulfilment).  A      *)
(* Redis key with an expiry lets one position through per interval.        *)
(***************************************************************************)
EXTENDS Naturals, FiniteSets

CONSTANTS Couriers,      \* riders with a socket
          Customer,      \* who ordered
          Onlookers,     \* other signed-in users
          Uplinks,       \* concurrent position updates
          MaxPositions   \* bound: updates begun

ASSUME TrackingAssumption == IsFiniteSet(Uplinks) /\ MaxPositions \in Nat

VARIABLES carrier,    \* Delivery.riderId, a set with at most one member
          underway,   \* the status is one of ACTIVE_STATUSES
          room,       \* members of the room delivery:<id>
          limiter,    \* the key delivery-location:<rider>:<delivery> exists
          intervals,  \* intervals that have begun
          uplink,     \* what each update has checked and does next
          positions,  \* DeliveryLocation rows
          updates,    \* updates begun (bound)
          shown       \* history: who was sent a position

trackingVars == <<carrier, underway, room, limiter, intervals, uplink, positions, updates, shown>>

Viewers == Couriers \cup Onlookers \cup {Customer}
Offline == [step |-> "offline", late |-> FALSE]

TrackingInit ==
  /\ carrier = {} /\ underway = FALSE /\ room = {} /\ limiter = FALSE
  /\ intervals = 0
  /\ uplink = [u \in Uplinks |-> Offline]
  /\ positions = 0 /\ updates = 0 /\ shown = {}

\* The delivery is claimed, and it ends.
ClaimJob(c) ==
  /\ carrier = {} /\ carrier' = {c} /\ underway' = TRUE
  /\ UNCHANGED <<room, limiter, intervals, uplink, positions, updates, shown>>
JobEnds ==
  /\ underway /\ underway' = FALSE
  /\ uplink' = [u \in Uplinks |-> IF uplink[u].step = "offline" THEN uplink[u]
                                  ELSE [uplink[u] EXCEPT !.late = TRUE]]
  /\ UNCHANGED <<carrier, room, limiter, intervals, positions, updates, shown>>

FaultyCanTrack(v) == TRUE
\* assertCanTrack
CanTrack(v) == v \in carrier \cup {Customer}

JoinDelivery(v) ==
  /\ CanTrack(v) /\ v \notin room
  /\ room' = room \cup {v}
  /\ UNCHANGED <<carrier, underway, limiter, intervals, uplink, positions, updates, shown>>

\* leaveDelivery, and the end of a connection.
LeaveDelivery(v) ==
  /\ v \in room
  /\ room' = room \ {v}
  /\ UNCHANGED <<carrier, underway, limiter, intervals, uplink, positions, updates, shown>>

FaultyAccepted(c) == c \in carrier
\* recordLocation: "only accepted for an active delivery".
Accepted(c) == c \in carrier /\ underway

UpdateLocation(u, c) ==
  /\ uplink[u] = Offline /\ updates < MaxPositions /\ Accepted(c)
  /\ uplink' = [uplink EXCEPT ![u].step = "limit"]
  /\ updates' = updates + 1
  /\ UNCHANGED <<carrier, underway, room, limiter, intervals, positions, shown>>

FaultyAcquired == TRUE
\* SET ... PX NX succeeds only if there is no key.
Acquired == ~limiter

RateLimit(u) ==
  /\ uplink[u].step = "limit"
  /\ IF Acquired
     THEN /\ limiter' = TRUE
          /\ intervals' = IF limiter THEN intervals ELSE intervals + 1
          /\ uplink' = [uplink EXCEPT ![u].step = "store"]
     ELSE /\ uplink' = [uplink EXCEPT ![u] = Offline]
          /\ UNCHANGED <<limiter, intervals>>
  /\ UNCHANGED <<carrier, underway, room, positions, updates, shown>>

LimiterExpires ==
  /\ limiter /\ limiter' = FALSE
  /\ UNCHANGED <<carrier, underway, room, intervals, uplink, positions, updates, shown>>

\* The row is created, and its broadcast goes to whoever is in the room.
RecordLocation(u) ==
  /\ uplink[u].step = "store"
  /\ positions' = positions + 1
  /\ uplink' = [uplink EXCEPT ![u] = Offline]
  /\ shown' = shown \cup room
  /\ UNCHANGED <<carrier, underway, room, limiter, intervals, updates>>

TrackingNext ==
  \/ \E c \in Couriers : ClaimJob(c)
  \/ JobEnds \/ LimiterExpires
  \/ \E v \in Viewers : JoinDelivery(v) \/ LeaveDelivery(v)
  \/ \E u \in Uplinks :
       \/ \E c \in Couriers : UpdateLocation(u, c)
       \/ RateLimit(u) \/ RecordLocation(u)

TrackingSpec == TrackingInit /\ [][TrackingNext]_trackingVars

-----------------------------------------------------------------------------
(* Properties.                                                             *)

\* The rate limit holds however updates overlap: never more positions than
\* intervals of the key that began.
PositionsAreSpaced == positions <= intervals

\* The room is checked on entry only; still a position reaches nobody but the
\* customer and the rider who carries the order.
PositionsStayPrivate == shown \subseteq carrier \cup {Customer}

\* A position is stored after the delivery has ended only if its update had
\* been checked before.
PositionsBelongToJob ==
  positions' # positions =>
    underway \/ \E u \in Uplinks : uplink[u].late /\ uplink'[u] = Offline

\* A position is taken at most once in an interval, during the job, and shown
\* to nobody else, however updates and the end of the delivery overlap.
PositionsAreGuarded ==
  [][PositionsBelongToJob /\ PositionsAreSpaced' /\ PositionsStayPrivate']_trackingVars
=============================================================================
