------------------------------- MODULE Occupancy -------------------------------
(***************************************************************************)
(* What the dashboards say of a room on a day, computed from the rows of   *)
(* Tenancy: the status of the occupancy engine, the guest it shows, and    *)
(* the badge of each contract.                                             *)
(***************************************************************************)
EXTENDS Tenancy

\* A plausible slip: the move-out day taken as free.
CoversDayButLast(r, today) == r.moveIn <= today /\ EndsAfter(r.moveOut, today)

\* The engine takes a stay up to its stored move_out_date.
CoversDay(r, today) == Covers(r.moveIn, r.moveOut, today)

\* The rules of the scan; a row that none of them matches is passed over.
SaysOccupied(r, today) == Open(r) /\ CoversDay(r, today)
SaysReserved(r, today) == r.status = "reserved" /\ today < r.moveIn

\* The scan is by descending move_in_date and stops at the first row a rule
\* matches.  No two rows of a room start on the same day.
Matching(room, today) ==
    {t \in Live : /\ rows[t].room = room
                  /\ SaysOccupied(rows[t], today) \/ SaysReserved(rows[t], today)}

Latest(T) == CHOOSE t \in T : \A u \in T : rows[u].moveIn <= rows[t].moveIn

RoomStatus(room, today) ==
    LET found == Matching(room, today)
    IN  IF found = {} THEN "free"
        ELSE IF SaysReserved(rows[Latest(found)], today) THEN "reserved"
        ELSE "occupied"

\* Whose name and rent the room list shows: the first open row that covers the day.
Guests(room, today) ==
    {t \in Live : rows[t].room = room /\ SaysOccupied(rows[t], today)}

ShownGuest(room, today) ==
    LET G == Guests(room, today) IN IF G = {} THEN None ELSE Latest(G)

-------------------------------------------------------------------------------
\* A contract with the badge "active" has its room taken, by itself: the badge goes
\* by the actual move-out and the stored one, the engine by the stored one alone,
\* and the two agree because a save keeps the stored one the later.
ActiveBadgeIsGuest ==
    \A t \in Live : \A today \in Date :
        DisplayStatus(rows[t], today) = "active" =>
            /\ RoomStatus(rows[t].room, today) # "free"
            /\ ShownGuest(rows[t].room, today) = t

\* "occupied = room has a qualifying tenancy covering d": a room that an open
\* contract covers today is reported as occupied.
CoveredIsOccupied ==
    \A room \in Rooms : \A today \in Date :
        Guests(room, today) # {} => RoomStatus(room, today) = "occupied"
===============================================================================
