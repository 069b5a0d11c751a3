----------------------------- MODULE RoomCalendar -----------------------------
(***************************************************************************)
(* What the tenancy component promises, whatever its requests do to each   *)
(* other: a calendar of bookings, each of one room from a first to an      *)
(* inclusive last day, in which no two bookings share a day of a room.  A  *)
(* booking may be entered, moved within its room, or cancelled.            *)
(***************************************************************************)
EXTENDS Integers

CONSTANTS Tenancies, Rooms, Date, None

VARIABLE bookings

Booking == [room: Rooms, from: Date, to: Date \cup {None}]

Live == {t \in Tenancies : bookings[t] # None}

\* Two bookings of one room share a day: neither ends before the other starts.
Collide(a, b) ==
    /\ a.room = b.room
    /\ a.to # None => b.from <= a.to
    /\ b.to # None => a.from <= b.to

Fits(t, b) == \A u \in Live \ {t} : ~Collide(bookings[u], b)

Init == bookings = [t \in Tenancies |-> None]

Enter(t, b) ==
    /\ t \notin Live
    /\ Fits(t, b)
    /\ bookings' = [bookings EXCEPT ![t] = b]

Rebook(t, b) ==
    /\ t \in Live
    /\ b.room = bookings[t].room
    /\ Fits(t, b)
    /\ bookings' = [bookings EXCEPT ![t] = b]

Cancel(t) ==
    /\ t \in Live
    /\ bookings' = [bookings EXCEPT ![t] = None]

Next ==
    \E t \in Tenancies :
        \/ \E b \in Booking : Enter(t, b) \/ Rebook(t, b)
        \/ Cancel(t)

Spec == Init /\ [][Next]_bookings

\* No day of a room is promised to two bookings.
OneBookingPerDay ==
    \A t, u \in Live : \A d \in Date :
        /\ t # u
        /\ bookings[t].room = bookings[u].room
        => ~ /\ bookings[t].from <= d /\ (bookings[t].to # None => d <= bookings[t].to)
             /\ bookings[u].from <= d /\ (bookings[u].to # None => d <= bookings[u].to)
===============================================================================
