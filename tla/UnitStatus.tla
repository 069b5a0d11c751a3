------------------------------- MODULE UnitStatus -------------------------------
(***************************************************************************)
(* What the admin pages say of rooms and units.  The browser does not ask  *)
(* the occupancy engine: it derives its labels from the contracts the API  *)
(* lists, each with its badge and its shown end, by rules of its own.      *)
(*                                                                         *)
(* A list L of contracts, as a page holds it, is a function from ids to    *)
(* rows; the back end adds DisplayStatus and DisplayEnd to every row.      *)
(***************************************************************************)
EXTENDS Occupancy, FiniteSets

Listed == [t \in Live |-> rows[t]]

\* A plausible slip: the badge alone decides.
BadgeDecides(r, today) == DisplayStatus(r, today) \in {"active", "notice_given"}

\* Current: the badge is "active" or "notice_given", the stored status "active",
\* and today lies in the stay up to the shown end.
IsTenancyActiveByDates(r, today) ==
    /\ DisplayStatus(r, today) \in {"active", "notice_given"}
    /\ r.status = "active"
    /\ Covers(r.moveIn, DisplayEnd(r), today)

IsTenancyFuture(r, today)       == r.status = "active" /\ today < r.moveIn
IsTenancyReservedSlot(r, today) == r.status = "reserved" /\ today < r.moveIn

Upcoming(r, today) == IsTenancyReservedSlot(r, today) \/ IsTenancyFuture(r, today)

-------------------------------------------------------------------------------
ForRoom(room, L) == {t \in DOMAIN L : L[t].room = room}

CurrentIn(T, L, today)  == {t \in T : IsTenancyActiveByDates(L[t], today)}
UpcomingIn(T, L, today) == {t \in T : Upcoming(L[t], today)}

\* The label of a room, and of a unit let as a whole.
SlotStatus(T, L, today) ==
    IF CurrentIn(T, L, today) # {} THEN "belegt"
    ELSE IF UpcomingIn(T, L, today) # {} THEN "reserviert"
    ELSE "frei"

GetRoomOccupancyStatus(room, L, today) == SlotStatus(ForRoom(room, L), L, today)

\* The label of a unit.  Of a co-living unit the rooms are counted against the
\* number entered for it (0: not entered), not against its room list.
GetUnitOccupancyStatus(coLiving, entered, L, today) ==
    LET is(s)    == {room \in Rooms : GetRoomOccupancyStatus(room, L, today) = s}
        total    == IF entered = 0 THEN Cardinality(Rooms) ELSE entered
        occupied == Cardinality(is("belegt"))
    IN  IF ~coLiving THEN SlotStatus(DOMAIN L, L, today)
        ELSE IF total = 0 THEN None
        ELSE IF occupied >= total /\ occupied > 0 THEN "belegt"
        ELSE IF occupied > 0 THEN "teilbelegt"
        ELSE IF is("reserviert") # {} THEN "reserviert"
        ELSE "frei"

\* The label of a tenant, from the contracts the tenant has.
DeriveTenantOperationalStatus(T, L, today) ==
    IF CurrentIn(T, L, today) # {} THEN "active"
    ELSE IF UpcomingIn(T, L, today) # {} THEN "reserved"
    ELSE IF T = {} THEN "inactive"
    ELSE "ended"

\* A plausible slip: a month counts the contracts that begin or end in it.
TouchedInMonth(room, L, first, last) ==
    LET met == {t \in ForRoom(room, L) : L[t].moveIn \in first .. last \/ L[t].moveOut \in first .. last}
    IN  IF met = {} THEN "frei"
        ELSE IF \E t \in met : L[t].status \in {"active", "ended"} THEN "belegt" ELSE "reserviert"

\* The dashboard's label of a room for another month than the current one.
RoomOccupancyKindForMonth(room, L, first, last) ==
    LET met   == {t \in ForRoom(room, L) :
                     L[t].moveIn <= last /\ ~EndsBefore(L[t].moveOut, first)}
        is(s) == \E t \in met : L[t].status = s
    IN  IF is("active") THEN "belegt"
        ELSE IF is("reserved") THEN "reserviert"
        ELSE IF is("ended") THEN "belegt"
        ELSE "frei"

\* The dashboard's counts for a month: rooms taken, reserved, free.
GetCoLivingMetricsForMonth(L, first, last) ==
    LET n(s) == Cardinality({room \in Rooms :
                                RoomOccupancyKindForMonth(room, L, first, last) = s})
    IN  [occupied |-> n("belegt"), reserved |-> n("reserviert"), free |-> n("frei")]

-------------------------------------------------------------------------------
(***************************************************************************)
(* The page that gives a tenant a room.                                    *)
(***************************************************************************)

\* A plausible slip: the last day compared as in the database.
InclusiveProposal(room, L, moveIn, termination, actualOut) ==
    LET end == SchedulingEnd(None, termination, actualOut)
    IN  \E t \in ForRoom(room, L) :
            Open(L[t]) /\ ~EndsBefore(RowEnd(L[t]), moveIn) /\ ~EndsBefore(end, L[t].moveIn)

\* The form has no move-out: a proposal ends with its termination or actual day.
RoomOverlapsAssignProposal(room, L, moveIn, termination, actualOut) ==
    LET end == SchedulingEnd(None, termination, actualOut)
    IN  \E t \in ForRoom(room, L) :
            /\ Open(L[t])
            /\ EndsAfter(RowEnd(L[t]), moveIn)
            /\ EndsAfter(end, L[t].moveIn)

\* A room can be picked when it is "frei" today and the proposal meets no contract.
Offered(room, L, moveIn, termination, actualOut, today) ==
    /\ GetRoomOccupancyStatus(room, L, today) = "frei"
    /\ ~RoomOverlapsAssignProposal(room, L, moveIn, termination, actualOut)

\* The badge the form promises for the contract to be.
DeriveTenancyLifecyclePreviewForAssign(moveIn, termination, actualOut, today) ==
    IF EndsBefore(actualOut, today) THEN "ended"
    ELSE IF termination # None THEN "notice_given"
    ELSE IF today < moveIn THEN "reserved"
    ELSE "active"

StoredTenancyStatusForApi(badge) == IF badge = "notice_given" THEN "active" ELSE badge

\* The open contract a second tenant is added to: the latest of the room.
OpenIn(room, L) == {t \in ForRoom(room, L) : Open(L[t])}

FindOpenPrimaryTenancyForRoom(room, L) ==
    LET open == OpenIn(room, L)
    IN  IF open = {} THEN None
        ELSE CHOOSE t \in open : \A u \in open : L[u].moveIn <= L[t].moveIn

-------------------------------------------------------------------------------
(***************************************************************************)
(* The outlook of the unit page: the days up to a horizon.                 *)
(***************************************************************************)
\* A plausible slip: an announced move-out is the termination's business.
UnannouncedSoon(T, L, today, horizon) ==
    {t \in CurrentIn(T, L, today) :
        /\ L[t].termination = None /\ L[t].moveOut # None
        /\ today <= L[t].moveOut /\ L[t].moveOut <= horizon}

MoveOutsSoon(T, L, today, horizon) ==
    {t \in CurrentIn(T, L, today) :
        /\ L[t].moveOut # None
        /\ today <= L[t].moveOut /\ L[t].moveOut <= horizon}

MoveInsSoon(T, L, today, horizon) ==
    {t \in T : IsTenancyFuture(L[t], today) /\ L[t].moveIn <= horizon}

\* "Einnahmen enden bald - keine Nachbelegung geplant".  A room counts any contract
\* to come; a unit let as a whole counts only those whose stored status is "active".
GapWarned(coLiving, L, today, horizon) ==
    IF coLiving
    THEN \E room \in Rooms :
            /\ MoveOutsSoon(ForRoom(room, L), L, today, horizon) # {}
            /\ UpcomingIn(ForRoom(room, L), L, today) = {}
    ELSE /\ MoveOutsSoon(DOMAIN L, L, today, horizon) # {}
         /\ \A t \in DOMAIN L : ~IsTenancyFuture(L[t], today)

\* A contract that runs past the end of the unit's own lease.
CollidesWithLandlordLeaseEnd(r, leaseEnd, today) ==
    /\ IsTenancyFuture(r, today) \/ IsTenancyActiveByDates(r, today)
    /\ EndsAfter(r.moveOut, leaseEnd) \/ r.moveIn > leaseEnd

\* The state of the unit's lease; "soon" is the day 60 days from today.
GetUnitContractState(ended, start, end, today, soon) ==
    IF ended THEN "ended"
    ELSE IF start = None THEN "unknown"
    ELSE IF EndsBefore(end, today) THEN "expired"
    ELSE IF end # None /\ end <= soon THEN "expiring_soon"
    ELSE "active"

\* The contracts whose rents make up the forecast at the horizon.
ForecastRents(L, today, horizon) ==
    (CurrentIn(DOMAIN L, L, today) \ MoveOutsSoon(DOMAIN L, L, today, horizon))
    \cup MoveInsSoon(DOMAIN L, L, today, horizon)

-------------------------------------------------------------------------------
(***************************************************************************)
(* The browser's rules against the back end's.                             *)
(***************************************************************************)

\* "Same interval rule as backend _overlaps": with an up-to-date list, the page
\* rules out a room for a proposal exactly when the service would refuse it.
PlannerMirrorsService ==
    \A room \in Rooms, moveIn \in Date, termination \in OptDate, actualOut \in OptDate :
        RoomOverlapsAssignProposal(room, Listed, moveIn, termination, actualOut)
        <=> Overlaps(room, moveIn, SchedulingEnd(None, termination, actualOut), {})

\* A reservation whose day has come keeps its stored status, and a contract ends on
\* the page with its shown end: the two cases in which the page gives up a room
\* that the engine still counts.
Lapsed(r, today)     == r.status = "reserved" /\ r.moveIn <= today
EndedEarly(r, today) == EndsBefore(DisplayEnd(r), today)

\* The guest of a room by the page is the guest of the room by the occupancy engine,
\* and a room with an engine guest is "belegt" on the page, but for a reservation
\* that nobody has activated and an end that is shown earlier than it is stored.  A
\* unit is called free only if that goes for the guests of all its rooms, and a
\* tenant is called active only as an engine guest.
BelegtIsOccupied ==
    \A today \in Date :
        LET dropped(t) == Lapsed(rows[t], today) \/ EndedEarly(rows[t], today)
            guests     == {ShownGuest(room, today) : room \in Rooms} \ {None}
            entered    == 0 .. Cardinality(Rooms) + 1
        IN  /\ \A room \in Rooms :
                   LET current == CurrentIn(ForRoom(room, Listed), Listed, today)
                       guest   == ShownGuest(room, today)
                   IN  /\ current \subseteq {guest}
                       /\ guest # None /\ current = {} => dropped(guest)
            /\ \A coLiving \in BOOLEAN, n \in entered :
                   GetUnitOccupancyStatus(coLiving, n, Listed, today) \in {"frei", "reserviert"} =>
                       \A t \in guests : dropped(t)
            /\ \A x \in Tenants :
                   LET T == {t \in Live : rows[t].tenant = x}
                   IN  DeriveTenantOperationalStatus(T, Listed, today) = "active" =>
                           T \cap guests # {}

\* What the outlook of a unit does not miss, up to a horizon.  Of the contracts to
\* come it knows those with the stored status "active" alone.
\*   - A guest who leaves, by the stored end, with no later contract of the room (or
\*     of the unit, if it is let as a whole) makes the page warn.
\*   - A contract that has its room by the engine on the horizon, and does not leave
\*     that day, is in the forecast.
\*   - A guest still there when the unit's own lease has expired collides with it.
OutlookMissesNothing ==
    \A room \in Rooms, today \in Date, horizon \in Date :
        LET guest == ShownGuest(room, today)
            later == ShownGuest(room, horizon)
            shown(t) == rows[t].status = "active" /\ ~EndedEarly(rows[t], today)
        IN  today <= horizon =>
            /\ \A coLiving \in BOOLEAN :
                   /\ guest # None /\ shown(guest)
                   /\ rows[guest].moveOut # None /\ rows[guest].moveOut <= horizon
                   /\ \A t \in IF coLiving THEN ForRoom(room, Listed) ELSE Live :
                          rows[t].moveIn <= today
                   => GapWarned(coLiving, Listed, today, horizon)
            /\ later # None /\ shown(later) /\ rows[later].moveOut # horizon =>
                   later \in ForecastRents(Listed, today, horizon)
            /\ \A end \in Date :
                   /\ GetUnitContractState(FALSE, end, end, today, horizon) = "expired"
                   /\ guest # None /\ shown(guest)
                   => CollidesWithLandlordLeaseEnd(rows[guest], end, today)

\* For any other month the dashboard's label and the engine tell the same story: a
\* day with an engine guest makes the room taken, and a room that is taken has a
\* stored stay on a day of the month.  The rooms it counts as free have no guest in it.
MonthAgreesWithEngine ==
    \A first \in Date, last \in Date :
        LET kind(room) == RoomOccupancyKindForMonth(room, Listed, first, last)
            counts     == GetCoLivingMetricsForMonth(Listed, first, last)
        IN  first <= last =>
            /\ \A room \in Rooms :
                   /\ (\E d \in first .. last : ShownGuest(room, d) # None) => kind(room) # "frei"
                   /\ kind(room) # "frei" =>
                          \E d \in first .. last, t \in ForRoom(room, Listed) :
                              Covers(rows[t].moveIn, rows[t].moveOut, d)
            /\ counts.free <= Cardinality({room \in Rooms :
                                   \A d \in first .. last : ShownGuest(room, d) = None})
===============================================================================
