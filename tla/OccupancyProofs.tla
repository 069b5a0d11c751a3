---------------------------- MODULE OccupancyProofs ----------------------------
(***************************************************************************)
(* Theorems of Occupancy and UnitStatus: the labels of the pages, the badge *)
(* of a contract and the occupancy engine against each other, for every    *)
(* set of rooms, days, contracts and request bodies, and for requests that *)
(* run one after the other where the stored end has to be in sync.         *)
(***************************************************************************)
EXTENDS UnitStatus, TenancyProofs, FiniteSetTheorems

USE DateAssumption DEF OptDate

-------------------------------------------------------------------------------
(***************************************************************************)
(* The guest of a room.                                                    *)
(***************************************************************************)

\* A room has one guest on a day: its open contract that covers the day.
LEMMA GuestIsShown ==
    ASSUME IInv, NEW room, NEW today \in Date, NEW t \in Guests(room, today)
    PROVE  /\ Guests(room, today) = {t}
           /\ ShownGuest(room, today) = t
           /\ t \in Live /\ rows[t] \in Row /\ rows[t].room = room
           /\ Open(rows[t]) /\ CoversDay(rows[t], today)
<1>1. \A u \in Guests(room, today) :
          u \in Live /\ rows[u].room = room /\ Open(rows[u]) /\ CoversDay(rows[u], today)
  BY DEF Guests, SaysOccupied
<1>2. OneGuestPerDay
  BY DisjointMeansOneGuest
<1>3. \A u \in Guests(room, today) : u = t
  BY <1>1, <1>2 DEF OneGuestPerDay, CoversDay
<1>4. Guests(room, today) = {t}
  BY <1>3
<1>5. rows[t] \in Row
  BY <1>1 DEF IInv, TypeOK, Live
<1>6. rows[t].moveIn <= rows[t].moveIn
  BY <1>5, RowDates
<1>7. Latest({t}) = t
  BY <1>6 DEF Latest
<1>8. ShownGuest(room, today) = t
  BY <1>4, <1>7 DEF ShownGuest
<1> QED
  BY <1>1, <1>4, <1>5, <1>8

LEMMA ShownIsGuest ==
    ASSUME IInv, NEW room, NEW today \in Date, ShownGuest(room, today) # None
    PROVE  ShownGuest(room, today) \in Guests(room, today)
<1>1. Guests(room, today) # {}
  BY DEF ShownGuest
<1>2. PICK t \in Guests(room, today) : TRUE
  BY <1>1
<1> QED
  BY <1>2, GuestIsShown

-------------------------------------------------------------------------------
(***************************************************************************)
(* The badge and the engine.                                               *)
(***************************************************************************)

\* Of a row in sync the badge "active" means that its stay covers the day.
LEMMA ActiveBadgeCovers ==
    ASSUME NEW r \in Row, r.moveOut = RowEnd(r), NEW today \in Date,
           DisplayStatus(r, today) = "active"
    PROVE  SaysOccupied(r, today)
<1>1. /\ ~EndsBefore(r.actualOut, today) /\ r.termination = None
      /\ ~(r.actualOut = None /\ EndsBefore(r.moveOut, today))
      /\ ~(r.moveIn > today) /\ r.status # "reserved" /\ r.status # "ended"
  BY RowDates DEF DisplayStatus
<1>2. Open(r) /\ r.moveIn <= today
  BY <1>1, RowDates DEF Open, Status
<1>3. ~EndsBefore(r.moveOut, today)
  <2>1. CASE r.actualOut = None
    BY <1>1, <2>1
  <2>2. CASE r.actualOut # None
    <3>1. r.moveOut # None /\ ~EndsBefore(r.moveOut, r.actualOut)
      BY <1>1, <2>2, RowDates DEF RowEnd, SchedulingEnd, Later, EndsBefore
    <3>2. r.moveOut \in Int /\ r.actualOut \in Int /\ today \in Int
      BY <2>2, <3>1, RowDates
    <3>3. today <= r.actualOut /\ r.actualOut <= r.moveOut
      BY <1>1, <2>2, <3>1, <3>2 DEF EndsBefore
    <3> QED
      BY <3>2, <3>3 DEF EndsBefore
  <2> QED
    BY <2>1, <2>2
<1> QED
  BY <1>2, <1>3 DEF SaysOccupied, CoversDay, Covers

LEMMA SyncedBadges == SInv => ActiveBadgeIsGuest
<1> SUFFICES ASSUME SInv, NEW t \in Live, NEW today \in Date,
                    DisplayStatus(rows[t], today) = "active"
             PROVE  /\ RoomStatus(rows[t].room, today) # "free"
                    /\ ShownGuest(rows[t].room, today) = t
  BY DEF ActiveBadgeIsGuest
<1>1. IInv /\ rows[t] \in Row /\ rows[t].moveOut = RowEnd(rows[t])
  BY DEF SInv, IInv, TypeOK, Live, SyncedMoveOut
<1>2. SaysOccupied(rows[t], today)
  BY <1>1, ActiveBadgeCovers
<1>3. t \in Guests(rows[t].room, today) /\ t \in Matching(rows[t].room, today)
  BY <1>2 DEF Guests, Matching
<1>4. RoomStatus(rows[t].room, today) # "free"
  BY <1>3 DEF RoomStatus
<1> QED
  BY <1>1, <1>3, <1>4, GuestIsShown

\* A contract with the badge "active" is the guest of its room by the engine, whatever
\* end dates the requests before have set.
THEOREM ActiveBadgesAreGuests ==
    ASSUME NEW w0, Workers = {w0}
    PROVE  Spec => []ActiveBadgeIsGuest
BY SerialInvariance, SyncedBadges, PTL

-------------------------------------------------------------------------------
(***************************************************************************)
(* The planner.                                                            *)
(***************************************************************************)

\* In every reachable state, with any number of requests under way, the page rules out
\* a room for exactly the proposals that the service would refuse at that moment.
THEOREM PlannerRefusesAlike == Spec => []PlannerMirrorsService
<1>1. PlannerMirrorsService
  BY DEF PlannerMirrorsService, RoomOverlapsAssignProposal, Overlaps, ServiceOverlap,
         ForRoom, Listed
<1> QED
  BY <1>1, PTL

-------------------------------------------------------------------------------
(***************************************************************************)
(* The label of a room, a unit and a tenant against the engine.            *)
(***************************************************************************)

\* A contract that is current on the page is the guest by the engine: it is shown to
\* end no later than it is stored to.
LEMMA CurrentIsGuest ==
    ASSUME SInv, NEW t \in Live, NEW today \in Date, IsTenancyActiveByDates(rows[t], today)
    PROVE  t \in Guests(rows[t].room, today)
<1>1. IInv /\ rows[t] \in Row /\ rows[t].moveOut = RowEnd(rows[t])
  BY DEF SInv, IInv, TypeOK, Live, SyncedMoveOut
<1> DEFINE r == rows[t]
<1> HIDE DEF r
<1>2. /\ r.status = "active" /\ r.moveIn <= today
      /\ ~EndsBefore(DisplayEnd(r), today)
  BY DEF IsTenancyActiveByDates, Covers, r
<1>3. r \in Row /\ (DisplayEnd(r) = None <=> r.moveOut = None)
      /\ (DisplayEnd(r) # None => ~EndsBefore(r.moveOut, DisplayEnd(r)))
  BY <1>1, DisplayEndIsBooked DEF r
<1>4. ~EndsBefore(r.moveOut, today)
  <2>1. CASE r.moveOut = None
    BY <2>1 DEF EndsBefore
  <2>2. CASE r.moveOut # None
    <3>1. DisplayEnd(r) \in OptDate
      BY <1>3, RowDates DEF DisplayEnd
    <3>2. DisplayEnd(r) \in Int /\ r.moveOut \in Int /\ today \in Int
      BY <1>3, <2>2, <3>1, RowDates
    <3> QED
      BY <1>2, <1>3, <2>2, <3>2 DEF EndsBefore
  <2> QED
    BY <2>1, <2>2
<1> QED
  BY <1>2, <1>4 DEF Guests, SaysOccupied, CoversDay, Covers, Open, r

\* A guest who is shown as one is current on the page.
LEMMA GuestIsCurrent ==
    ASSUME NEW r \in Row, NEW today \in Date, r.status = "active",
           CoversDay(r, today), ~EndedEarly(r, today)
    PROVE  IsTenancyActiveByDates(r, today)
<1>1. r.moveIn <= today /\ ~EndsBefore(r.moveOut, today) /\ ~(r.moveIn > today)
  BY RowDates DEF CoversDay, Covers
<1>2. ~EndsBefore(DisplayEnd(r), today)
  BY DEF EndedEarly
<1>3. ~EndsBefore(r.actualOut, today)
  BY <1>2 DEF DisplayEnd, EndsBefore
<1>4. DisplayStatus(r, today) \in {"active", "notice_given"}
  BY <1>1, <1>3 DEF DisplayStatus
<1> QED
  BY <1>1, <1>2, <1>4 DEF IsTenancyActiveByDates, Covers

Dropped(t, today) == Lapsed(rows[t], today) \/ EndedEarly(rows[t], today)

LEMMA GuestDropped ==
    ASSUME NEW t \in Live, rows[t] \in Row, NEW today \in Date, Open(rows[t]),
           CoversDay(rows[t], today), ~IsTenancyActiveByDates(rows[t], today)
    PROVE  Dropped(t, today)
<1>1. CASE rows[t].status = "active"
  BY <1>1, GuestIsCurrent DEF Dropped
<1>2. CASE rows[t].status = "reserved"
  BY <1>2 DEF Dropped, Lapsed, CoversDay, Covers
<1> QED
  BY <1>1, <1>2 DEF Open

\* The label of a room goes by its guest.
LEMMA RoomGoesByGuest ==
    ASSUME SInv, NEW room, NEW today \in Date
    PROVE  /\ CurrentIn(ForRoom(room, Listed), Listed, today)
                  \subseteq {ShownGuest(room, today)}
           /\ ShownGuest(room, today) # None
              /\ CurrentIn(ForRoom(room, Listed), Listed, today) = {}
                  => Dropped(ShownGuest(room, today), today)
<1> DEFINE current == CurrentIn(ForRoom(room, Listed), Listed, today)
           guest   == ShownGuest(room, today)
<1>0. IInv
  BY DEF SInv
<1>1. ASSUME NEW t \in current
      PROVE  t = guest
  <2>1. t \in Live /\ rows[t].room = room /\ IsTenancyActiveByDates(rows[t], today)
    BY DEF CurrentIn, ForRoom, Listed
  <2>2. t \in Guests(room, today)
    BY <2>1, CurrentIsGuest
  <2> QED
    BY <1>0, <2>2, GuestIsShown
<1>2. ASSUME guest # None, current = {}
      PROVE  Dropped(guest, today)
  <2>1. guest \in Guests(room, today)
    BY <1>0, <1>2, ShownIsGuest
  <2>2. /\ guest \in Live /\ rows[guest] \in Row /\ rows[guest].room = room
        /\ Open(rows[guest]) /\ CoversDay(rows[guest], today)
    BY <1>0, <2>1, GuestIsShown
  <2>3. ~IsTenancyActiveByDates(rows[guest], today)
    <3> HIDE DEF guest
    <3> QED
      BY <1>2, <2>2 DEF CurrentIn, ForRoom, Listed
  <2> QED
    BY <2>2, <2>3, GuestDropped
<1> QED
  BY <1>1, <1>2

\* A unit that is labelled free or reserved has no current contract in any of its rooms.
LEMMA FreeUnitHasNoCurrent ==
    ASSUME SInv, IsFiniteSet(Rooms), NEW coLiving \in BOOLEAN, NEW n \in Nat,
           NEW today \in Date, NEW room \in Rooms,
           GetUnitOccupancyStatus(coLiving, n, Listed, today) \in {"frei", "reserviert"}
    PROVE  CurrentIn(ForRoom(room, Listed), Listed, today) = {}
<1>1. CASE ~coLiving
  <2>1. SlotStatus(DOMAIN Listed, Listed, today) # "belegt"
    BY <1>1 DEF GetUnitOccupancyStatus
  <2>2. CurrentIn(DOMAIN Listed, Listed, today) = {}
    BY <2>1 DEF SlotStatus
  <2> QED
    BY <2>2 DEF CurrentIn, ForRoom
<1>2. CASE coLiving
  <2> DEFINE taken == {r \in Rooms : GetRoomOccupancyStatus(r, Listed, today) = "belegt"}
             total == IF n = 0 THEN Cardinality(Rooms) ELSE n
             size  == Cardinality(taken)
  <2>1. IsFiniteSet(taken)
    BY FS_Subset
  <2>2. size \in Nat /\ Cardinality(Rooms) \in Nat
    BY <2>1, FS_CardinalityType
  <2>3. Rooms # {}
    OBVIOUS
  <2>4. total # 0
    BY <2>2, <2>3, FS_EmptySet
  <2>5. ~(size > 0)
    <3> HIDE DEF total, size
    <3>1. GetUnitOccupancyStatus(coLiving, n, Listed, today) =
              IF total = 0 THEN None
              ELSE IF size >= total /\ size > 0 THEN "belegt"
              ELSE IF size > 0 THEN "teilbelegt"
              ELSE IF {r \in Rooms : GetRoomOccupancyStatus(r, Listed, today) = "reserviert"} # {}
                   THEN "reserviert"
              ELSE "frei"
      BY <1>2 DEF GetUnitOccupancyStatus, total, size
    <3> QED
      BY <2>4, <3>1
  <2>6. taken = {}
    BY <2>1, <2>2, <2>5, FS_EmptySet
  <2>7. GetRoomOccupancyStatus(room, Listed, today) # "belegt"
    BY <2>6
  <2> QED
    BY <2>7 DEF GetRoomOccupancyStatus, SlotStatus
<1> QED
  BY <1>1, <1>2

LEMMA LabelsAgree ==
    ASSUME SInv, IsFiniteSet(Rooms), None \notin Tenancies
    PROVE  BelegtIsOccupied
<1> SUFFICES ASSUME NEW today \in Date
             PROVE
        LET dropped(t) == Dropped(t, today)
            guests     == {ShownGuest(room, today) : room \in Rooms} \ {None}
            entered    == 0 .. Cardinality(Rooms) + 1
        IN  /\ \A room \in Rooms :
                   LET current == CurrentIn(ForRoom(room, Listed), Listed, today)
                       guest   == ShownGuest(room, today)
                   IN  /\ current \subseteq {guest}
                       /\ guest # None /\ current = {} => dropped(guest)
            /\ \A coLiving \in BOOLEAN, n \in entered :
                   GetUnitOccupancyStatus(coLiving, n, Listed, today) \in {"frei", "reserviert"} =>
                       \A t \in guests : dropped(t)
            /\ \A x \in Tenants :
                   LET T == {t \in Live : rows[t].tenant = x}
                   IN  DeriveTenantOperationalStatus(T, Listed, today) = "active" =>
                           T \cap guests # {}
  BY DEF BelegtIsOccupied, Dropped
<1> DEFINE guests == {ShownGuest(room, today) : room \in Rooms} \ {None}
<1>0. IInv
  BY DEF SInv
<1>1. \A room \in Rooms :
          /\ CurrentIn(ForRoom(room, Listed), Listed, today) \subseteq {ShownGuest(room, today)}
          /\ ShownGuest(room, today) # None
             /\ CurrentIn(ForRoom(room, Listed), Listed, today) = {}
                 => Dropped(ShownGuest(room, today), today)
  BY RoomGoesByGuest
<1>2. ASSUME NEW coLiving \in BOOLEAN, NEW n \in 0 .. Cardinality(Rooms) + 1,
             GetUnitOccupancyStatus(coLiving, n, Listed, today) \in {"frei", "reserviert"},
             NEW t \in guests
      PROVE  Dropped(t, today)
  <2>1. PICK room \in Rooms : t = ShownGuest(room, today) /\ t # None
    OBVIOUS
  <2>2. n \in Nat
    BY FS_CardinalityType
  <2>3. CurrentIn(ForRoom(room, Listed), Listed, today) = {}
    BY <1>2, <2>2, FreeUnitHasNoCurrent
  <2> QED
    BY <1>1, <2>1, <2>3
<1>3. ASSUME NEW x \in Tenants,
             DeriveTenantOperationalStatus({t \in Live : rows[t].tenant = x}, Listed, today)
                 = "active"
      PROVE  {t \in Live : rows[t].tenant = x} \cap guests # {}
  <2> DEFINE T == {t \in Live : rows[t].tenant = x}
  <2>1. CurrentIn(T, Listed, today) # {}
    <3> HIDE DEF T
    <3> QED
      BY <1>3 DEF DeriveTenantOperationalStatus, T
  <2>2. PICK t \in T : t \in Live /\ IsTenancyActiveByDates(rows[t], today)
    BY <2>1 DEF CurrentIn, Listed
  <2>3. t \in Guests(rows[t].room, today)
    BY <2>2, CurrentIsGuest
  <2>4. ShownGuest(rows[t].room, today) = t /\ rows[t] \in Row /\ t \in Tenancies
    BY <1>0, <2>3, GuestIsShown DEF Live
  <2>5. t \in guests
    BY <2>4, RowDates
  <2> QED
    BY <2>2, <2>5
<1> QED
  BY <1>1, <1>2, <1>3

\* The labels of rooms, units and tenants agree with the engine, but for a reservation
\* nobody has activated and an end shown earlier than it is stored, for any number of
\* rooms and whatever number of rooms is entered for the unit.
THEOREM LabelsFollowGuests ==
    ASSUME NEW w0, Workers = {w0}, IsFiniteSet(Rooms), None \notin Tenancies
    PROVE  Spec => []BelegtIsOccupied
BY SerialInvariance, LabelsAgree, PTL

-------------------------------------------------------------------------------
(***************************************************************************)
(* The outlook.                                                            *)
(***************************************************************************)

LEMMA OutlookIsComplete == SInv => OutlookMissesNothing
<1> SUFFICES ASSUME SInv, NEW room \in Rooms, NEW today \in Date, NEW horizon \in Date,
                    today <= horizon
             PROVE
        LET guest == ShownGuest(room, today)
            later == ShownGuest(room, horizon)
            shown(t) == rows[t].status = "active" /\ ~EndedEarly(rows[t], today)
        IN  /\ \A coLiving \in BOOLEAN :
                   /\ guest # None /\ shown(guest)
                   /\ rows[guest].moveOut # None /\ rows[guest].moveOut <= horizon
                   /\ \A t \in IF coLiving THEN ForRoom(room, Listed) ELSE Live :
                          rows[t].moveIn <= today
                   => GapWarned(coLiving, Listed, today, horizon)
            /\ later # None /\ shown(later) /\ rows[later].moveOut # horizon =>
                   later \in ForecastRents(Listed, today, horizon)
            /\ \A end \in Date :
                   /\ GetUnitContractState(FALSE, end, end, today, horizon) = "expired"
                   /\ guest # None /\ shown(guest)
                   => CollidesWithLandlordLeaseEnd(rows[guest], end, today)
  BY DEF OutlookMissesNothing
<1> DEFINE shown(t) == rows[t].status = "active" /\ ~EndedEarly(rows[t], today)
<1>0. IInv /\ today \in Int /\ horizon \in Int
  BY DEF SInv
\* The guest of a day, as a row.
<1>1. ASSUME NEW day \in Date, NEW t, t = ShownGuest(room, day), t # None
      PROVE  /\ t \in Live /\ rows[t] \in Row /\ rows[t].room = room
             /\ rows[t].moveIn <= day /\ ~EndsBefore(rows[t].moveOut, day)
             /\ rows[t].moveIn \in Int /\ (rows[t].moveOut # None => rows[t].moveOut \in Int)
  <2>1. t \in Guests(room, day)
    BY <1>0, <1>1, ShownIsGuest
  <2>2. t \in Live /\ rows[t] \in Row /\ rows[t].room = room /\ CoversDay(rows[t], day)
    BY <1>0, <2>1, GuestIsShown
  <2> QED
    BY <2>2, RowDates DEF CoversDay, Covers
<1>2. ASSUME NEW t, t = ShownGuest(room, today), t # None, shown(t)
      PROVE  /\ IsTenancyActiveByDates(rows[t], today)
             /\ t \in CurrentIn(ForRoom(room, Listed), Listed, today)
             /\ t \in CurrentIn(DOMAIN Listed, Listed, today)
  <2>1. /\ t \in Live /\ rows[t] \in Row /\ rows[t].room = room
        /\ CoversDay(rows[t], today)
    BY <1>1, <1>2 DEF CoversDay, Covers
  <2>2. IsTenancyActiveByDates(rows[t], today)
    BY <1>2, <2>1, GuestIsCurrent
  <2> QED
    BY <2>1, <2>2 DEF CurrentIn, ForRoom, Listed
<1>3. ASSUME NEW coLiving \in BOOLEAN, NEW t, t = ShownGuest(room, today), t # None, shown(t),
             rows[t].moveOut # None, rows[t].moveOut <= horizon,
             \A u \in IF coLiving THEN ForRoom(room, Listed) ELSE Live : rows[u].moveIn <= today
      PROVE  GapWarned(coLiving, Listed, today, horizon)
  <2>1. t \in Live /\ rows[t].room = room /\ today <= rows[t].moveOut
    BY <1>0, <1>1, <1>3 DEF EndsBefore
  <2>2. ASSUME NEW u \in Live, rows[u].moveIn <= today
        PROVE  ~(today < rows[u].moveIn)
    <3>1. rows[u] \in Row
      BY <1>0 DEF IInv, TypeOK, Live
    <3> QED
      BY <1>0, <2>2, <3>1, RowDates
  <2>3. CASE coLiving
    <3>1. t \in MoveOutsSoon(ForRoom(room, Listed), Listed, today, horizon)
      BY <1>2, <1>3, <2>1 DEF MoveOutsSoon, Listed
    <3>2. \A u \in ForRoom(room, Listed) : u \in Live /\ Listed[u] = rows[u]
      BY DEF ForRoom, Listed
    <3>3. UpcomingIn(ForRoom(room, Listed), Listed, today) = {}
      BY <1>3, <2>2, <2>3, <3>2
         DEF UpcomingIn, Upcoming, IsTenancyReservedSlot, IsTenancyFuture
    <3> QED
      BY <2>3, <3>1, <3>3 DEF GapWarned
  <2>4. CASE ~coLiving
    <3>1. t \in MoveOutsSoon(DOMAIN Listed, Listed, today, horizon)
      BY <1>2, <1>3, <2>1 DEF MoveOutsSoon, Listed
    <3>2. \A u \in DOMAIN Listed : ~IsTenancyFuture(Listed[u], today)
      BY <1>3, <2>2, <2>4 DEF IsTenancyFuture, Listed
    <3> QED
      BY <2>4, <3>1, <3>2 DEF GapWarned
  <2> QED
    BY <2>3, <2>4
<1>4. ASSUME NEW t, t = ShownGuest(room, horizon), t # None, shown(t), rows[t].moveOut # horizon
      PROVE  t \in ForecastRents(Listed, today, horizon)
  <2>1. /\ t \in Live /\ rows[t] \in Row /\ rows[t].moveIn <= horizon
        /\ ~EndsBefore(rows[t].moveOut, horizon) /\ rows[t].moveIn \in Int
        /\ (rows[t].moveOut # None => rows[t].moveOut \in Int)
    BY <1>1, <1>4
  <2>2. CASE today < rows[t].moveIn
    BY <1>4, <2>1, <2>2
       DEF ForecastRents, MoveInsSoon, IsTenancyFuture, Listed
  <2>3. CASE rows[t].moveIn <= today
    <3>1. CoversDay(rows[t], today)
      BY <1>0, <2>1, <2>3 DEF CoversDay, Covers, EndsBefore
    <3>2. IsTenancyActiveByDates(rows[t], today)
      BY <1>4, <2>1, <3>1, GuestIsCurrent
    <3>3. ~(rows[t].moveOut # None /\ rows[t].moveOut <= horizon)
      BY <1>0, <1>4, <2>1 DEF EndsBefore
    <3>4. /\ t \in CurrentIn(DOMAIN Listed, Listed, today)
          /\ t \notin MoveOutsSoon(DOMAIN Listed, Listed, today, horizon)
      BY <2>1, <3>2, <3>3 DEF CurrentIn, MoveOutsSoon, Listed
    <3> QED
      BY <3>4 DEF ForecastRents
  <2> QED
    BY <1>0, <2>1, <2>2, <2>3
<1>5. ASSUME NEW end \in Date, NEW t, t = ShownGuest(room, today), t # None, shown(t),
             GetUnitContractState(FALSE, end, end, today, horizon) = "expired"
      PROVE  CollidesWithLandlordLeaseEnd(rows[t], end, today)
  <2>1. end \in Int /\ end < today
    BY <1>5 DEF GetUnitContractState, EndsBefore
  <2>2. EndsAfter(rows[t].moveOut, end)
    BY <1>0, <1>1, <1>5, <2>1 DEF EndsAfter, EndsBefore
  <2> QED
    BY <1>2, <1>5, <2>2 DEF CollidesWithLandlordLeaseEnd
<1> QED
  BY <1>3, <1>4, <1>5

\* With requests one after the other, nobody who leaves, comes or outstays the lease by
\* the engine is missed by the outlook, on any day and up to any horizon.
THEOREM OutlookComplete ==
    ASSUME NEW w0, Workers = {w0}
    PROVE  Spec => []OutlookMissesNothing
BY SerialInvariance, OutlookIsComplete, PTL

-------------------------------------------------------------------------------
(***************************************************************************)
(* The months of the dashboard.  The stored stays are enough here, so the  *)
(* requests may cross.                                                     *)
(***************************************************************************)

\* The CHECK of the table: every stored stay has a day.
StartsFirst == \A t \in Live : MoveOutAfterMoveIn(rows[t])

LEMMA AcceptedStartsFirst ==
    ASSUME TypeOK, StartsFirst, NEW t \in Tenancies, NEW r \in Row,
           TableAccepts(t, r), rows' = [rows EXCEPT ![t] = r]
    PROVE  StartsFirst'
<1>1. \A x \in Live' \ {t} : x \in Live /\ rows'[x] = rows[x]
  BY DEF Live, TypeOK
<1>2. rows'[t] = r /\ MoveOutAfterMoveIn(r)
  BY DEF TypeOK, TableAccepts
<1> QED
  BY <1>1, <1>2 DEF StartsFirst, MoveOutAfterMoveIn

LEMMA NextStartsFirst == TypeOK /\ StartsFirst /\ [Next]_vars => StartsFirst'
<1> SUFFICES ASSUME TypeOK, StartsFirst, [Next]_vars
             PROVE  StartsFirst'
  OBVIOUS
<1>1. ASSUME NEW w \in Workers, NEW t \in Tenancies, Insert(w, t)
      PROVE  StartsFirst'
  <2> DEFINE r == NewRow(job[w].body)
  <2>1. r \in Row
    BY <1>1, JobShapes, NewRowType DEF Insert, InsertJob
  <2>2. TableAccepts(t, r) /\ rows' = [rows EXCEPT ![t] = r]
    BY <1>1 DEF Insert, InsertAccepted
  <2> QED
    BY <2>1, <2>2, AcceptedStartsFirst
<1>2. ASSUME NEW w \in Workers, Update(w)
      PROVE  StartsFirst'
  <2> DEFINE t == job[w].id
             r == UpdatedRow(w)
  <2>1. At(w, "update") /\ UpdateAccepted(w)
    BY <1>2 DEF Update
  <2>2. t \in Tenancies /\ r \in Row
    BY <2>1, UpdateWrites
  <2>3. TableAccepts(t, r) /\ rows' = [rows EXCEPT ![t] = r]
    BY <1>2, <2>1 DEF Update, UpdateAccepted
  <2> QED
    BY <2>2, <2>3, AcceptedStartsFirst
<1>3. ASSUME NEW w \in Workers, Delete(w)
      PROVE  StartsFirst'
  <2>1. rows' = [rows EXCEPT ![job[w].id] = None]
    BY <1>3 DEF Delete
  <2>2. \A x \in Live' : x \in Live /\ rows'[x] = rows[x]
    BY <2>1 DEF Live, TypeOK
  <2> QED
    BY <2>2 DEF StartsFirst, MoveOutAfterMoveIn
<1>4. ASSUME UNCHANGED rows
      PROVE  StartsFirst'
  BY <1>4 DEF StartsFirst, Live
<1>5. ASSUME NEW w \in Workers,
             \/ \E c \in Creates : CheckCreate(w, c)
             \/ \E t \in Tenancies, p \in Patches : Load(w, t, p)
             \/ \E t \in Tenancies : LoadForDelete(w, t) \/ PickForInvoice(w, t)
             \/ DropPeople(w) \/ CheckPatch(w) \/ RollBack(w) \/ Invoice(w)
      PROVE  UNCHANGED rows
  BY <1>5 DEF CheckCreate, Load, LoadForDelete, PickForInvoice, DropPeople, CheckPatch,
              RollBack, Invoice
<1>6. ASSUME UNCHANGED vars
      PROVE  UNCHANGED rows
  BY <1>6 DEF vars
<1> QED
  BY <1>1, <1>2, <1>3, <1>4, <1>5, <1>6 DEF Next, Proceed, Refuse

\* The label of a month, from the contracts whose stored stay meets it.
LEMMA MonthOfRoom ==
    ASSUME TypeOK, StartsFirst, NEW room, NEW first \in Date, NEW last \in Date, first <= last
    PROVE  LET kind == RoomOccupancyKindForMonth(room, Listed, first, last)
           IN  /\ \A d \in first .. last : ShownGuest(room, d) # None => kind # "frei"
               /\ kind # "frei" =>
                      \E d \in first .. last, t \in ForRoom(room, Listed) :
                          Covers(rows[t].moveIn, rows[t].moveOut, d)
<1> DEFINE kind  == RoomOccupancyKindForMonth(room, Listed, first, last)
           met   == {t \in ForRoom(room, Listed) :
                        rows[t].moveIn <= last /\ ~EndsBefore(rows[t].moveOut, first)}
           is(s) == \E t \in met : rows[t].status = s
<1>1. /\ \A t \in ForRoom(room, Listed) : t \in Live /\ Listed[t] = rows[t]
      /\ \A t \in Live : rows[t].room = room => t \in ForRoom(room, Listed)
  BY DEF ForRoom, Listed
<1>2. \A t \in Live : rows[t] \in Row
  BY DEF TypeOK, Live
<1>3. kind = IF is("active") THEN "belegt"
             ELSE IF is("reserved") THEN "reserviert"
             ELSE IF is("ended") THEN "belegt"
             ELSE "frei"
  <2>1. met = {t \in ForRoom(room, Listed) :
                  Listed[t].moveIn <= last /\ ~EndsBefore(Listed[t].moveOut, first)}
    BY <1>1
  <2>2. \A s : is(s) <=> \E t \in met : Listed[t].status = s
    BY <1>1
  <2> QED
    BY <2>1, <2>2 DEF RoomOccupancyKindForMonth
<1>4. ASSUME NEW d \in first .. last, ShownGuest(room, d) # None
      PROVE  kind # "frei"
  <2>1. PICK t \in Guests(room, d) : TRUE
    BY <1>4 DEF ShownGuest
  <2>2. t \in Live /\ rows[t].room = room /\ Open(rows[t]) /\ CoversDay(rows[t], d)
    BY <2>1 DEF Guests, SaysOccupied
  <2>3. rows[t] \in Row /\ t \in ForRoom(room, Listed)
    BY <1>1, <1>2, <2>2
  <2>4. rows[t].moveIn <= last /\ ~EndsBefore(rows[t].moveOut, first)
    BY <2>2, <2>3, RowDates DEF CoversDay, Covers, EndsBefore
  <2>5. t \in met
    BY <2>3, <2>4
  <2>6. is("active") \/ is("reserved")
    BY <2>2, <2>5 DEF Open
  <2> HIDE DEF is, kind
  <2> QED
    BY <1>3, <2>6
<1>5. ASSUME kind # "frei"
      PROVE  \E d \in first .. last, t \in ForRoom(room, Listed) :
                 Covers(rows[t].moveIn, rows[t].moveOut, d)
  <2>1. is("active") \/ is("reserved") \/ is("ended")
    <3> HIDE DEF is, kind
    <3> QED
      BY <1>3, <1>5
  <2>2. PICK t \in met : TRUE
    BY <2>1
  <2>3. /\ rows[t] \in Row /\ t \in ForRoom(room, Listed) /\ MoveOutAfterMoveIn(rows[t])
        /\ rows[t].moveIn <= last /\ ~EndsBefore(rows[t].moveOut, first)
    BY <1>1, <1>2, <2>2 DEF StartsFirst
  <2> DEFINE d == IF rows[t].moveIn <= first THEN first ELSE rows[t].moveIn
  <2>4. d \in first .. last
    BY <2>3, RowDates
  <2>5. Covers(rows[t].moveIn, rows[t].moveOut, d)
    BY <2>3, RowDates DEF Covers, EndsBefore, MoveOutAfterMoveIn, EndsAfter
  <2> QED
    BY <2>3, <2>4, <2>5
<1> QED
  BY <1>4, <1>5

LEMMA MonthsAgree ==
    ASSUME TypeOK, StartsFirst, IsFiniteSet(Rooms)
    PROVE  MonthAgreesWithEngine
<1> SUFFICES ASSUME NEW first \in Date, NEW last \in Date, first <= last
             PROVE
        LET kind(room) == RoomOccupancyKindForMonth(room, Listed, first, last)
            counts     == GetCoLivingMetricsForMonth(Listed, first, last)
        IN  /\ \A room \in Rooms :
                   /\ (\E d \in first .. last : ShownGuest(room, d) # None) => kind(room) # "frei"
                   /\ kind(room) # "frei" =>
                          \E d \in first .. last, t \in ForRoom(room, Listed) :
                              Covers(rows[t].moveIn, rows[t].moveOut, d)
            /\ counts.free <= Cardinality({room \in Rooms :
                                   \A d \in first .. last : ShownGuest(room, d) = None})
  BY DEF MonthAgreesWithEngine
<1> DEFINE kind(room) == RoomOccupancyKindForMonth(room, Listed, first, last)
           free  == {room \in Rooms : kind(room) = "frei"}
           empty == {room \in Rooms : \A d \in first .. last : ShownGuest(room, d) = None}
<1>1. \A room \in Rooms :
          /\ \A d \in first .. last : ShownGuest(room, d) # None => kind(room) # "frei"
          /\ kind(room) # "frei" =>
                 \E d \in first .. last, t \in ForRoom(room, Listed) :
                     Covers(rows[t].moveIn, rows[t].moveOut, d)
  BY MonthOfRoom
<1>2. GetCoLivingMetricsForMonth(Listed, first, last).free = Cardinality(free)
  BY DEF GetCoLivingMetricsForMonth
<1>3. IsFiniteSet(empty) /\ free \subseteq empty
  <2>1. IsFiniteSet(empty)
    BY FS_Subset
  <2>2. free \subseteq empty
    <3> HIDE DEF kind
    <3> QED
      BY <1>1
  <2> QED
    BY <2>1, <2>2
<1>4. Cardinality(free) <= Cardinality(empty)
  BY <1>3, FS_Subset
<1> QED
  BY <1>1, <1>2, <1>4

\* The dashboard's month and the engine tell the same story, for any number of rooms
\* and days and of requests that cross.
THEOREM MonthsFollowGuests ==
    ASSUME IsFiniteSet(Rooms)
    PROVE  Spec => []MonthAgreesWithEngine
<1>1. Init => TypeOK /\ StartsFirst
  BY InitTypeOK DEF Init, StartsFirst, Live
<1>2. TypeOK /\ StartsFirst /\ [Next]_vars => TypeOK' /\ StartsFirst'
  BY NextTypeOK, NextStartsFirst
<1>3. TypeOK /\ StartsFirst => MonthAgreesWithEngine
  BY MonthsAgree
<1> QED
  BY <1>1, <1>2, <1>3, PTL DEF Spec
===============================================================================
