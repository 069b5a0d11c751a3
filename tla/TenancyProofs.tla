----------------------------- MODULE TenancyProofs -----------------------------
(***************************************************************************)
(* Theorems of TenancyDates and Tenancy, for every set of days, rooms,     *)
(* tenants, contract ids, workers and request bodies.                      *)
(***************************************************************************)
EXTENDS Tenancy, TLAPS

USE DateAssumption DEF OptDate

-------------------------------------------------------------------------------
(***************************************************************************)
(* The date rules.                                                         *)
(***************************************************************************)

\* max over optional days is an optional day.
LEMMA LaterType ==
    ASSUME NEW a \in OptDate, NEW b \in OptDate
    PROVE  Later(a, b) \in OptDate
BY DEF Later

\* scheduling_end_date_from_parts returns one of its operands, or None.
LEMMA SchedulingEndType ==
    ASSUME NEW mo \in OptDate, NEW te \in OptDate, NEW act \in OptDate
    PROVE  SchedulingEnd(mo, te, act) \in OptDate
BY LaterType DEF SchedulingEnd

\* Syncing move_out twice is syncing it once: the scheduling end of a synced row
\* is its move-out, so a patch that changes nothing leaves the stay alone.
THEOREM SyncIsIdempotent ==
    ASSUME NEW mo \in OptDate, NEW te \in OptDate, NEW act \in OptDate
    PROVE  LET end == SchedulingEnd(mo, te, act)
           IN  SchedulingEnd(end, te, act) = end
BY DEF SchedulingEnd, Later

\* The stored end after a sync is no earlier than any end the row carries: the
\* stay the database guards contains every stay the columns describe.
THEOREM SchedulingEndCoversAll ==
    ASSUME NEW mo \in OptDate, NEW te \in OptDate, NEW act \in OptDate,
           NEW end \in {mo, te, act}, end # None
    PROVE  LET sched == SchedulingEnd(mo, te, act)
           IN  sched # None /\ ~EndsBefore(sched, end)
BY DEF SchedulingEnd, Later, EndsBefore

-------------------------------------------------------------------------------
(***************************************************************************)
(* Two stays of one room.                                                  *)
(***************************************************************************)

\* The dates of a row are days, or None for an end that is open.
LEMMA RowDates ==
    ASSUME NEW r \in Row
    PROVE  /\ r.moveIn \in Date /\ r.moveIn \in Int
           /\ r.moveOut \in OptDate /\ (r.moveOut # None => r.moveOut \in Int)
           /\ r.termination \in OptDate
           /\ r.actualOut \in OptDate
           /\ r.room \in Rooms /\ r.tenant \in Tenants /\ r.status \in Status
BY DEF Row

\* The order of two rows does not matter to the exclusion constraint.
LEMMA RangesMeetSymmetric ==
    ASSUME NEW a, NEW b
    PROVE  RangesMeet(a, b) <=> RangesMeet(b, a)
BY DEF RangesMeet

\* Ranges of one room that do not meet share no day.
LEMMA ApartMeansNoSharedDay ==
    ASSUME NEW a \in Row, NEW b \in Row, NEW d \in Date,
           a.room = b.room, ~RangesMeet(a, b)
    PROVE  ~(Covers(a.moveIn, a.moveOut, d) /\ Covers(b.moveIn, b.moveOut, d))
<1>1. d \in Int
  OBVIOUS
<1>2. CASE EndsBefore(a.moveOut, b.moveIn)
  BY <1>1, <1>2, RowDates DEF Covers, EndsBefore
<1>3. CASE EndsBefore(b.moveOut, a.moveIn)
  BY <1>1, <1>3, RowDates DEF Covers, EndsBefore
<1> QED
  BY <1>2, <1>3 DEF RangesMeet

\* Ranges that meet share a day, the later of the two move-ins: the half-open
\* daterange of the constraint says exactly "both have the room on some day", and
\* refuses nothing else.
THEOREM MeetingRangesShareADay ==
    ASSUME NEW a \in Row, NEW b \in Row, RangesMeet(a, b),
           MoveOutAfterMoveIn(a), MoveOutAfterMoveIn(b)
    PROVE  \E d \in Date : /\ Covers(a.moveIn, a.moveOut, d)
                           /\ Covers(b.moveIn, b.moveOut, d)
<1> USE RowDates DEF RangesMeet, Covers, EndsBefore, EndsAfter, MoveOutAfterMoveIn
<1>1. CASE a.moveIn <= b.moveIn
  <2>1. Covers(a.moveIn, a.moveOut, b.moveIn) /\ Covers(b.moveIn, b.moveOut, b.moveIn)
    BY <1>1
  <2> QED
    BY <2>1
<1>2. CASE b.moveIn < a.moveIn
  <2>1. Covers(a.moveIn, a.moveOut, a.moveIn) /\ Covers(b.moveIn, b.moveOut, a.moveIn)
    BY <1>2
  <2> QED
    BY <2>1
<1> QED
  BY <1>1, <1>2

\* What the overlap query of the service reports the constraint would refuse as
\* well, for rows that are in sync; the converse fails on the turnover day and for
\* ended contracts, where the constraint is the stricter of the two.
THEOREM ServiceOverlapIsRefused ==
    ASSUME NEW a \in Row, NEW b \in Row, a.room = b.room, RowEnd(a) = a.moveOut,
           ServiceOverlap(a, b.moveIn, b.moveOut)
    PROVE  RangesMeet(a, b)
<1>1. EndsAfter(a.moveOut, b.moveIn) /\ EndsAfter(b.moveOut, a.moveIn)
  BY DEF ServiceOverlap
<1> QED
  BY <1>1, RowDates DEF RangesMeet, EndsBefore, EndsAfter

\* The end shown to users lies inside the stay the database guards, and a stay is
\* shown as open exactly when it is open: the actual move-out may show an earlier
\* end than is booked, never a later one.
THEOREM DisplayEndIsBooked ==
    ASSUME NEW r \in Row, r.moveOut = RowEnd(r)
    PROVE  /\ DisplayEnd(r) = None <=> r.moveOut = None
           /\ DisplayEnd(r) # None => ~EndsBefore(r.moveOut, DisplayEnd(r))
<1>1. DisplayEnd(r) = None <=> r.moveOut = None
  BY RowDates DEF DisplayEnd, RowEnd, SchedulingEnd, Later
<1>2. ASSUME DisplayEnd(r) # None
      PROVE  ~EndsBefore(r.moveOut, DisplayEnd(r))
  <2>1. DisplayEnd(r) \in {r.moveOut, r.termination, r.actualOut}
    BY DEF DisplayEnd
  <2> QED
    BY <1>2, <2>1, RowDates, SchedulingEndCoversAll DEF RowEnd
<1> QED
  BY <1>1, <1>2

-------------------------------------------------------------------------------
(***************************************************************************)
(* Rows that the requests compute are rows.                                *)
(***************************************************************************)

\* A participants list the request models accept has a primary tenant, who is one
\* of the tenants, and no tenant twice.
LEMMA PartyHasPrimary ==
    ASSUME NEW P \in Party
    PROVE  /\ P \in SUBSET Participant
           /\ PrimaryTenant(P) \in Tenants
           /\ Primaries(P) # {}
           /\ NoTenantTwice(P)
<1>1. PICK p \in P : Primaries(P) = {p}
  BY DEF Party
<1>2. p \in P /\ p.role = "primary_tenant"
  BY <1>1 DEF Primaries
<1>3. (CHOOSE q \in P : q.role = "primary_tenant") \in P
  BY <1>2
<1>4. P \in SUBSET Participant
  BY DEF Party
<1>5. PrimaryTenant(P) \in Tenants
  BY <1>3, <1>4 DEF PrimaryTenant, Participant
<1> QED
  BY <1>1, <1>4, <1>5 DEF Party

LEMMA SyncedType ==
    ASSUME NEW r \in Row
    PROVE  Synced(r) \in Row
<1>1. RowEnd(r) \in OptDate
  BY SchedulingEndType, RowDates DEF RowEnd
<1> QED
  BY <1>1 DEF Synced, Row

\* What create_tenancy inserts is a row.
LEMMA NewRowType ==
    ASSUME NEW c \in Create
    PROVE  NewRow(c) \in Row
<1>1. PrimaryTenant(c.people) \in Tenants
  BY PartyHasPrimary DEF Create
<1>2. [room |-> c.room, tenant |-> PrimaryTenant(c.people),
       moveIn |-> c.moveIn, moveOut |-> c.moveOut,
       termination |-> c.termination, actualOut |-> c.actualOut,
       status |-> c.status] \in Row
  BY <1>1 DEF Create, Row
<1> QED
  BY <1>2, SyncedType DEF NewRow

\* What patch_tenancy computes from a row is a row, before and after the sync.
LEMMA AssignedType ==
    ASSUME NEW r \in Row, NEW p \in Patch
    PROVE  Assigned(r, p) \in Row
<1>1. HasPeople(p) => PrimaryTenant(p.people) \in Tenants
  BY PartyHasPrimary DEF Patch, HasPeople
<1>2. /\ Patched(r.moveIn, p.moveIn) \in Date
      /\ Patched(r.moveOut, p.moveOut) \in OptDate
      /\ Patched(r.termination, p.termination) \in OptDate
      /\ Patched(r.actualOut, p.actualOut) \in OptDate
      /\ Patched(r.status, p.status) \in Status
  BY RowDates DEF Patched, Patch
<1> QED
  BY <1>1, <1>2, RowDates DEF Assigned, Row

LEMMA PatchedRowType ==
    ASSUME NEW r \in Row, NEW p \in Patch
    PROVE  PatchedRow(r, p) \in Row
BY AssignedType, SyncedType DEF PatchedRow

\* What the flush makes of it is a row, of the same room.
LEMMA UpdatedType ==
    ASSUME NEW seen \in Row, NEW want \in Row, NEW now \in Row
    PROVE  /\ Updated(seen, want, now) \in Row
           /\ Updated(seen, want, now).room = now.room
BY DEF Updated, Touched, Row

-------------------------------------------------------------------------------
(***************************************************************************)
(* Type correctness.                                                       *)
(***************************************************************************)

\* What the step of a worker says of its job.
LEMMA JobShapes ==
    ASSUME TypeOK, NEW w \in Workers
    PROVE  /\ At(w, "insert") => job[w] \in InsertJob
           /\ Patching(w) => job[w] \in PatchJob
           /\ At(w, "delete") \/ At(w, "bill") => job[w] \in RowJob
BY DEF TypeOK, Job, Idle, InsertJob, PatchJob, RowJob, At, Patching

\* A commit that makes another PATCH forget rows leaves it a PATCH.
LEMMA ForgetType ==
    ASSUME TypeOK, NEW v \in Workers, NEW t, NEW gone
    PROVE  Forget(v, t, gone) \in Job
<1>1. CASE Patching(v) /\ job[v].id = t
  <2>1. job[v] \in PatchJob
    BY <1>1, JobShapes
  <2>2. [job[v] EXCEPT !.gone = @ \ gone] \in PatchJob
    BY <2>1 DEF PatchJob
  <2> QED
    BY <1>1, <2>2 DEF Forget, Job
<1>2. CASE ~(Patching(v) /\ job[v].id = t)
  BY <1>2 DEF Forget, TypeOK
<1> QED
  BY <1>1, <1>2

LEMMA WantedType ==
    ASSUME TypeOK, NEW w \in Workers, Patching(w)
    PROVE  Wanted(w) \in Row
<1>1. job[w].seen \in Row /\ job[w].body \in Patch
  BY JobShapes DEF PatchJob
<1> QED
  BY <1>1, PatchedRowType DEF Wanted

\* What a commit of a PATCH leaves in the tables has the type of the tables, and
\* the contract keeps its room.
LEMMA UpdateWrites ==
    ASSUME TypeOK, NEW w \in Workers, At(w, "update"), UpdateAccepted(w)
    PROVE  /\ job[w] \in PatchJob
           /\ job[w].id \in Tenancies
           /\ rows[job[w].id] \in Row
           /\ UpdatedRow(w) \in Row
           /\ UpdatedRow(w).room = rows[job[w].id].room
           /\ UpdatedPeople(w) \in SUBSET Participant
           /\ HasPeople(job[w].body) => job[w].body.people \in Party
<1>1. job[w] \in PatchJob
  BY JobShapes DEF Patching, At
<1>2. job[w].id \in Tenancies /\ job[w].seen \in Row /\ job[w].body \in Patch
  BY <1>1 DEF PatchJob
<1>3. rows[job[w].id] \in Row
  BY <1>2 DEF UpdateAccepted, Live, TypeOK
<1>4. Wanted(w) \in Row
  BY WantedType DEF Patching, At
<1>5. UpdatedRow(w) \in Row /\ UpdatedRow(w).room = rows[job[w].id].room
  BY <1>2, <1>3, <1>4, UpdatedType DEF UpdatedRow
<1>6. HasPeople(job[w].body) => job[w].body.people \in Party
  BY <1>2 DEF HasPeople, Patch
<1>7. UpdatedPeople(w) \in SUBSET Participant
  BY <1>2, <1>6, PartyHasPrimary DEF UpdatedPeople, TypeOK
<1> QED
  BY <1>1, <1>2, <1>3, <1>5, <1>6, <1>7

LEMMA InitTypeOK == Init => TypeOK
BY DEF Init, TypeOK, Job

LEMMA NextTypeOK == TypeOK /\ [Next]_vars => TypeOK'
<1> SUFFICES ASSUME TypeOK, [Next]_vars
             PROVE  TypeOK'
  OBVIOUS
<1>1. ASSUME NEW w \in Workers, NEW c \in Creates, CheckCreate(w, c)
      PROVE  TypeOK'
  <2>1. [at |-> "insert", body |-> c] \in Job
    BY RequestAssumption DEF Job, InsertJob
  <2> QED
    BY <1>1, <2>1 DEF CheckCreate, TypeOK
<1>2. ASSUME NEW w \in Workers, NEW t \in Tenancies, Insert(w, t)
      PROVE  TypeOK'
  <2>1. job[w].body \in Create
    BY <1>2, JobShapes DEF Insert, InsertJob
  <2>2. NewRow(job[w].body) \in Row
    BY <2>1, NewRowType
  <2>3. job[w].body.people \in SUBSET Participant
    BY <2>1, PartyHasPrimary DEF Create
  <2> QED
    BY <1>2, <2>2, <2>3 DEF Insert, TypeOK, Job
<1>3. ASSUME NEW w \in Workers, NEW t \in Tenancies, NEW p \in Patches, Load(w, t, p)
      PROVE  TypeOK'
  <2>1. rows[t] \in Row
    BY <1>3 DEF Load, Live, TypeOK
  <2>2. [at |-> IF HasPeople(p) THEN "people" ELSE "check",
         id |-> t, body |-> p, seen |-> rows[t], gone |-> {}] \in PatchJob
    BY <2>1, RequestAssumption DEF PatchJob
  <2> QED
    BY <1>3, <2>2 DEF Load, TypeOK, Job
<1>4. ASSUME NEW w \in Workers, DropPeople(w)
      PROVE  TypeOK'
  <2>1. job[w] \in PatchJob
    BY <1>4, JobShapes DEF DropPeople, Patching, At
  <2>2. people[job[w].id] \in SUBSET Participant
    BY <2>1 DEF TypeOK, PatchJob
  <2>3. [job[w] EXCEPT !.at = "check", !.gone = people[job[w].id]] \in PatchJob
    BY <2>1, <2>2 DEF PatchJob
  <2>4. job' = [job EXCEPT ![w] = [job[w] EXCEPT !.at = "check", !.gone = people[job[w].id]]]
    BY <1>4 DEF DropPeople, TypeOK
  <2> QED
    BY <1>4, <2>3, <2>4 DEF DropPeople, TypeOK, Job
<1>5. ASSUME NEW w \in Workers, CheckPatch(w)
      PROVE  TypeOK'
  <2>1. job[w] \in PatchJob
    BY <1>5, JobShapes DEF CheckPatch, Patching, At
  <2>2. [job[w] EXCEPT !.at = "update"] \in PatchJob
    BY <2>1 DEF PatchJob
  <2>3. job' = [job EXCEPT ![w] = [job[w] EXCEPT !.at = "update"]]
    BY <1>5 DEF CheckPatch, TypeOK
  <2> QED
    BY <1>5, <2>2, <2>3 DEF CheckPatch, TypeOK, Job
<1>6. ASSUME NEW w \in Workers, Update(w)
      PROVE  TypeOK'
  <2> DEFINE t == job[w].id
  <2>1. At(w, "update") /\ UpdateAccepted(w)
    BY <1>6 DEF Update
  <2>2. t \in Tenancies /\ UpdatedRow(w) \in Row /\ UpdatedPeople(w) \in SUBSET Participant
    BY <2>1, UpdateWrites
  <2>3. Wanted(w) \in Row
    BY <2>1, WantedType DEF Patching, At
  <2>4. \A v \in Workers : (IF v = w THEN Idle ELSE Forget(v, t, job[w].gone)) \in Job
    BY ForgetType DEF Job
  <2>5. job' \in [Workers -> Job]
    BY <1>6, <2>4 DEF Update
  <2>6. rows' \in [Tenancies -> Row \cup {None}] /\ logged' \in [Tenancies -> Row \cup {None}]
    BY <1>6, <2>2, <2>3 DEF Update, TypeOK
  <2>7. people' \in [Tenancies -> SUBSET Participant] /\ billed' \in SUBSET Tenancies
    BY <1>6, <2>2 DEF Update, TypeOK
  <2> QED
    BY <2>5, <2>6, <2>7 DEF TypeOK
<1>7. ASSUME NEW w \in Workers, NEW t \in Tenancies,
             LoadForDelete(w, t) \/ PickForInvoice(w, t)
      PROVE  TypeOK'
  BY <1>7 DEF LoadForDelete, PickForInvoice, TypeOK, Job, RowJob
<1>8. ASSUME NEW w \in Workers, Delete(w)
      PROVE  TypeOK'
  <2> DEFINE t == job[w].id
  <2>1. \A v \in Workers : (IF v = w THEN Idle ELSE Forget(v, t, people[t])) \in Job
    BY ForgetType DEF Job
  <2>2. job' \in [Workers -> Job]
    BY <1>8, <2>1 DEF Delete
  <2> QED
    BY <1>8, <2>2 DEF Delete, TypeOK
<1>9. ASSUME NEW w \in Workers, RollBack(w)
      PROVE  TypeOK'
  BY <1>9 DEF RollBack, TypeOK, Job
<1>10. ASSUME NEW w \in Workers, Invoice(w)
       PROVE  TypeOK'
  <2>1. job[w].id \in Tenancies
    BY <1>10, JobShapes DEF Invoice, RowJob
  <2> QED
    BY <1>10, <2>1 DEF Invoice, TypeOK, Job
<1>11. CASE UNCHANGED vars
  BY <1>11 DEF vars, TypeOK
<1> QED
  BY <1>1, <1>2, <1>3, <1>4, <1>5, <1>6, <1>7, <1>8, <1>9, <1>10, <1>11
     DEF Next, Proceed, Refuse

\* Whatever the requests and however they interleave, the tables hold rows of
\* their types and every worker is at a step of one of the three handlers.
THEOREM TypeCorrect == Spec => []TypeOK
BY InitTypeOK, NextTypeOK, PTL DEF Spec

-------------------------------------------------------------------------------
(***************************************************************************)
(* The inductive invariant.  OneGuestPerDay by itself says nothing of days  *)
(* outside Date, so the step that adds a row needs StaysDisjoint, the exact *)
(* condition the exclusion constraint decides.                              *)
(***************************************************************************)
IInv == TypeOK /\ StaysDisjoint /\ PeopleSound /\ BilledIsLive

\* A row the table accepts under an id keeps the stays apart.
LEMMA AcceptedStaysDisjoint ==
    ASSUME TypeOK, StaysDisjoint, NEW t \in Tenancies, NEW r \in Row,
           TableAccepts(t, r), rows' = [rows EXCEPT ![t] = r]
    PROVE  StaysDisjoint'
<1> SUFFICES ASSUME NEW u \in Live', NEW v \in Live', u # v
             PROVE  ~RangesMeet(rows'[u], rows'[v])
  BY DEF StaysDisjoint, RangesMeet
<1>1. \A x \in Live \ {t} : ~RangesMeet(rows[x], r)
  BY DEF TableAccepts
<1>2. \A x \in Live' \ {t} : x \in Live /\ rows'[x] = rows[x]
  BY DEF Live, TypeOK
<1>3. rows'[t] = r
  BY DEF TypeOK
<1>4. CASE u = t
  <2>1. ~RangesMeet(rows[v], r)
    BY <1>1, <1>2, <1>4
  <2> QED
    BY <1>2, <1>3, <1>4, <2>1, RangesMeetSymmetric
<1>5. CASE v = t
  BY <1>1, <1>2, <1>3, <1>5
<1>6. CASE u # t /\ v # t
  BY <1>2, <1>6 DEF StaysDisjoint
<1> QED
  BY <1>4, <1>5, <1>6

\* The participants a PATCH leaves: its own list brings a primary tenant, and the
\* unique constraint keeps every tenant single.
LEMMA UpdatedPeopleSound ==
    ASSUME IInv, NEW w \in Workers, At(w, "update"), UpdateAccepted(w)
    PROVE  Primaries(UpdatedPeople(w)) # {} /\ NoTenantTwice(UpdatedPeople(w))
<1> DEFINE t == job[w].id
           new == job[w].body.people
           kept == people[t] \ job[w].gone
<1>1. t \in Live
  BY DEF UpdateAccepted
<1>2. Primaries(people[t]) # {} /\ NoTenantTwice(people[t])
  BY <1>1 DEF IInv, PeopleSound, Live
<1>3. CASE HasPeople(job[w].body)
  <2>1. Primaries(new) # {} /\ NoTenantTwice(new)
    BY <1>3, UpdateWrites, PartyHasPrimary DEF IInv
  <2>2. \A p \in kept, q \in new : p.tenant # q.tenant
    BY <1>3 DEF UpdateAccepted
  <2>3. UpdatedPeople(w) = kept \cup new
    BY <1>3 DEF UpdatedPeople
  <2>4. Primaries(new) \subseteq Primaries(kept \cup new)
    BY DEF Primaries
  <2>5. NoTenantTwice(kept \cup new)
    BY <1>2, <2>1, <2>2 DEF NoTenantTwice
  <2> QED
    BY <2>1, <2>3, <2>4, <2>5
<1>4. CASE ~HasPeople(job[w].body)
  BY <1>2, <1>4 DEF UpdatedPeople
<1> QED
  BY <1>3, <1>4

LEMMA InitIInv == Init => IInv
BY InitTypeOK DEF Init, IInv, StaysDisjoint, PeopleSound, BilledIsLive, Live

\* A step that leaves the tables alone leaves their invariants alone.
LEMMA SameTables ==
    ASSUME IInv, UNCHANGED <<rows, people, billed>>
    PROVE  StaysDisjoint' /\ PeopleSound' /\ BilledIsLive'
<1>1. Live' = Live /\ rows' = rows /\ people' = people /\ billed' = billed
  BY DEF Live
<1>2. StaysDisjoint'
  BY <1>1 DEF IInv, StaysDisjoint
<1>3. PeopleSound'
  BY <1>1 DEF IInv, PeopleSound
<1>4. BilledIsLive'
  BY <1>1 DEF IInv, BilledIsLive
<1> QED
  BY <1>2, <1>3, <1>4

LEMMA NextIInv == IInv /\ [Next]_vars => IInv'
<1> SUFFICES ASSUME IInv, [Next]_vars, TypeOK
             PROVE  StaysDisjoint' /\ PeopleSound' /\ BilledIsLive'
  BY NextTypeOK DEF IInv
<1>1. ASSUME NEW w \in Workers, NEW t \in Tenancies, Insert(w, t)
      PROVE  StaysDisjoint' /\ PeopleSound' /\ BilledIsLive'
  <2> DEFINE c == job[w].body
  <2>1. c \in Create
    BY <1>1, JobShapes DEF Insert, InsertJob
  <2>2. NewRow(c) \in Row /\ NewRow(c) # None
    BY <2>1, NewRowType, NoRowAssumption
  <2>3. TableAccepts(t, NewRow(c)) /\ rows' = [rows EXCEPT ![t] = NewRow(c)]
    BY <1>1 DEF Insert, InsertAccepted
  <2>4. StaysDisjoint'
    BY <2>2, <2>3, AcceptedStaysDisjoint DEF IInv
  <2>5. Live' = Live \cup {t}
    BY <2>2, <2>3 DEF Live, TypeOK
  <2>6. PeopleSound'
    <3>1. Primaries(c.people) # {} /\ NoTenantTwice(c.people)
      BY <2>1, PartyHasPrimary DEF Create
    <3>2. people' = [people EXCEPT ![t] = c.people]
      BY <1>1 DEF Insert
    <3> QED
      BY <2>5, <3>1, <3>2 DEF IInv, PeopleSound, TypeOK
  <2>7. BilledIsLive'
    BY <1>1, <2>5 DEF IInv, BilledIsLive, Insert
  <2> QED
    BY <2>4, <2>6, <2>7
<1>2. ASSUME NEW w \in Workers, Update(w)
      PROVE  StaysDisjoint' /\ PeopleSound' /\ BilledIsLive'
  <2> DEFINE t == job[w].id
  <2>1. At(w, "update") /\ UpdateAccepted(w)
    BY <1>2 DEF Update
  <2>2. t \in Tenancies /\ t \in Live /\ UpdatedRow(w) \in Row /\ UpdatedRow(w) # None
    BY <2>1, UpdateWrites, NoRowAssumption DEF UpdateAccepted
  <2>3. TableAccepts(t, UpdatedRow(w)) /\ rows' = [rows EXCEPT ![t] = UpdatedRow(w)]
    BY <1>2, <2>1 DEF Update, UpdateAccepted
  <2>4. StaysDisjoint'
    BY <2>2, <2>3, AcceptedStaysDisjoint DEF IInv
  <2>5. Live' = Live
    BY <2>2, <2>3 DEF Live, TypeOK
  <2>6. PeopleSound'
    <3>1. Primaries(UpdatedPeople(w)) # {} /\ NoTenantTwice(UpdatedPeople(w))
      BY <2>1, UpdatedPeopleSound
    <3>2. people' = [people EXCEPT ![t] = UpdatedPeople(w)]
      BY <1>2 DEF Update
    <3> QED
      BY <2>2, <2>5, <3>1, <3>2 DEF IInv, PeopleSound, TypeOK
  <2>7. BilledIsLive'
    BY <1>2, <2>5 DEF IInv, BilledIsLive, Update
  <2> QED
    BY <2>4, <2>6, <2>7
<1>3. ASSUME NEW w \in Workers, Delete(w)
      PROVE  StaysDisjoint' /\ PeopleSound' /\ BilledIsLive'
  <2> DEFINE t == job[w].id
  <2>1. t \in Tenancies
    BY <1>3, JobShapes DEF Delete, RowJob
  <2>2. /\ t \notin billed /\ billed' = billed
        /\ rows' = [rows EXCEPT ![t] = None]
        /\ people' = [people EXCEPT ![t] = {}]
    BY <1>3 DEF Delete, Deletable
  <2>3. Live' = Live \ {t} /\ \A u \in Live' : rows'[u] = rows[u]
    BY <2>1, <2>2 DEF Live, TypeOK
  <2>4. StaysDisjoint'
    BY <2>3 DEF IInv, StaysDisjoint
  <2>5. PeopleSound'
    BY <2>1, <2>2, <2>3 DEF IInv, PeopleSound, TypeOK
  <2>6. BilledIsLive'
    BY <2>2, <2>3 DEF IInv, BilledIsLive
  <2> QED
    BY <2>4, <2>5, <2>6
<1>4. ASSUME NEW w \in Workers, Invoice(w)
      PROVE  StaysDisjoint' /\ PeopleSound' /\ BilledIsLive'
  <2>1. rows' = rows /\ people' = people /\ Live' = Live
    BY <1>4 DEF Invoice, Live
  <2>2. StaysDisjoint' /\ PeopleSound'
    BY <2>1 DEF IInv, StaysDisjoint, PeopleSound
  <2>3. BilledIsLive'
    BY <1>4, <2>1 DEF Invoice, InvoiceAccepted, IInv, BilledIsLive
  <2> QED
    BY <2>2, <2>3
<1>5. ASSUME NEW w \in Workers,
             \/ \E c \in Creates : CheckCreate(w, c)
             \/ \E t \in Tenancies, p \in Patches : Load(w, t, p)
             \/ \E t \in Tenancies : LoadForDelete(w, t) \/ PickForInvoice(w, t)
             \/ DropPeople(w) \/ CheckPatch(w) \/ RollBack(w)
      PROVE  StaysDisjoint' /\ PeopleSound' /\ BilledIsLive'
  <2>1. UNCHANGED <<rows, people, billed>>
    BY <1>5 DEF CheckCreate, Load, LoadForDelete, PickForInvoice, DropPeople, CheckPatch, RollBack
  <2> QED
    BY <2>1, SameTables
<1>6. CASE UNCHANGED vars
  BY <1>6, SameTables DEF vars
<1> QED
  BY <1>1, <1>2, <1>3, <1>4, <1>5, <1>6 DEF Next, Proceed, Refuse

LEMMA Invariance == Spec => []IInv
BY InitIInv, NextIInv, PTL DEF Spec

LEMMA DisjointMeansOneGuest == IInv => OneGuestPerDay
<1> SUFFICES ASSUME IInv, NEW t \in Live, NEW u \in Live, NEW d \in Date,
                    t # u, rows[t].room = rows[u].room
             PROVE  ~ /\ Covers(rows[t].moveIn, rows[t].moveOut, d)
                      /\ Covers(rows[u].moveIn, rows[u].moveOut, d)
  BY DEF OneGuestPerDay
<1>1. rows[t] \in Row /\ rows[u] \in Row
  BY DEF IInv, TypeOK, Live
<1>2. ~RangesMeet(rows[t], rows[u])
  BY DEF IInv, StaysDisjoint
<1> QED
  BY <1>1, <1>2, ApartMeansNoSharedDay

\* For every number of workers and every interleaving of their checks and
\* commits, no day of a room is in the stored stay of two contracts.
THEOREM NoDoubleStay == Spec => []OneGuestPerDay
BY Invariance, DisjointMeansOneGuest, PTL

\* Requests that replace the participants of one contract, or delete it, while
\* others are half-way leave it with a primary tenant and no tenant twice.
THEOREM ParticipantsSound == Spec => []PeopleSound
BY Invariance, PTL DEF IInv

\* No contract an invoice refers to is ever deleted.
THEOREM InvoicedKept == Spec => []BilledIsLive
BY Invariance, PTL DEF IInv

-------------------------------------------------------------------------------
(***************************************************************************)
(* What a commit may change.                                               *)
(***************************************************************************)
Guarded == {"moveIn", "termination", "actualOut", "status"}

\* A field the body leaves out is patched to what was loaded.
LEMMA UnnamedFieldKept ==
    ASSUME NEW r \in Row, NEW p \in Patch, NEW f \in Guarded, p[f] = Keep
    PROVE  PatchedRow(r, p)[f] = r[f]
BY DEF Guarded, PatchedRow, Assigned, Synced, Patched

\* A column whose value is the loaded one is not written.
LEMMA UntouchedColumnKept ==
    ASSUME NEW seen \in Row, NEW want \in Row, NEW now \in Row, NEW f \in Guarded,
           want[f] = seen[f]
    PROVE  Updated(seen, want, now)[f] = now[f]
BY DEF Guarded, Updated, Touched

LEMMA StepNames ==
    ASSUME TypeOK, [Next]_vars, NEW t \in Live, rows'[t] # None,
           NEW f \in Guarded, rows'[t][f] # rows[t][f]
    PROVE  \E w \in Workers : job[w] # job'[w] /\ Names(w, f)
<1> t \in Tenancies /\ rows'[t] # rows[t]
  BY DEF Live
<1>1. ASSUME NEW w \in Workers, NEW u \in Tenancies, Insert(w, u)
      PROVE  FALSE
  <2>1. u # t
    BY <1>1 DEF Insert, InsertAccepted, Unused
  <2> QED
    BY <1>1, <2>1 DEF Insert, TypeOK
<1>2. ASSUME NEW w \in Workers, Update(w)
      PROVE  job[w] # job'[w] /\ Names(w, f)
  <2>1. At(w, "update") /\ UpdateAccepted(w) /\ job'[w] = Idle
    BY <1>2 DEF Update
  <2>2. /\ job[w] \in PatchJob /\ job[w].seen \in Row /\ job[w].body \in Patch
        /\ Wanted(w) \in Row /\ rows[job[w].id] \in Row /\ job[w].id \in Tenancies
    BY <2>1, UpdateWrites, WantedType DEF PatchJob, Patching, At
  <2>3. rows' = [rows EXCEPT ![job[w].id] = UpdatedRow(w)]
    BY <1>2 DEF Update
  <2>4. t = job[w].id /\ rows'[t] = UpdatedRow(w)
    BY <2>2, <2>3 DEF TypeOK
  <2>5. Wanted(w)[f] # job[w].seen[f]
    BY <2>2, <2>4, UntouchedColumnKept DEF UpdatedRow
  <2>6. job[w].body[f] # Keep
    BY <2>2, <2>5, UnnamedFieldKept DEF Wanted
  <2> QED
    BY <2>1, <2>6 DEF Names, At, Idle
<1>3. ASSUME NEW w \in Workers, Delete(w)
      PROVE  FALSE
  <2>1. job[w].id \in Tenancies
    BY <1>3, JobShapes DEF Delete, RowJob
  <2> QED
    BY <1>3, <2>1 DEF Delete, TypeOK
<1>4. ASSUME NEW w \in Workers,
             \/ \E c \in Creates : CheckCreate(w, c)
             \/ \E u \in Tenancies, p \in Patches : Load(w, u, p)
             \/ \E u \in Tenancies : LoadForDelete(w, u) \/ PickForInvoice(w, u)
             \/ DropPeople(w) \/ CheckPatch(w) \/ RollBack(w)
      PROVE  FALSE
  BY <1>4 DEF CheckCreate, Load, LoadForDelete, PickForInvoice, DropPeople, CheckPatch, RollBack
<1>5. ASSUME NEW w \in Workers, Invoice(w)
      PROVE  FALSE
  BY <1>5 DEF Invoice
<1>6. ASSUME UNCHANGED vars
      PROVE  FALSE
  BY <1>6 DEF vars
<1> QED
  BY <1>1, <1>2, <1>3, <1>4, <1>5, <1>6 DEF Next, Proceed, Refuse

\* However many requests loaded the row before, a commit writes only what its own
\* body names: a column another request has changed since keeps that change.
THEOREM CommitsOwnFields == Spec => NoForeignRevert
<1>1. TypeOK /\ [Next]_vars =>
          [\A t \in Live :
              rows'[t] # None =>
                  \A f \in {"moveIn", "termination", "actualOut", "status"} :
                      rows'[t][f] # rows[t][f] =>
                          \E w \in Workers : job[w] # job'[w] /\ Names(w, f)]_vars
  BY StepNames DEF Guarded
<1> QED
  BY <1>1, TypeCorrect, PTL DEF Spec, NoForeignRevert

-------------------------------------------------------------------------------
(***************************************************************************)
(* Refinement: the stored stays are the bookings of RoomCalendar.          *)
(***************************************************************************)
Bookings == [t \in Tenancies |-> IF rows[t] = None THEN None ELSE BookingOf(rows[t])]

\* A row always is a booking, so exactly the contracts that exist are booked.
LEMMA BookingsType ==
    ASSUME NEW r \in Row
    PROVE  BookingOf(r) \in Calendar!Booking /\ BookingOf(r) # None
<1>1. BookingOf(r) \in Booking
  BY RowDates DEF BookingOf, Booking
<1> QED
  BY <1>1, NoRowAssumption DEF Booking, Calendar!Booking

LEMMA LiveIsBooked ==
    ASSUME TypeOK
    PROVE  Calendar!Live = Live
BY BookingsType DEF Calendar!Live, Live, TypeOK

\* The exclusion constraint and the calendar have the same idea of a collision.
LEMMA CollideIsMeet ==
    ASSUME NEW a \in Row, NEW b \in Row
    PROVE  Calendar!Collide(BookingOf(a), BookingOf(b)) <=> RangesMeet(a, b)
BY RowDates DEF Calendar!Collide, BookingOf, RangesMeet, EndsBefore

\* A row the table accepts is a booking that fits.
LEMMA AcceptedFits ==
    ASSUME TypeOK, NEW t \in Tenancies, NEW r \in Row, TableAccepts(t, r)
    PROVE  Calendar!Fits(t, BookingOf(r))
<1> SUFFICES ASSUME NEW u \in Live \ {t}
             PROVE  ~Calendar!Collide(Bookings[u], BookingOf(r))
  BY LiveIsBooked DEF Calendar!Fits, Bookings
<1>1. rows[u] \in Row /\ u \in Tenancies /\ Bookings[u] = BookingOf(rows[u])
  BY DEF Live, TypeOK, Bookings
<1>2. ~RangesMeet(rows[u], r)
  BY DEF TableAccepts
<1> QED
  BY <1>1, <1>2, CollideIsMeet

LEMMA CalendarInit == Init => Calendar!Init
BY DEF Init, Calendar!Init

LEMMA CalendarNext ==
    TypeOK /\ [Next]_vars => [Calendar!Next]_Bookings
<1> SUFFICES ASSUME TypeOK, [Next]_vars
             PROVE  [Calendar!Next]_Bookings
  OBVIOUS
<1>1. ASSUME NEW w \in Workers, NEW t \in Tenancies, Insert(w, t)
      PROVE  Calendar!Next
  <2> DEFINE r == NewRow(job[w].body)
  <2>1. r \in Row /\ BookingOf(r) \in Calendar!Booking
    BY <1>1, JobShapes, NewRowType, BookingsType DEF Insert, InsertJob
  <2>2. t \notin Live /\ TableAccepts(t, r) /\ rows' = [rows EXCEPT ![t] = r]
    BY <1>1 DEF Insert, InsertAccepted, Unused
  <2>3. Bookings' = [Bookings EXCEPT ![t] = BookingOf(r)]
    BY <2>1, <2>2, NoRowAssumption DEF Bookings, TypeOK
  <2>4. Calendar!Enter(t, BookingOf(r))
    BY <2>1, <2>2, <2>3, AcceptedFits, LiveIsBooked DEF Calendar!Enter, Bookings
  <2> QED
    BY <2>1, <2>4 DEF Calendar!Next, Calendar!Enter
<1>2. ASSUME NEW w \in Workers, Update(w)
      PROVE  Calendar!Next
  <2> DEFINE t == job[w].id
             r == UpdatedRow(w)
  <2>1. At(w, "update") /\ UpdateAccepted(w)
    BY <1>2 DEF Update
  <2>2. t \in Live /\ t \in Tenancies /\ r \in Row /\ r.room = rows[t].room
    BY <2>1, UpdateWrites DEF UpdateAccepted
  <2>3. TableAccepts(t, r) /\ rows' = [rows EXCEPT ![t] = r]
    BY <1>2, <2>1 DEF Update, UpdateAccepted
  <2>4. Bookings' = [Bookings EXCEPT ![t] = BookingOf(r)]
    BY <2>2, <2>3, NoRowAssumption DEF Bookings, TypeOK
  <2>5. BookingOf(r).room = Bookings[t].room
    BY <2>2 DEF Bookings, BookingOf, Live
  <2>6. Calendar!Rebook(t, BookingOf(r))
    BY <2>2, <2>3, <2>4, <2>5, AcceptedFits, LiveIsBooked DEF Calendar!Rebook, Bookings
  <2> QED
    BY <2>2, <2>6, BookingsType DEF Calendar!Next, Calendar!Rebook
<1>3. ASSUME NEW w \in Workers, Delete(w)
      PROVE  Calendar!Next \/ UNCHANGED Bookings
  <2> DEFINE t == job[w].id
  <2>1. t \in Tenancies
    BY <1>3, JobShapes DEF Delete, RowJob
  <2>2. rows' = [rows EXCEPT ![t] = None]
    BY <1>3 DEF Delete
  <2>3. CASE t \in Live
    <3>1. Bookings' = [Bookings EXCEPT ![t] = None]
      BY <2>1, <2>2 DEF Bookings, TypeOK
    <3>2. Calendar!Cancel(t)
      BY <2>3, <3>1, LiveIsBooked DEF Calendar!Cancel, Bookings
    <3> QED
      BY <2>1, <3>2 DEF Calendar!Next, Calendar!Cancel
  <2>4. CASE t \notin Live
    <3>1. rows' = rows
      BY <2>1, <2>2, <2>4 DEF Live, TypeOK
    <3> QED
      BY <3>1 DEF Bookings
  <2> QED
    BY <2>3, <2>4
<1>4. ASSUME NEW w \in Workers,
             \/ \E c \in Creates : CheckCreate(w, c)
             \/ \E t \in Tenancies, p \in Patches : Load(w, t, p)
             \/ \E t \in Tenancies : LoadForDelete(w, t) \/ PickForInvoice(w, t)
             \/ DropPeople(w) \/ CheckPatch(w) \/ RollBack(w)
      PROVE  UNCHANGED Bookings
  <2>1. rows' = rows
    BY <1>4 DEF CheckCreate, Load, LoadForDelete, PickForInvoice, DropPeople, CheckPatch, RollBack
  <2> QED
    BY <2>1 DEF Bookings
<1>5. ASSUME NEW w \in Workers, Invoice(w)
      PROVE  UNCHANGED Bookings
  BY <1>5 DEF Invoice, Bookings
<1>6. ASSUME UNCHANGED vars
      PROVE  UNCHANGED Bookings
  BY <1>6 DEF vars, Bookings
<1> QED
  BY <1>1, <1>2, <1>3, <1>4, <1>5, <1>6 DEF Next, Proceed, Refuse

\* Every behaviour of the three handlers, seen through the stored stays alone, is
\* a behaviour of the room calendar: each commit is one booking entered, moved or
\* cancelled that fits what is there when it happens.
THEOREM Refinement == Spec => ImplementsCalendar
<1>1. Init => Calendar!Init
  BY CalendarInit
<1>2. TypeOK /\ [Next]_vars => [Calendar!Next]_Bookings
  BY CalendarNext
<1> QED
  BY <1>1, <1>2, TypeCorrect, PTL DEF Spec, ImplementsCalendar, Calendar!Spec, Bookings

-------------------------------------------------------------------------------
(***************************************************************************)
(* One worker: requests that run one after the other, with every request   *)
(* body, any of them cut off between two steps.                            *)
(***************************************************************************)

\* What a request has read is still what is committed: nobody else writes.
Fresh ==
    \A w \in Workers : Patching(w) =>
        /\ job[w].id \in Live
        /\ job[w].seen = rows[job[w].id]
        /\ HasPeople(job[w].body) /\ ~At(w, "people") => job[w].gone = people[job[w].id]

SInv == IInv /\ Fresh /\ SyncedMoveOut /\ PrimaryAgrees /\ AuditCurrent

-------------------------------------------------------------------------------
(***************************************************************************)
(* What one request does to the row it loaded.                             *)
(***************************************************************************)

\* The end of the row a save writes is the scheduling end of that row.
LEMMA SyncedIsSynced ==
    ASSUME NEW r \in Row
    PROVE  Synced(r).moveOut = RowEnd(Synced(r))
<1>1. /\ Synced(r).moveOut = RowEnd(r)
      /\ Synced(r).termination = r.termination
      /\ Synced(r).actualOut = r.actualOut
  BY DEF Synced, Row
<1>2. r.moveOut \in OptDate /\ r.termination \in OptDate /\ r.actualOut \in OptDate
  BY RowDates
<1>3. LET end == SchedulingEnd(r.moveOut, r.termination, r.actualOut)
      IN  SchedulingEnd(end, r.termination, r.actualOut) = end
  BY <1>2, SyncIsIdempotent
<1>4. RowEnd(r) = SchedulingEnd(r.moveOut, r.termination, r.actualOut)
  BY DEF RowEnd
<1>5. RowEnd(Synced(r)) = SchedulingEnd(RowEnd(r), r.termination, r.actualOut)
  BY <1>1, Zenon DEF RowEnd
<1> QED
  BY <1>1, <1>3, <1>4, <1>5, Zenon

\* A patch leaves a synced row synced, whichever fields it names.
LEMMA PatchKeepsSync ==
    ASSUME NEW r \in Row, NEW p \in Patch, r.moveOut = RowEnd(r)
    PROVE  PatchedRow(r, p).moveOut = RowEnd(PatchedRow(r, p))
<1>1. CASE HasData(p)
  BY <1>1, AssignedType, SyncedIsSynced DEF PatchedRow
<1>2. CASE ~HasData(p)
  <2>1. /\ PatchedRow(r, p).moveOut = r.moveOut
        /\ PatchedRow(r, p).termination = r.termination
        /\ PatchedRow(r, p).actualOut = r.actualOut
    BY <1>2 DEF PatchedRow, HasData, Assigned, Patched
  <2> QED
    BY <2>1 DEF RowEnd
<1> QED
  BY <1>1, <1>2

\* It keeps the room, and takes the tenant from the list it carries, if any.
LEMMA PatchedRoomAndTenant ==
    ASSUME NEW r \in Row, NEW p \in Patch
    PROVE  /\ PatchedRow(r, p).room = r.room
           /\ PatchedRow(r, p).tenant =
                  IF HasPeople(p) THEN PrimaryTenant(p.people) ELSE r.tenant
BY DEF PatchedRow, Assigned, Synced

\* A patch that does not name move_out brings no end forward.
LEMMA PatchExtends ==
    ASSUME NEW r \in Row, NEW p \in Patch, p.moveOut = Keep, r.moveOut # None
    PROVE  LET out == PatchedRow(r, p).moveOut
           IN  out # None /\ ~EndsBefore(out, r.moveOut)
<1> DEFINE a == Assigned(r, p)
<1>1. a \in Row /\ a.moveOut = r.moveOut
  BY AssignedType DEF Assigned, Patched
<1>2. RowEnd(a) # None /\ ~EndsBefore(RowEnd(a), a.moveOut)
  BY <1>1, RowDates, SchedulingEndCoversAll DEF RowEnd
<1>3. CASE HasData(p)
  <2>1. PatchedRow(r, p).moveOut = RowEnd(a)
    BY <1>1, <1>3 DEF PatchedRow, Synced, Row
  <2> QED
    BY <1>1, <1>2, <2>1
<1>4. CASE ~HasData(p)
  BY <1>1, <1>4, RowDates DEF PatchedRow, EndsBefore
<1> QED
  BY <1>3, <1>4

\* With the row as loaded still in the table, the flush writes the patched row.
LEMMA FreshWrite ==
    ASSUME SInv, NEW w \in Workers, At(w, "update"), UpdateAccepted(w)
    PROVE  /\ UpdatedRow(w) = Wanted(w)
           /\ HasPeople(job[w].body) => UpdatedPeople(w) = job[w].body.people
<1> DEFINE t == job[w].id
<1>1. /\ job[w] \in PatchJob /\ job[w].seen = rows[t]
      /\ HasPeople(job[w].body) => job[w].gone = people[t]
  BY UpdateWrites DEF SInv, IInv, Fresh, Patching, At
<1>2. job[w].seen \in Row /\ job[w].body \in Patch
  BY <1>1 DEF PatchJob
<1>3. Wanted(w) \in Row /\ Wanted(w).room = rows[t].room
  BY <1>1, <1>2, PatchedRowType, PatchedRoomAndTenant DEF Wanted
<1>4. Updated(rows[t], Wanted(w), rows[t]) = Wanted(w)
  BY <1>1, <1>2, <1>3 DEF Updated, Touched, Row
<1> QED
  BY <1>1, <1>4 DEF UpdatedRow, UpdatedPeople

-------------------------------------------------------------------------------
(***************************************************************************)
(* The invariant of a lone worker.  SyncedMoveOut, PrimaryAgrees and        *)
(* AuditCurrent speak of rows, and the row a PATCH writes is computed from  *)
(* the one it loaded: Fresh carries them from the load to the commit.       *)
(***************************************************************************)

LEMMA InitSInv == Init => SInv
BY InitIInv
   DEF Init, SInv, Fresh, SyncedMoveOut, PrimaryAgrees, AuditCurrent, Live, Patching, Idle

\* A step of the lone worker that leaves the tables alone keeps all of it, as long
\* as it reads what is there.
LEMMA SerialSameTables ==
    ASSUME SInv, UNCHANGED <<rows, people, logged>>
    PROVE  SyncedMoveOut' /\ PrimaryAgrees' /\ AuditCurrent'
<1>1. Live' = Live /\ rows' = rows /\ people' = people /\ logged' = logged
  BY DEF Live
<1>2. SyncedMoveOut'
  BY <1>1 DEF SInv, SyncedMoveOut
<1>3. PrimaryAgrees'
  BY <1>1 DEF SInv, PrimaryAgrees
<1>4. AuditCurrent'
  BY <1>1 DEF SInv, AuditCurrent
<1> QED
  BY <1>2, <1>3, <1>4

\* A commit that leaves a synced row with its own tenant as the one primary, and
\* logs that row, keeps the three invariants of the tables.
LEMMA CommitKeeps ==
    ASSUME SInv, NEW t \in Tenancies, NEW r \in Row, NEW P \in SUBSET Participant,
           r.moveOut = RowEnd(r),
           \E p \in P : Primaries(P) = {p} /\ p.tenant = r.tenant,
           rows' = [rows EXCEPT ![t] = r],
           people' = [people EXCEPT ![t] = P],
           logged' = [logged EXCEPT ![t] = r]
    PROVE  SyncedMoveOut' /\ PrimaryAgrees' /\ AuditCurrent'
<1> TypeOK /\ r # None
  BY NoRowAssumption DEF SInv, IInv
<1>1. /\ Live' = Live \cup {t} /\ rows'[t] = r /\ people'[t] = P
      /\ \A u \in Live' \ {t} : u \in Live /\ rows'[u] = rows[u] /\ people'[u] = people[u]
  BY DEF Live, TypeOK
<1>2. SyncedMoveOut'
  BY <1>1 DEF SInv, SyncedMoveOut, RowEnd
<1>3. PrimaryAgrees'
  BY <1>1 DEF SInv, PrimaryAgrees
<1>4. AuditCurrent'
  BY DEF SInv, AuditCurrent, TypeOK
<1> QED
  BY <1>2, <1>3, <1>4

\* The primary participant of an accepted list is the one PrimaryTenant names.
LEMMA PrimaryIsUnique ==
    ASSUME NEW P \in Party
    PROVE  \E p \in P : Primaries(P) = {p} /\ p.tenant = PrimaryTenant(P)
<1>1. PICK p \in P : Primaries(P) = {p}
  BY DEF Party
<1>2. \A q \in P : q.role = "primary_tenant" <=> q = p
  BY <1>1 DEF Primaries
<1>3. (CHOOSE q \in P : q.role = "primary_tenant") = p
  BY <1>2
<1> QED
  BY <1>1, <1>3 DEF PrimaryTenant

\* What Insert and Update commit.
LEMMA InsertKeeps ==
    ASSUME SInv, NEW w \in Workers, NEW t \in Tenancies, Insert(w, t)
    PROVE  SyncedMoveOut' /\ PrimaryAgrees' /\ AuditCurrent'
<1> DEFINE c == job[w].body
           r == NewRow(c)
<1>1. c \in Create
  BY JobShapes DEF SInv, IInv, Insert, InsertJob
<1>2. r \in Row
  BY <1>1, NewRowType
<1>3. r.moveOut = RowEnd(r) /\ r.tenant = PrimaryTenant(c.people)
  <2> DEFINE b == [room |-> c.room, tenant |-> PrimaryTenant(c.people),
                   moveIn |-> c.moveIn, moveOut |-> c.moveOut,
                   termination |-> c.termination, actualOut |-> c.actualOut,
                   status |-> c.status]
  <2>1. b \in Row
    BY <1>1, PartyHasPrimary DEF Create, Row
  <2>2. Synced(b).moveOut = RowEnd(Synced(b)) /\ Synced(b).tenant = b.tenant
    BY <2>1, SyncedIsSynced DEF Synced
  <2> QED
    BY <2>2 DEF NewRow
<1>4. \E p \in c.people : Primaries(c.people) = {p} /\ p.tenant = r.tenant
  BY <1>1, <1>3, PrimaryIsUnique DEF Create
<1>5. c.people \in SUBSET Participant
  BY <1>1, PartyHasPrimary DEF Create
<1>6. /\ rows' = [rows EXCEPT ![t] = r]
      /\ people' = [people EXCEPT ![t] = c.people]
      /\ logged' = [logged EXCEPT ![t] = r]
  BY DEF Insert
<1> HIDE DEF c, r
<1> QED
  BY <1>2, <1>3, <1>4, <1>5, <1>6, CommitKeeps

LEMMA UpdateKeeps ==
    ASSUME SInv, NEW w \in Workers, Update(w)
    PROVE  SyncedMoveOut' /\ PrimaryAgrees' /\ AuditCurrent'
<1> DEFINE t == job[w].id
           r == Wanted(w)
           b == job[w].body
           P == UpdatedPeople(w)
<1>1. At(w, "update") /\ UpdateAccepted(w)
  BY DEF Update
<1>2. /\ job[w] \in PatchJob /\ t \in Tenancies /\ P \in SUBSET Participant
      /\ UpdatedRow(w) = r /\ r \in Row
      /\ HasPeople(b) => P = b.people /\ b.people \in Party
  BY <1>1, UpdateWrites, FreshWrite DEF SInv, IInv
<1>3. job[w].seen = rows[t] /\ t \in Live /\ rows[t] \in Row /\ b \in Patch
  BY <1>1, <1>2, UpdateWrites DEF SInv, IInv, Fresh, Patching, At, PatchJob
<1>4. r.moveOut = RowEnd(r)
  BY <1>3, PatchKeepsSync DEF SInv, SyncedMoveOut, Wanted
<1>5. \E p \in P : Primaries(P) = {p} /\ p.tenant = r.tenant
  <2>1. r.tenant = IF HasPeople(b) THEN PrimaryTenant(b.people) ELSE rows[t].tenant
    BY <1>3, PatchedRoomAndTenant DEF Wanted
  <2>2. CASE HasPeople(b)
    BY <1>2, <2>1, <2>2, PrimaryIsUnique
  <2>3. CASE ~HasPeople(b)
    BY <1>3, <2>1, <2>3 DEF SInv, PrimaryAgrees, UpdatedPeople
  <2> QED
    BY <2>2, <2>3
<1>6. logged' = [logged EXCEPT ![t] = r]
  <2>1. CASE Audited(w)
    BY <2>1 DEF Update
  <2>2. CASE ~Audited(w)
    <3>1. logged' = logged /\ r = rows[t] /\ logged[t] = rows[t]
      BY <1>2, <1>3, <2>2 DEF Update, Audited, SInv, AuditCurrent
    <3> QED
      BY <1>2, <3>1 DEF SInv, IInv, TypeOK
  <2> QED
    BY <2>1, <2>2
<1>7. rows' = [rows EXCEPT ![t] = r] /\ people' = [people EXCEPT ![t] = P]
  BY <1>2 DEF Update
<1> QED
  BY <1>2, <1>4, <1>5, <1>6, <1>7, CommitKeeps

LEMMA DeleteKeeps ==
    ASSUME SInv, NEW w \in Workers, Delete(w)
    PROVE  SyncedMoveOut' /\ PrimaryAgrees' /\ AuditCurrent'
<1> DEFINE t == job[w].id
<1> TypeOK
  BY DEF SInv, IInv
<1>1. t \in Tenancies
  BY JobShapes DEF Delete, RowJob
<1>2. /\ rows' = [rows EXCEPT ![t] = None]
      /\ people' = [people EXCEPT ![t] = {}]
      /\ logged' = [logged EXCEPT ![t] = None]
  BY DEF Delete
<1>3. \A u \in Live' : u \in Live /\ u # t /\ rows'[u] = rows[u] /\ people'[u] = people[u]
  BY <1>1, <1>2 DEF Live, TypeOK
<1>4. SyncedMoveOut'
  BY <1>3 DEF SInv, SyncedMoveOut
<1>5. PrimaryAgrees'
  BY <1>3 DEF SInv, PrimaryAgrees
<1>6. AuditCurrent'
  BY <1>1, <1>2 DEF SInv, AuditCurrent, TypeOK
<1> QED
  BY <1>4, <1>5, <1>6

-------------------------------------------------------------------------------
\* A lone worker always works on what is committed.
LEMMA NextFresh ==
    ASSUME NEW w0, Workers = {w0}, SInv, [Next]_vars
    PROVE  Fresh'
<1> TypeOK
  BY DEF SInv, IInv
<1>1. SUFFICES ASSUME Patching(w0)'
               PROVE  (/\ job[w0].id \in Live
                       /\ job[w0].seen = rows[job[w0].id]
                       /\ HasPeople(job[w0].body) /\ ~At(w0, "people")
                              => job[w0].gone = people[job[w0].id])'
  BY DEF Fresh
<1>2. ASSUME NEW w \in Workers, ~Patching(w)'
      PROVE  FALSE
  BY <1>1, <1>2
<1>3. ASSUME NEW w \in Workers, NEW c \in Creates, CheckCreate(w, c)
      PROVE  FALSE
  BY <1>2, <1>3 DEF CheckCreate, Patching, TypeOK
<1>4. ASSUME NEW w \in Workers, NEW t \in Tenancies, Insert(w, t)
      PROVE  FALSE
  BY <1>2, <1>4 DEF Insert, Patching, TypeOK, Idle
<1>5. ASSUME NEW w \in Workers, NEW t \in Tenancies,
             LoadForDelete(w, t) \/ PickForInvoice(w, t)
      PROVE  FALSE
  BY <1>2, <1>5 DEF LoadForDelete, PickForInvoice, Patching, TypeOK
<1>6. ASSUME NEW w \in Workers, Update(w) \/ Delete(w) \/ Invoice(w) \/ RollBack(w)
      PROVE  FALSE
  <2>1. job'[w] = Idle
    BY <1>6 DEF Update, Delete, Invoice, RollBack, TypeOK
  <2> QED
    BY <1>2, <2>1 DEF Patching, Idle
<1>7. ASSUME NEW w \in Workers, NEW t \in Tenancies, NEW p \in Patches, Load(w, t, p)
      PROVE  (/\ job[w0].id \in Live
              /\ job[w0].seen = rows[job[w0].id]
              /\ HasPeople(job[w0].body) /\ ~At(w0, "people")
                     => job[w0].gone = people[job[w0].id])'
  <2>1. w = w0 /\ t \in Live /\ rows' = rows /\ Live' = Live
    BY <1>7 DEF Load, Live
  <2>2. job'[w0] = [at |-> IF HasPeople(p) THEN "people" ELSE "check",
                    id |-> t, body |-> p, seen |-> rows[t], gone |-> {}]
    BY <1>7, <2>1 DEF Load, TypeOK
  <2> QED
    BY <2>1, <2>2 DEF At, HasPeople
<1>8. ASSUME NEW w \in Workers, DropPeople(w) \/ CheckPatch(w)
      PROVE  (/\ job[w0].id \in Live
              /\ job[w0].seen = rows[job[w0].id]
              /\ HasPeople(job[w0].body) /\ ~At(w0, "people")
                     => job[w0].gone = people[job[w0].id])'
  <2>1. /\ w = w0 /\ Patching(w0) /\ rows' = rows /\ people' = people /\ Live' = Live
    BY <1>8 DEF DropPeople, CheckPatch, Live, Patching, At
  <2>2. /\ job[w0] \in PatchJob /\ job[w0].id \in Live /\ job[w0].seen = rows[job[w0].id]
        /\ HasPeople(job[w0].body) /\ ~At(w0, "people") => job[w0].gone = people[job[w0].id]
    BY <2>1, JobShapes DEF SInv, Fresh
  <2>3. CASE DropPeople(w)
    <3>1. job'[w0] = [job[w0] EXCEPT !.at = "check", !.gone = people[job[w0].id]]
      BY <2>1, <2>3 DEF DropPeople, TypeOK
    <3>2. /\ job'[w0].id = job[w0].id /\ job'[w0].seen = job[w0].seen
          /\ job'[w0].gone = people[job[w0].id]
      BY <2>2, <3>1 DEF PatchJob
    <3> QED
      BY <2>1, <2>2, <3>2
  <2>4. CASE CheckPatch(w)
    <3>1. job'[w0] = [job[w0] EXCEPT !.at = "update"]
      BY <2>1, <2>4 DEF CheckPatch, TypeOK
    <3>2. /\ job'[w0].id = job[w0].id /\ job'[w0].seen = job[w0].seen
          /\ job'[w0].gone = job[w0].gone /\ job'[w0].body = job[w0].body
      BY <2>2, <3>1 DEF PatchJob
    <3>3. ~At(w0, "people")
      BY <2>1, <2>4 DEF CheckPatch, At
    <3> QED
      BY <2>1, <2>2, <3>2, <3>3 DEF HasPeople
  <2> QED
    BY <1>8, <2>3, <2>4
<1>9. ASSUME UNCHANGED <<rows, people, job>>
      PROVE  (/\ job[w0].id \in Live
              /\ job[w0].seen = rows[job[w0].id]
              /\ HasPeople(job[w0].body) /\ ~At(w0, "people")
                     => job[w0].gone = people[job[w0].id])'
  <2>1. Live' = Live /\ (Patching(w0)' <=> Patching(w0)) /\ (At(w0, "people")' <=> At(w0, "people"))
    BY <1>9 DEF Live, Patching, At
  <2> QED
    BY <1>1, <1>9, <2>1 DEF SInv, Fresh, HasPeople
<1>10. ASSUME UNCHANGED vars
       PROVE  UNCHANGED <<rows, people, job>>
  BY <1>10 DEF vars
<1> QED
  BY <1>3, <1>4, <1>5, <1>6, <1>7, <1>8, <1>9, <1>10 DEF Next, Proceed, Refuse

LEMMA NextSInv ==
    ASSUME NEW w0, Workers = {w0}, SInv, [Next]_vars
    PROVE  SInv'
<1>1. IInv'
  BY NextIInv DEF SInv
<1>2. Fresh'
  BY NextFresh
<1>3. SyncedMoveOut' /\ PrimaryAgrees' /\ AuditCurrent'
  <2>1. ASSUME NEW w \in Workers, NEW t \in Tenancies, Insert(w, t)
        PROVE  SyncedMoveOut' /\ PrimaryAgrees' /\ AuditCurrent'
    BY <2>1, InsertKeeps
  <2>2. ASSUME NEW w \in Workers, Update(w)
        PROVE  SyncedMoveOut' /\ PrimaryAgrees' /\ AuditCurrent'
    BY <2>2, UpdateKeeps
  <2>3. ASSUME NEW w \in Workers, Delete(w)
        PROVE  SyncedMoveOut' /\ PrimaryAgrees' /\ AuditCurrent'
    BY <2>3, DeleteKeeps
  <2>4. ASSUME NEW w \in Workers, Invoice(w)
        PROVE  SyncedMoveOut' /\ PrimaryAgrees' /\ AuditCurrent'
    BY <2>4, SerialSameTables DEF Invoice
  <2>5. ASSUME NEW w \in Workers,
               \/ \E c \in Creates : CheckCreate(w, c)
               \/ \E t \in Tenancies, p \in Patches : Load(w, t, p)
               \/ \E t \in Tenancies : LoadForDelete(w, t) \/ PickForInvoice(w, t)
               \/ DropPeople(w) \/ CheckPatch(w) \/ RollBack(w)
        PROVE  SyncedMoveOut' /\ PrimaryAgrees' /\ AuditCurrent'
    <3>1. UNCHANGED <<rows, people, logged>>
      BY <2>5 DEF CheckCreate, Load, LoadForDelete, PickForInvoice, DropPeople, CheckPatch, RollBack
    <3> QED
      BY <3>1, SerialSameTables
  <2>6. ASSUME UNCHANGED vars
        PROVE  SyncedMoveOut' /\ PrimaryAgrees' /\ AuditCurrent'
    BY <2>6, SerialSameTables DEF vars
  <2> QED
    BY <2>1, <2>2, <2>3, <2>4, <2>5, <2>6 DEF Next, Proceed, Refuse
<1> QED
  BY <1>1, <1>2, <1>3 DEF SInv

LEMMA SerialInvariance ==
    ASSUME NEW w0, Workers = {w0}
    PROVE  Spec => []SInv
<1>1. SInv /\ [Next]_vars => SInv'
  BY NextSInv
<1> QED
  BY <1>1, InitSInv, PTL DEF Spec

-------------------------------------------------------------------------------
(***************************************************************************)
(* Theorems.                                                               *)
(***************************************************************************)

\* Requests one after the other keep move_out_date the scheduling end of its row,
\* whatever the patches name and wherever they are cut off.
THEOREM SerialSync ==
    ASSUME NEW w0, Workers = {w0}
    PROVE  Spec => []SyncedMoveOut
BY SerialInvariance, PTL DEF SInv

\* ... keep tenancies.tenant_id the one primary participant,
THEOREM SerialPrimary ==
    ASSUME NEW w0, Workers = {w0}
    PROVE  Spec => []PrimaryAgrees
BY SerialInvariance, PTL DEF SInv

\* ... and log every row as it is stored.
THEOREM SerialAudit ==
    ASSUME NEW w0, Workers = {w0}
    PROVE  Spec => []AuditCurrent
BY SerialInvariance, PTL DEF SInv

LEMMA SyncedRowsDisjoint == SInv => ContractsDisjoint
<1> SUFFICES ASSUME SInv, NEW t \in Live, NEW u \in Live, NEW d \in Date,
                    t # u, rows[t].room = rows[u].room
             PROVE  ~ /\ Covers(rows[t].moveIn, RowEnd(rows[t]), d)
                      /\ Covers(rows[u].moveIn, RowEnd(rows[u]), d)
  BY DEF ContractsDisjoint
<1>1. rows[t] \in Row /\ rows[u] \in Row
  BY DEF SInv, IInv, TypeOK, Live
<1>2. ~RangesMeet(rows[t], rows[u])
  BY DEF SInv, IInv, StaysDisjoint
<1>3. rows[t].moveOut = RowEnd(rows[t]) /\ rows[u].moveOut = RowEnd(rows[u])
  BY DEF SInv, SyncedMoveOut
<1> QED
  BY <1>1, <1>2, <1>3, ApartMeansNoSharedDay

\* With requests one after the other the constraint on the stored column is enough:
\* no two contracts of a room share a day up to the latest of their ends.
THEOREM SerialNoDoubleBooking ==
    ASSUME NEW w0, Workers = {w0}
    PROVE  Spec => []ContractsDisjoint
BY SerialInvariance, SyncedRowsDisjoint, PTL

\* The commit of a lone PATCH that does not name move_out brings no end forward.
LEMMA UpdateExtends ==
    ASSUME SInv, NEW w \in Workers, Update(w), NEW t \in Live,
           rows[t].moveOut # None,
           rows'[t].moveOut = None \/ rows'[t].moveOut < rows[t].moveOut
    PROVE  job[w] # job'[w] /\ Names(w, "moveOut")
<1> TypeOK
  BY DEF SInv, IInv
<1>1. At(w, "update") /\ UpdateAccepted(w) /\ job'[w] = Idle
  BY DEF Update
<1>2. /\ job[w] \in PatchJob /\ job[w].id \in Tenancies /\ rows[job[w].id] \in Row
      /\ UpdatedRow(w) = Wanted(w)
  BY <1>1, UpdateWrites, FreshWrite
<1>3. rows' = [rows EXCEPT ![job[w].id] = Wanted(w)]
  BY <1>2 DEF Update
<1>4. t \in Tenancies /\ rows[t] \in Row
  BY DEF Live, TypeOK
<1>5. CASE t # job[w].id
  <2>1. rows'[t] = rows[t]
    BY <1>3, <1>4, <1>5 DEF TypeOK
  <2> QED
    BY <1>4, <2>1, RowDates
<1>6. CASE t = job[w].id
  <2>1. rows'[t] = PatchedRow(rows[t], job[w].body) /\ job[w].body \in Patch
    BY <1>1, <1>2, <1>3, <1>4, <1>6
       DEF TypeOK, Wanted, SInv, Fresh, Patching, At, PatchJob
  <2>2. job[w].body.moveOut # Keep
    BY <1>4, <2>1, PatchExtends, PatchedRowType, RowDates DEF EndsBefore
  <2>3. job[w] # job'[w]
    BY <1>1 DEF At, Idle
  <2> QED
    BY <1>1, <2>2, <2>3 DEF Names
<1> QED
  BY <1>5, <1>6

LEMMA StepShrinks ==
    ASSUME SInv, [Next]_vars, NEW t \in Live, rows'[t] # None,
           rows[t].moveOut # None,
           rows'[t].moveOut = None \/ rows'[t].moveOut < rows[t].moveOut
    PROVE  \E w \in Workers : job[w] # job'[w] /\ Names(w, "moveOut")
<1> TypeOK /\ t \in Tenancies /\ rows[t] \in Row
  BY DEF SInv, IInv, TypeOK, Live
<1>1. rows'[t] # rows[t]
  BY RowDates
<1>2. ASSUME NEW w \in Workers, NEW u \in Tenancies, Insert(w, u)
      PROVE  FALSE
  <2>1. u # t
    BY <1>2 DEF Insert, InsertAccepted, Unused
  <2> QED
    BY <1>1, <1>2, <2>1 DEF Insert, TypeOK
<1>3. ASSUME NEW w \in Workers, Update(w)
      PROVE  \E v \in Workers : job[v] # job'[v] /\ Names(v, "moveOut")
  BY <1>3, UpdateExtends
<1>4. ASSUME NEW w \in Workers, Delete(w)
      PROVE  FALSE
  <2>1. job[w].id \in Tenancies
    BY <1>4, JobShapes DEF Delete, RowJob
  <2> QED
    BY <1>1, <1>4, <2>1 DEF Delete, TypeOK
<1>5. ASSUME rows' = rows
      PROVE  FALSE
  BY <1>1, <1>5
<1>6. ASSUME NEW w \in Workers,
             \/ \E c \in Creates : CheckCreate(w, c)
             \/ \E u \in Tenancies, p \in Patches : Load(w, u, p)
             \/ \E u \in Tenancies : LoadForDelete(w, u) \/ PickForInvoice(w, u)
             \/ DropPeople(w) \/ CheckPatch(w) \/ RollBack(w)
      PROVE  rows' = rows
  BY <1>6 DEF CheckCreate, Load, LoadForDelete, PickForInvoice, DropPeople, CheckPatch, RollBack
<1>7. ASSUME NEW w \in Workers, Invoice(w)
      PROVE  rows' = rows
  BY <1>7 DEF Invoice
<1>8. ASSUME UNCHANGED vars
      PROVE  rows' = rows
  BY <1>8 DEF vars
<1> QED
  BY <1>2, <1>3, <1>4, <1>5, <1>6, <1>7, <1>8 DEF Next, Proceed, Refuse

\* An end that is set moves forward in time only, unless the request names move_out:
\* withdrawing a termination or an actual move-out frees no day of the room.
THEOREM SerialShrink ==
    ASSUME NEW w0, Workers = {w0}
    PROVE  Spec => ShrinksOnlyByMoveOut
<1>1. SInv /\ [Next]_vars =>
          [\A t \in Live :
              /\ rows'[t] # None
              /\ rows[t].moveOut # None
              /\ rows'[t].moveOut = None \/ rows'[t].moveOut < rows[t].moveOut
              => \E w \in Workers : job[w] # job'[w] /\ Names(w, "moveOut")]_vars
  BY StepShrinks
<1> QED
  BY <1>1, SerialInvariance, PTL DEF Spec, ShrinksOnlyByMoveOut
===============================================================================
