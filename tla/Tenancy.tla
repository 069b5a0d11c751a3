-------------------------------- MODULE Tenancy --------------------------------
(***************************************************************************)
(* Contracts of rooms: the admin endpoints that create, patch and delete a *)
(* tenancy with its participants, as they run in the threads of the back   *)
(* end against PostgreSQL at READ COMMITTED with no row locked for update. *)
(*                                                                         *)
(* A request is a sequence of steps of one worker: what it reads and       *)
(* checks, then one step for its commit, where the constraints of the      *)
(* tables are decided.  Between two steps any other worker may commit.     *)
(***************************************************************************)
EXTENDS TenancyDates

CONSTANTS
    Tenancies,  \* ids of contract rows
    Rooms,
    Tenants,
    Workers,    \* request threads
    Creates,    \* bodies of POST requests
    Patches,    \* bodies of PATCH requests
    Keep        \* a field that a PATCH body does not name

VARIABLES
    rows,       \* tenancies: the committed row of each id
    people,     \* tenancy_participants: the committed rows of each id
    billed,     \* tenancies that an invoice refers to
    logged,     \* newest tenancy snapshot on the audit stream, per id
    job         \* what each worker is doing

vars == <<rows, people, billed, logged, job>>

-------------------------------------------------------------------------------
Status == {"active", "ended", "reserved"}
Role   == {"primary_tenant", "co_tenant", "solidarhafter"}

\* The columns the rules read; rent, deposit and notes ride along.
Row == [room: Rooms, tenant: Tenants, moveIn: Date, moveOut: OptDate,
        termination: OptDate, actualOut: OptDate, status: Status]

Participant == [tenant: Tenants, role: Role]

Primaries(P) == {p \in P : p.role = "primary_tenant"}

NoTenantTwice(P) == \A p, q \in P : p.tenant = q.tenant => p = q

\* A participants list the request models accept.
Party ==
    {P \in SUBSET Participant :
        /\ \E p \in P : Primaries(P) = {p}
        /\ NoTenantTwice(P)}

\* A plausible slip: the participant where its tenant is meant.
PrimaryParticipant(P) == CHOOSE p \in P : p.role = "primary_tenant"
PrimaryTenant(P) == (CHOOSE p \in P : p.role = "primary_tenant").tenant

OnOrAfter(end, day) == ~EndsBefore(end, day)

\* TenancyCreate; a body without participants is one with the primary alone.
Create ==
    {c \in [room: Rooms, moveIn: Date, moveOut: OptDate, termination: OptDate,
            actualOut: OptDate, status: Status, people: Party] :
        /\ OnOrAfter(c.moveOut, c.moveIn)
        /\ OnOrAfter(c.termination, c.moveIn)
        /\ OnOrAfter(c.actualOut, c.moveIn)}

\* TenancyPatch; the date order is only looked at when the body has move_in.
Patch ==
    {p \in [moveIn: Date \cup {Keep}, moveOut: OptDate \cup {Keep},
            termination: OptDate \cup {Keep}, actualOut: OptDate \cup {Keep},
            status: Status \cup {Keep}, people: Party \cup {Keep}] :
        p.moveIn # Keep =>
            \A end \in {p.moveOut, p.termination, p.actualOut} \ {Keep} :
                OnOrAfter(end, p.moveIn)}

ASSUME RequestAssumption == Creates \subseteq Create /\ Patches \subseteq Patch

\* What the rest of the system sees of a row: the stay it books.
Booking == [room: Rooms, from: Date, to: OptDate]
BookingOf(r) == [room |-> r.room, from |-> r.moveIn, to |-> r.moveOut]

\* SQL NULL is neither a row nor a booking.
ASSUME NoRowAssumption == None \notin Row /\ None \notin Booking

Live == {t \in Tenancies : rows[t] # None}

-------------------------------------------------------------------------------
\* The row a POST body describes, with move_out synced.
NewRow(c) ==
    Synced([room |-> c.room, tenant |-> PrimaryTenant(c.people),
            moveIn |-> c.moveIn, moveOut |-> c.moveOut,
            termination |-> c.termination, actualOut |-> c.actualOut,
            status |-> c.status])

Patched(old, new) == IF new = Keep THEN old ELSE new

HasPeople(p) == p.people # Keep
HasData(p)   ==
    \/ p.moveIn # Keep \/ p.moveOut # Keep
    \/ p.termination # Keep \/ p.actualOut # Keep
    \/ p.status # Keep

\* A plausible slip: the list is replaced but tenant_id is left alone.
AssignedButTenant(r, p) ==
    [r EXCEPT !.moveIn = Patched(r.moveIn, p.moveIn),
              !.moveOut = Patched(r.moveOut, p.moveOut),
              !.termination = Patched(r.termination, p.termination),
              !.actualOut = Patched(r.actualOut, p.actualOut),
              !.status = Patched(r.status, p.status)]

\* The loaded row with the body's fields set on it.
Assigned(r, p) ==
    [room |-> r.room,
     tenant |-> IF HasPeople(p) THEN PrimaryTenant(p.people) ELSE r.tenant,
     moveIn |-> Patched(r.moveIn, p.moveIn),
     moveOut |-> Patched(r.moveOut, p.moveOut),
     termination |-> Patched(r.termination, p.termination),
     actualOut |-> Patched(r.actualOut, p.actualOut),
     status |-> Patched(r.status, p.status)]

\* A plausible slip: synced before the fields are set.
SyncedFirst(r, p) == Assigned(Synced(r), p)

\* ... and synced, when the body carries more than participants.
PatchedRow(r, p) == IF HasData(p) THEN Synced(Assigned(r, p)) ELSE Assigned(r, p)

\* A plausible slip: every column is written, as an unconditional UPDATE would.
WholeRow(seen, want, now) == [want EXCEPT !.room = now.room]

\* UPDATE sets the columns whose value differs from the one loaded; the other
\* columns keep what is committed by now.
Touched(seen, want, now) == IF want = seen THEN now ELSE want
Updated(seen, want, now) ==
    [room |-> now.room,
     tenant |-> Touched(seen.tenant, want.tenant, now.tenant),
     moveIn |-> Touched(seen.moveIn, want.moveIn, now.moveIn),
     moveOut |-> Touched(seen.moveOut, want.moveOut, now.moveOut),
     termination |-> Touched(seen.termination, want.termination, now.termination),
     actualOut |-> Touched(seen.actualOut, want.actualOut, now.actualOut),
     status |-> Touched(seen.status, want.status, now.status)]

\* The service's overlap query over the other committed rows of the room.
Overlaps(room, moveIn, end, except) ==
    \E u \in Live \ except :
        rows[u].room = room /\ ServiceOverlap(rows[u], moveIn, end)

\* A plausible slip: a table without the exclusion constraint.
DatesInOrder(t, r) == MoveOutAfterMoveIn(r)

\* The table's CHECK and its exclusion constraint accept the row under this id.
TableAccepts(t, r) ==
    /\ MoveOutAfterMoveIn(r)
    /\ \A u \in Live \ {t} : ~RangesMeet(rows[u], r)

-------------------------------------------------------------------------------
Idle == [at |-> "idle"]
InsertJob == [at: {"insert"}, body: Create]
PatchJob ==
    [at: {"people", "check", "update"}, id: Tenancies, body: Patch,
     seen: Row,                    \* the row as loaded
     gone: SUBSET Participant]     \* participant rows its DELETE will hit
RowJob == [at: {"delete", "bill"}, id: Tenancies]
Job == {Idle} \cup InsertJob \cup PatchJob \cup RowJob

At(w, step) == job[w].at = step
Patching(w) == job[w].at \in {"people", "check", "update"}
HasRow(w) == Patching(w) \/ At(w, "delete") \/ At(w, "bill")

\* Ids are fresh uuids: never one that a request in flight has loaded.
Unused(t) ==
    /\ t \notin Live
    /\ \A w \in Workers : HasRow(w) => job[w].id # t

Init ==
    /\ rows = [t \in Tenancies |-> None]
    /\ people = [t \in Tenancies |-> {}]
    /\ billed = {}
    /\ logged = [t \in Tenancies |-> None]
    /\ job = [w \in Workers |-> Idle]

-------------------------------------------------------------------------------
(***************************************************************************)
(* POST /tenancies                                                         *)
(***************************************************************************)

CheckCreate(w, c) ==
    /\ At(w, "idle")
    /\ ~Overlaps(c.room, c.moveIn,
                 SchedulingEnd(c.moveOut, c.termination, c.actualOut), {})
    /\ job' = [job EXCEPT ![w] = [at |-> "insert", body |-> c]]
    /\ UNCHANGED <<rows, people, billed, logged>>

InsertAccepted(w, t) == Unused(t) /\ TableAccepts(t, NewRow(job[w].body))

Insert(w, t) ==
    /\ At(w, "insert")
    /\ InsertAccepted(w, t)
    /\ rows' = [rows EXCEPT ![t] = NewRow(job[w].body)]
    /\ people' = [people EXCEPT ![t] = job[w].body.people]
    /\ logged' = [logged EXCEPT ![t] = NewRow(job[w].body)]
    /\ job' = [job EXCEPT ![w] = Idle]
    /\ UNCHANGED billed

-------------------------------------------------------------------------------
(***************************************************************************)
(* PATCH /tenancies/{id}                                                   *)
(***************************************************************************)

Load(w, t, p) ==
    /\ At(w, "idle")
    /\ t \in Live
    /\ job' = [job EXCEPT ![w] =
                   [at |-> IF HasPeople(p) THEN "people" ELSE "check",
                    id |-> t, body |-> p, seen |-> rows[t], gone |-> {}]]
    /\ UNCHANGED <<rows, people, billed, logged>>

\* DELETE FROM tenancy_participants WHERE tenancy_id = ...: the statement sees
\* the rows committed when it starts.
DropPeople(w) ==
    /\ At(w, "people")
    /\ job' = [job EXCEPT ![w].at = "check", ![w].gone = people[job[w].id]]
    /\ UNCHANGED <<rows, people, billed, logged>>

Wanted(w) == PatchedRow(job[w].seen, job[w].body)

\* A plausible slip: requests that wait for each other from the moment they load.
WaitsForAny(w) ==
    \E v \in Workers \ {w} :
        Patching(v) /\ job[v].id = job[w].id /\ job[v].gone \cap job[w].gone # {}

\* Its DELETE waits for another that already holds one of the same rows.
Waits(w) ==
    \E v \in Workers \ {w} :
        /\ At(v, "update")
        /\ job[v].id = job[w].id
        /\ job[v].gone \cap job[w].gone # {}

PatchValid(w) ==
    HasData(job[w].body) =>
        /\ OnOrAfter(Wanted(w).moveOut, Wanted(w).moveIn)
        /\ ~Overlaps(Wanted(w).room, Wanted(w).moveIn, Wanted(w).moveOut, {job[w].id})

CheckPatch(w) ==
    /\ At(w, "check")
    /\ ~Waits(w)
    /\ PatchValid(w)
    /\ job' = [job EXCEPT ![w].at = "update"]
    /\ UNCHANGED <<rows, people, billed, logged>>

\* What the flush leaves in the tables.
UpdatedRow(w) == Updated(job[w].seen, Wanted(w), rows[job[w].id])
UpdatedPeople(w) ==
    IF HasPeople(job[w].body)
    THEN (people[job[w].id] \ job[w].gone) \cup job[w].body.people
    ELSE people[job[w].id]

\* A plausible slip: participants without their unique constraint.
RowAccepted(w) == job[w].id \in Live /\ TableAccepts(job[w].id, UpdatedRow(w))

\* The row still exists, the table takes its new value, and no tenant is
\* inserted beside a row of the same tenant that the DELETE did not see.
UpdateAccepted(w) ==
    /\ job[w].id \in Live
    /\ TableAccepts(job[w].id, UpdatedRow(w))
    /\ HasPeople(job[w].body) =>
          \A p \in people[job[w].id] \ job[w].gone, q \in job[w].body.people :
              p.tenant # q.tenant

\* Rows this commit removed are no longer there for another DELETE to hit, and
\* the ones it inserted are younger than that statement.
Forget(v, t, gone) ==
    IF Patching(v) /\ job[v].id = t
    THEN [job[v] EXCEPT !.gone = @ \ gone]
    ELSE job[v]

\* A plausible slip: a request that only replaces the list leaves no snapshot.
AuditedData(w) == HasData(job[w].body) /\ Wanted(w) # job[w].seen

\* A snapshot goes to the audit stream when the list was replaced or the row differs.
Audited(w) == HasPeople(job[w].body) \/ Wanted(w) # job[w].seen

Update(w) ==
    LET t == job[w].id
    IN  /\ At(w, "update")
        /\ UpdateAccepted(w)
        /\ rows' = [rows EXCEPT ![t] = UpdatedRow(w)]
        /\ people' = [people EXCEPT ![t] = UpdatedPeople(w)]
        /\ logged' = IF Audited(w) THEN [logged EXCEPT ![t] = Wanted(w)] ELSE logged
        /\ job' = [v \in Workers |->
                      IF v = w THEN Idle ELSE Forget(v, t, job[w].gone)]
        /\ UNCHANGED billed

-------------------------------------------------------------------------------
(***************************************************************************)
(* DELETE /tenancies/{id}                                                  *)
(***************************************************************************)

LoadForDelete(w, t) ==
    /\ At(w, "idle")
    /\ t \in Live
    /\ job' = [job EXCEPT ![w] = [at |-> "delete", id |-> t]]
    /\ UNCHANGED <<rows, people, billed, logged>>

\* A plausible slip: invoices that let their contract go.
AnyRow(t) == t \in Tenancies

\* An invoice keeps the row it refers to.
Deletable(t) == t \notin billed

\* Participants go with the row.
Delete(w) ==
    LET t == job[w].id
    IN  /\ At(w, "delete")
        /\ Deletable(t)
        /\ rows' = [rows EXCEPT ![t] = None]
        /\ people' = [people EXCEPT ![t] = {}]
        /\ logged' = [logged EXCEPT ![t] = None]
        /\ job' = [v \in Workers |->
                      IF v = w THEN Idle ELSE Forget(v, t, people[t])]
        /\ UNCHANGED billed

-------------------------------------------------------------------------------
(***************************************************************************)
(* The monthly invoice run, one contract of it and one month.              *)
(***************************************************************************)

\* An active contract without an invoice, as the run's queries see it.
PickForInvoice(w, t) ==
    /\ At(w, "idle")
    /\ t \in Live \ billed
    /\ rows[t].status = "active"
    /\ job' = [job EXCEPT ![w] = [at |-> "bill", id |-> t]]
    /\ UNCHANGED <<rows, people, billed, logged>>

\* The invoice needs its contract, and is the only one of its month.
InvoiceAccepted(t) == t \in Live \ billed

Invoice(w) ==
    /\ At(w, "bill")
    /\ InvoiceAccepted(job[w].id)
    /\ billed' = billed \cup {job[w].id}
    /\ job' = [job EXCEPT ![w] = Idle]
    /\ UNCHANGED <<rows, people, logged>>

-------------------------------------------------------------------------------
\* A check or a constraint refuses the request; its session is rolled back.
Refused(w) ==
    \/ At(w, "insert") /\ \A t \in Tenancies : ~InsertAccepted(w, t)
    \/ At(w, "check") /\ ~Waits(w) /\ ~PatchValid(w)
    \/ At(w, "update") /\ ~UpdateAccepted(w)
    \/ At(w, "delete") /\ ~Deletable(job[w].id)
    \/ At(w, "bill") /\ ~InvoiceAccepted(job[w].id)

RollBack(w) ==
    /\ ~At(w, "idle")
    /\ job' = [job EXCEPT ![w] = Idle]
    /\ UNCHANGED <<rows, people, billed, logged>>

Refuse(w) == Refused(w) /\ RollBack(w)

\* What a worker does with a request it has begun.
Proceed(w) ==
    \/ \E t \in Tenancies : Insert(w, t)
    \/ DropPeople(w) \/ CheckPatch(w) \/ Update(w)
    \/ Delete(w) \/ Invoice(w)
    \/ Refuse(w)

Next ==
    \E w \in Workers :
        \/ \E c \in Creates : CheckCreate(w, c)
        \/ \E t \in Tenancies, p \in Patches : Load(w, t, p)
        \/ \E t \in Tenancies : LoadForDelete(w, t) \/ PickForInvoice(w, t)
        \/ Proceed(w)
        \/ RollBack(w)     \* a lost connection or a stopped process

Spec == Init /\ [][Next]_vars

\* A thread runs its request to the end unless the process stops, and a statement
\* that waits for a row lock gets it in its turn (the lock queue is first come,
\* first served), hence strong fairness.
FairSpec == Spec /\ \A w \in Workers : SF_vars(Proceed(w))

-------------------------------------------------------------------------------
(***************************************************************************)
(* Invariants that hold whatever the requests do to each other.            *)
(***************************************************************************)

\* Every variable keeps its shape.
TypeOK ==
    /\ rows \in [Tenancies -> Row \cup {None}]
    /\ people \in [Tenancies -> SUBSET Participant]
    /\ billed \in SUBSET Tenancies
    /\ logged \in [Tenancies -> Row \cup {None}]
    /\ job \in [Workers -> Job]

\* Check and commit are separate steps, so two requests can both pass the
\* overlap query; still no day of a room is in the stored stay of two contracts.
OneGuestPerDay ==
    \A t, u \in Live : \A d \in Date :
        /\ t # u
        /\ rows[t].room = rows[u].room
        => ~ /\ Covers(rows[t].moveIn, rows[t].moveOut, d)
             /\ Covers(rows[u].moveIn, rows[u].moveOut, d)

\* The participants of a contract that exists include a primary tenant and no
\* tenant twice, and none are left of a contract that is gone, even when
\* requests that replace them or delete the contract overlap.
PeopleSound ==
    \A t \in Tenancies :
        IF t \in Live
        THEN Primaries(people[t]) # {} /\ NoTenantTwice(people[t])
        ELSE people[t] = {}

\* No request deletes a contract that an invoice was written for between the
\* moment it loaded the row and its commit.
BilledIsLive == billed \subseteq Live

\* Two contracts of one room have stored ranges that do not meet (the inductive
\* form of OneGuestPerDay).
StaysDisjoint ==
    \A t, u \in Live : t # u => ~RangesMeet(rows[t], rows[u])

(***************************************************************************)
(* Invariants of requests that run one after the other.                    *)
(***************************************************************************)

\* "move_out_date is kept in sync with scheduling end": the column the database
\* guards is the day the service schedules by.
SyncedMoveOut == \A t \in Live : rows[t].moveOut = RowEnd(rows[t])

\* tenancies.tenant_id is the one primary participant, whom invoices go to.
PrimaryAgrees ==
    \A t \in Live :
        \E p \in people[t] : Primaries(people[t]) = {p} /\ p.tenant = rows[t].tenant

\* The newest snapshot on the audit stream is the row.
AuditCurrent == \A t \in Tenancies : logged[t] = rows[t]

\* No two contracts of a room share a day up to the end the service schedules
\* by, the later of move-out, termination and actual move-out.
ContractsDisjoint ==
    \A t, u \in Live : \A d \in Date :
        /\ t # u
        /\ rows[t].room = rows[u].room
        => ~ /\ Covers(rows[t].moveIn, RowEnd(rows[t]), d)
             /\ Covers(rows[u].moveIn, RowEnd(rows[u]), d)

\* No end of a contract lies before its move-in, as the request models require.
EndsOnOrAfterStart ==
    \A t \in Live :
        /\ OnOrAfter(rows[t].termination, rows[t].moveIn)
        /\ OnOrAfter(rows[t].actualOut, rows[t].moveIn)

-------------------------------------------------------------------------------
(***************************************************************************)
(* What a step may never do.                                               *)
(***************************************************************************)

Names(w, f) == At(w, "update") /\ job[w].body[f] # Keep

\* A commit changes a column of a contract only when its own body names the
\* column: a request that loaded the row earlier does not put back what another
\* has changed since.  (move_out follows the other dates, tenant_id the list.)
NoForeignRevert ==
    [][\A t \in Live :
          rows'[t] # None =>
              \A f \in {"moveIn", "termination", "actualOut", "status"} :
                  rows'[t][f] # rows[t][f] =>
                      \E w \in Workers : job[w] # job'[w] /\ Names(w, f)
      ]_vars

\* An end of a stay that is set moves to an earlier day, or back to open, only in
\* a commit whose body names move_out: withdrawing or advancing a termination
\* never frees days of the room.
ShrinksOnlyByMoveOut ==
    [][\A t \in Live :
          /\ rows'[t] # None
          /\ rows[t].moveOut # None
          /\ rows'[t].moveOut = None \/ rows'[t].moveOut < rows[t].moveOut
          => \E w \in Workers : job[w] # job'[w] /\ Names(w, "moveOut")
      ]_vars

\* Every request that a worker has begun is answered.
Answered == \A w \in Workers : ~At(w, "idle") ~> At(w, "idle")

-------------------------------------------------------------------------------
(***************************************************************************)
(* The stored stays implement the calendar of RoomCalendar.                *)
(***************************************************************************)
Calendar == INSTANCE RoomCalendar WITH
    bookings <- [t \in Tenancies |-> IF rows[t] = None THEN None ELSE BookingOf(rows[t])]

\* Whatever the interleaving, each step enters, moves or cancels one booking that
\* fits the calendar, and no booking changes its room.
ImplementsCalendar == Calendar!Spec
===============================================================================
