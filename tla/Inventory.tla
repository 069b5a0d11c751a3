------------------------------- MODULE Inventory -------------------------------
(***************************************************************************)
(* Stock: items with a total quantity, and assignments that place a part   *)
(* of it in a unit, optionally in one of its rooms.  The endpoints check a *)
(* request, commit it, and bring the item's status up to date in a second  *)
(* transaction, in the threads of the back end and against PostgreSQL at   *)
(* READ COMMITTED.                                                         *)
(***************************************************************************)
EXTENDS Absent, FiniteSetsExt

CONSTANTS
    Items,          \* ids of inventory_items
    Assignments,    \* ids of inventory_assignments
    Units, Rooms,
    MaxQuantity,    \* bound on the quantities a request can name
    Creates,        \* the assignments that the POST bodies ask for
    Patches,        \* the PATCH bodies of assignments
    Workers,        \* request threads
    Keep            \* a field that a PATCH body does not name

VARIABLES
    items,      \* inventory_items: the committed row of each id
    placed,     \* inventory_assignments: the committed row of each id
    units,      \* unit: the rows that exist
    home,       \* room: the unit of each row, None for a deleted one
    job         \* what each worker is doing

vars == <<items, placed, units, home, job>>

-------------------------------------------------------------------------------
Quantity == 1 .. MaxQuantity

\* create_inventory_item and the sync write these two; "repair" and "disposed"
\* are not in any request body.
Status == {"stored", "active"}

Item == [total: Quantity, status: Status]

Assignment == [item: Items, unit: Units, room: Rooms \cup {None}, quantity: Quantity]

\* AssignmentCreateBody and AssignmentPatchBody
Create == [unit: Units, room: Rooms \cup {None}, quantity: Quantity]
Patch == [unit: Units \cup {Keep}, room: Rooms \cup {None, Keep},
          quantity: Quantity \cup {Keep}]

ASSUME QuantityAssumption == MaxQuantity \in Nat
ASSUME FiniteAssumption == IsFiniteSet(Assignments)
ASSUME BodyAssumption == Creates \subseteq Create /\ Patches \subseteq Patch
ASSUME NullAssumption ==
    /\ None \notin Item \cup Assignment \cup Rooms \cup Assignments \cup Units
    /\ Keep \notin Rooms \cup Units \cup Quantity \cup {None}

LiveItems == {i \in Items : items[i] # None}
LiveRows  == {a \in Assignments : placed[a] # None}
RowsOf(i) == {a \in LiveRows : placed[a].item = i}

\* _assigned_sum: over the rows of an item, but for one.
AssignedSum(i, except) ==
    MapThenSumSet(LAMBDA a : placed[a].quantity, RowsOf(i) \ except)

\* A plausible slip: one assignment does not count.
DerivedFromMany(n) == IF n > 1 THEN "active" ELSE "stored"

Derived(n) == IF n > 0 THEN "active" ELSE "stored"

\* A plausible slip: SQL compares a NULL room as different from every other.
SameNamedSlot(a, b) ==
    a.item = b.item /\ a.unit = b.unit /\ a.room = b.room /\ a.room # None

\* The unique index over item, unit and COALESCE(room, '').
SameSlot(a, b) == a.item = b.item /\ a.unit = b.unit /\ a.room = b.room

\* The index and the foreign keys accept the row under this id.
IndexAccepts(table, id, row) ==
    \A a \in Assignments \ {id} : table[a] # None => ~SameSlot(table[a], row)

\* A plausible slip: tables without their foreign keys.
NoKeys(row) == row.quantity > 0

KeysAccept(row) ==
    /\ items[row.item] # None
    /\ row.unit \in units
    /\ row.room # None => home[row.room] # None

-------------------------------------------------------------------------------
Idle == [at |-> "idle"]

At(w, step) == job[w].at = step
Becomes(w, j) == job' = [job EXCEPT ![w] = j]

\* The second transaction of a request about item i, still to come; the request
\* refreshes the assignment id first, if it has one.
SyncOf(i, id) == [at |-> "sync", item |-> i, id |-> id]

\* Between its flush and its commit a worker holds the row lock of the item.
Locked(w, i) == \E v \in Workers \ {w} : At(v, "commit") /\ job[v].item = i

\* Ids are fresh uuids.
UnusedItem(i) == items[i] = None /\ \A w \in Workers : ~At(w, "idle") => job[w].item # i
UnusedRow(a)  ==
    /\ placed[a] = None
    /\ \A w \in Workers :
          At(w, "check") \/ At(w, "write") \/ At(w, "sync") \/ At(w, "remove") => job[w].id # a

Init ==
    /\ items = [i \in Items |-> None]
    /\ placed = [a \in Assignments |-> None]
    /\ units = Units
    /\ home \in [Rooms -> Units]
    /\ job = [w \in Workers |-> Idle]

-------------------------------------------------------------------------------
(***************************************************************************)
(* Items: POST, PATCH and DELETE /inventory/{id}                           *)
(***************************************************************************)

CreateItem(w, i, n) ==
    /\ At(w, "idle")
    /\ UnusedItem(i)
    /\ items' = [items EXCEPT ![i] = [total |-> n, status |-> "stored"]]
    /\ Becomes(w, SyncOf(i, None))
    /\ UNCHANGED <<placed, units, home>>

LoadToResize(w, i, n) ==
    /\ At(w, "idle")
    /\ i \in LiveItems
    /\ Becomes(w, [at |-> "resize", item |-> i, total |-> n, seen |-> items[i]])
    /\ UNCHANGED <<items, placed, units, home>>

ResizeValid(w) == job[w].total # Keep => AssignedSum(job[w].item, {}) <= job[w].total

Resize(w) ==
    /\ At(w, "resize")
    /\ ResizeValid(w)
    /\ Becomes(w, [at |-> "flush", item |-> job[w].item, total |-> job[w].total,
                   seen |-> job[w].seen, sum |-> AssignedSum(job[w].item, {})])
    /\ UNCHANGED <<items, placed, units, home>>

\* The flush takes the row lock; then the rows are counted.
Flush(w) ==
    /\ At(w, "flush")
    /\ job[w].item \in LiveItems
    /\ ~Locked(w, job[w].item)
    /\ Becomes(w, [at |-> "commit", item |-> job[w].item, total |-> job[w].total,
                   seen |-> job[w].seen, sum |-> job[w].sum,
                   count |-> Cardinality(RowsOf(job[w].item))])
    /\ UNCHANGED <<items, placed, units, home>>

\* UPDATE sets the columns that differ from the row as loaded.
Touched(seen, want, now) == IF want = seen THEN now ELSE want

ResizedItem(w) ==
    LET now  == items[job[w].item]
        seen == job[w].seen
    IN  [total  |-> IF job[w].total = Keep THEN now.total
                    ELSE Touched(seen.total, job[w].total, now.total),
         status |-> Touched(seen.status, Derived(job[w].count), now.status)]

CommitItem(w) ==
    /\ At(w, "commit")
    /\ items' = [items EXCEPT ![job[w].item] = ResizedItem(w)]
    /\ Becomes(w, Idle)
    /\ UNCHANGED <<placed, units, home>>

LoadToDiscard(w, i) ==
    /\ At(w, "idle")
    /\ i \in LiveItems
    /\ Becomes(w, [at |-> "discard", item |-> i])
    /\ UNCHANGED <<items, placed, units, home>>

\* Assignments go with their item.  Deleting a row that is gone is no error.
Discard(w) ==
    /\ At(w, "discard")
    /\ ~Locked(w, job[w].item)
    /\ items' = [items EXCEPT ![job[w].item] = None]
    /\ placed' = [a \in Assignments |-> IF a \in RowsOf(job[w].item) THEN None ELSE placed[a]]
    /\ Becomes(w, Idle)
    /\ UNCHANGED <<units, home>>

-------------------------------------------------------------------------------
(***************************************************************************)
(* Assignments: POST, PATCH and DELETE                                     *)
(***************************************************************************)

\* The unit exists, and the room belongs to it.
SlotExists(s) == s.unit \in units /\ (s.room # None => home[s.room] = s.unit)

\* POST: a unit, a room of it or none, and a quantity.
LoadToAssign(w, i, c) ==
    /\ At(w, "idle")
    /\ i \in LiveItems
    /\ SlotExists(c)
    /\ Becomes(w, [at |-> "check", item |-> i, id |-> None, seen |-> None,
                   want |-> [item |-> i, unit |-> c.unit, room |-> c.room,
                            quantity |-> c.quantity],
                   total |-> items[i].total])
    /\ UNCHANGED <<items, placed, units, home>>

Patched(old, new) == IF new = Keep THEN old ELSE new

Moved(row, p) ==
    [item |-> row.item, unit |-> Patched(row.unit, p.unit),
     room |-> Patched(row.room, p.room), quantity |-> Patched(row.quantity, p.quantity)]

\* PATCH: the room of the row, new or kept, belongs to its unit, new or kept.  A
\* body that names none of the three (only notes) goes the same way.
LoadToMove(w, a, p) ==
    /\ At(w, "idle")
    /\ a \in LiveRows
    /\ SlotExists(Moved(placed[a], p))
    /\ Becomes(w, [at |-> "check", item |-> placed[a].item, id |-> a,
                   seen |-> placed[a], want |-> Moved(placed[a], p),
                   total |-> items[placed[a].item].total])
    /\ UNCHANGED <<items, placed, units, home>>

\* A plausible slip: what is left of the stock, counted one too many.
FitsWithOne(sum, n, total) == sum + n <= total + 1

Fits(sum, n, total) == sum + n <= total

OthersSum(w) == AssignedSum(job[w].item, {job[w].id})

\* The sum is read now, the total was when the item was loaded.
CheckStock(w) ==
    /\ At(w, "check")
    /\ Fits(OthersSum(w), job[w].want.quantity, job[w].total)
    /\ Becomes(w, [at |-> "write", item |-> job[w].item, id |-> job[w].id,
                   seen |-> job[w].seen, want |-> job[w].want,
                   total |-> job[w].total, sum |-> OthersSum(w)])
    /\ UNCHANGED <<items, placed, units, home>>

InsertAccepted(w, a) ==
    UnusedRow(a) /\ KeysAccept(job[w].want) /\ IndexAccepts(placed, a, job[w].want)

Insert(w, a) ==
    /\ At(w, "write") /\ job[w].id = None
    /\ InsertAccepted(w, a)
    /\ placed' = [placed EXCEPT ![a] = job[w].want]
    /\ Becomes(w, SyncOf(job[w].item, a))
    /\ UNCHANGED <<items, units, home>>

\* A plausible slip: every column is written back.
WholeRow(seen, want, now) == want

UpdatedRow(seen, want, now) ==
    [item |-> now.item, unit |-> Touched(seen.unit, want.unit, now.unit),
     room |-> Touched(seen.room, want.room, now.room),
     quantity |-> Touched(seen.quantity, want.quantity, now.quantity)]

MovedRow(w) == UpdatedRow(job[w].seen, job[w].want, placed[job[w].id])

MoveAccepted(w) ==
    /\ placed[job[w].id] # None
    /\ KeysAccept(MovedRow(w))
    /\ IndexAccepts(placed, job[w].id, MovedRow(w))

Move(w) ==
    /\ At(w, "write") /\ job[w].id # None
    /\ MoveAccepted(w)
    /\ placed' = [placed EXCEPT ![job[w].id] = MovedRow(w)]
    /\ Becomes(w, SyncOf(job[w].item, job[w].id))
    /\ UNCHANGED <<items, units, home>>

LoadToRemove(w, a) ==
    /\ At(w, "idle")
    /\ a \in LiveRows
    /\ Becomes(w, [at |-> "remove", item |-> placed[a].item, id |-> a])
    /\ UNCHANGED <<items, placed, units, home>>

\* Deleting a row that is gone is no error.
Remove(w) ==
    /\ At(w, "remove")
    /\ placed' = [placed EXCEPT ![job[w].id] = None]
    /\ Becomes(w, SyncOf(job[w].item, None))
    /\ UNCHANGED <<items, units, home>>

-------------------------------------------------------------------------------
(***************************************************************************)
(* The second transaction: the status follows the number of assignments.   *)
(***************************************************************************)

\* The refresh of an assignment that is gone by now ends the request.
SyncLoad(w) ==
    LET i == job[w].item
        a == job[w].id
    IN  /\ At(w, "sync")
        /\ a # None => placed[a] # None
        /\ Becomes(w, IF items[i] = None THEN Idle
                      ELSE [at |-> "count", item |-> i, seen |-> items[i]])
        /\ UNCHANGED <<items, placed, units, home>>

SyncCount(w) ==
    /\ At(w, "count")
    /\ Becomes(w, [at |-> "save", item |-> job[w].item, seen |-> job[w].seen,
                   count |-> Cardinality(RowsOf(job[w].item))])
    /\ UNCHANGED <<items, placed, units, home>>

SyncedStatus(w) ==
    Touched(job[w].seen.status, Derived(job[w].count), items[job[w].item].status)

SyncSave(w) ==
    /\ At(w, "save")
    /\ ~Locked(w, job[w].item)
    /\ job[w].item \in LiveItems
    /\ items' = [items EXCEPT ![job[w].item].status = SyncedStatus(w)]
    /\ Becomes(w, Idle)
    /\ UNCHANGED <<placed, units, home>>

-------------------------------------------------------------------------------
(***************************************************************************)
(* Rooms and units, as the handlers of other components change them.       *)
(***************************************************************************)

\* ON DELETE SET NULL
RoomCleared(r) ==
    [a \in Assignments |->
        IF a \in LiveRows /\ placed[a].room = r
        THEN [placed[a] EXCEPT !.room = None] ELSE placed[a]]

\* DELETE /rooms/{id}: ON DELETE SET NULL, unless that puts two rows of an item
\* in one slot.
DeleteRoom(r) ==
    /\ home[r] # None
    /\ \A a \in LiveRows : placed[a].room = r =>
           IndexAccepts(RoomCleared(r), a, RoomCleared(r)[a])
    /\ home' = [home EXCEPT ![r] = None]
    /\ placed' = RoomCleared(r)
    /\ UNCHANGED <<items, units, job>>

\* PATCH /rooms/{id}: the assignments of the room stay with its old unit.
MoveRoom(r, u) ==
    /\ home[r] # None /\ u \in units
    /\ home' = [home EXCEPT ![r] = u]
    /\ UNCHANGED <<items, placed, units, job>>

\* DELETE /units/{id}: only without rooms; its assignments go with it, and no
\* item is synced.
DeleteUnit(u) ==
    /\ u \in units
    /\ \A r \in Rooms : home[r] # u
    /\ units' = units \ {u}
    /\ placed' = [a \in Assignments |->
                    IF a \in LiveRows /\ placed[a].unit = u THEN None ELSE placed[a]]
    /\ UNCHANGED <<items, home, job>>

-------------------------------------------------------------------------------
\* A check, a constraint or a row that is gone ends the request with an error.
Refused(w) ==
    \/ At(w, "resize") /\ ~ResizeValid(w)
    \/ At(w, "flush") /\ job[w].item \notin LiveItems
    \/ At(w, "check") /\ ~Fits(OthersSum(w), job[w].want.quantity, job[w].total)
    \/ At(w, "write") /\ job[w].id = None /\ \A a \in Assignments : ~InsertAccepted(w, a)
    \/ At(w, "write") /\ job[w].id # None /\ ~MoveAccepted(w)
    \/ At(w, "sync") /\ job[w].id # None /\ placed[job[w].id] = None
    \/ At(w, "save") /\ job[w].item \notin LiveItems

Stop(w) ==
    /\ ~At(w, "idle")
    /\ Becomes(w, Idle)
    /\ UNCHANGED <<items, placed, units, home>>

Refuse(w) == Refused(w) /\ Stop(w)

Begin(w) ==
    \/ \E i \in Items :
          \/ \E n \in Quantity : CreateItem(w, i, n)
          \/ \E n \in Quantity \cup {Keep} : LoadToResize(w, i, n)
          \/ LoadToDiscard(w, i)
          \/ \E c \in Creates : LoadToAssign(w, i, c)
    \/ \E a \in Assignments :
          \/ \E p \in Patches : LoadToMove(w, a, p)
          \/ LoadToRemove(w, a)

Proceed(w) ==
    \/ Resize(w) \/ Flush(w) \/ CommitItem(w) \/ Discard(w)
    \/ CheckStock(w) \/ Move(w) \/ Remove(w)
    \/ \E a \in Assignments : Insert(w, a)
    \/ SyncLoad(w) \/ SyncCount(w) \/ SyncSave(w)
    \/ Refuse(w)

Next ==
    \/ \E w \in Workers : Begin(w) \/ Proceed(w) \/ Stop(w)
    \/ \E r \in Rooms : DeleteRoom(r) \/ \E u \in Units : MoveRoom(r, u)
    \/ \E u \in Units : DeleteUnit(u)

Spec == Init /\ [][Next]_vars
-------------------------------------------------------------------------------
(***************************************************************************)
(* Properties                                                              *)
(***************************************************************************)

\* What a worker holds in memory at each step of a request.
JobOK(j) ==
    /\ j.at \in {"idle", "resize", "flush", "commit", "discard", "check", "write", "remove",
                "sync", "count", "save"}
    /\ j.at # "idle" => j.item \in Items
    /\ j.at \in {"resize", "flush", "commit"} =>
           j.total \in Quantity \cup {Keep} /\ j.seen \in Item
    /\ j.at \in {"check", "write"} =>
           /\ j.id \in Assignments \cup {None} /\ j.want \in Assignment
           /\ j.total \in Quantity
           /\ j.seen \in Assignment \cup {None}
    /\ j.at = "remove" => j.id \in Assignments
    /\ j.at = "sync" => j.id \in Assignments \cup {None}
    /\ j.at \in {"count", "save"} => j.seen \in Item

\* Rows have the shape of their tables, and a worker holds what its step needs.  Sums
\* and counts are left open: they are what AssignedSum and Cardinality make of the rows.
TypeOK ==
    /\ items \in [Items -> Item \cup {None}]
    /\ placed \in [Assignments -> Assignment \cup {None}]
    /\ units \subseteq Units
    /\ home \in [Rooms -> Units \cup {None}]
    /\ DOMAIN job = Workers /\ \A w \in Workers : JobOK(job[w])

\* The index over item, unit and room keeps every slot to one row, also when a
\* deleted room drops its rows into the unit and while two requests write.
SlotsDistinct ==
    \A a, b \in LiveRows : a # b =>
        \/ placed[a].item # placed[b].item
        \/ placed[a].unit # placed[b].unit
        \/ placed[a].room # placed[b].room

\* A worker between its flush and its commit holds the lock of an item that is there.
LocksHeld == \A w \in Workers : At(w, "commit") => job[w].item \in LiveItems

\* No assignment outlives its item, its unit or its room, however the deletes
\* fall between the checks and the commit of a request.
ReferencesLive ==
    /\ \A a \in LiveRows :
          /\ placed[a].item \in LiveItems
          /\ placed[a].unit \in units
          /\ placed[a].room # None => home[placed[a].room] # None
    /\ \A r \in Rooms : home[r] # None => home[r] \in units

\* A request writes a column of an assignment only to the value it was asked for,
\* and only if that differs from the value it loaded: what another request has
\* committed in between is not put back.
NoForeignRevert ==
    [][\A a \in LiveRows, f \in {"unit", "quantity"} :
        placed'[a] # None /\ placed'[a][f] # placed[a][f] =>
            \E w \in Workers :
                /\ At(w, "write") /\ job[w].id = a
                /\ job[w].want[f] = placed'[a][f]
                /\ job[w].seen[f] # placed'[a][f]]_vars

InStock(i) == i \in LiveItems => AssignedSum(i, {}) <= items[i].total

\* What the checks of create_assignment, update_assignment and
\* update_inventory_item read: the other rows, the total, and the row itself.
ReadAgain(w) ==
    /\ job[w].sum = IF At(w, "write") THEN OthersSum(w) ELSE AssignedSum(job[w].item, {})
    /\ At(w, "write") => job[w].total = items[job[w].item].total
    /\ At(w, "write") /\ job[w].id # None => job[w].seen = placed[job[w].id]

\* More is assigned than there is only after a request that had read something
\* that is out of date at its commit.
OversoldOnlyIfStale ==
    [][\A i \in LiveItems : InStock(i) /\ ~InStock(i)' =>
          \E w \in Workers :
              /\ At(w, "write") \/ At(w, "commit")
              /\ job[w].item = i
              /\ ~ReadAgain(w)]_vars

StatusRight(i) == items[i].status = "active" <=> RowsOf(i) # {}

\* A status that is right is only made wrong by a request that saves it from a
\* count that has changed since (the rows as they are do not change with it).
StatusSpoiledOnlyByOldCount ==
    [][\A i \in LiveItems :
          i \in LiveItems' /\ placed' = placed /\ StatusRight(i) /\ ~StatusRight(i)' =>
              \E w \in Workers :
                  /\ At(w, "commit") \/ At(w, "save")
                  /\ job[w].item = i
                  /\ job[w].count # Cardinality(RowsOf(i))]_vars

\* The head of inventory_service: Sum(assignment.quantity) must not exceed
\* total_quantity.  It holds of requests one after the other.
WithinStock == \A i \in Items : InStock(i)

\* _sync_item_status_from_assignments: no rows, stored; at least one, active.  A
\* step that adds the first row or takes the last belongs to a request that goes
\* on to bring the status up to date.
StatusFollowsRows ==
    [][\A i \in LiveItems :
          i \in LiveItems' /\ StatusRight(i) /\ ~StatusRight(i)' =>
              \E w \in Workers : At(w, "sync")' /\ job'[w].item = i]_vars

===============================================================================
