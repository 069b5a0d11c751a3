----------------------------- MODULE InventoryProofs -----------------------------
(***************************************************************************)
(* Theorems of Inventory, for any sets of items, rows, units, rooms and     *)
(* workers, and any bodies the request models accept.                      *)
(***************************************************************************)
EXTENDS Inventory, FiniteSetTheorems, NaturalsInduction, WellFoundedInduction, TLAPS

USE NullAssumption DEF At

-------------------------------------------------------------------------------
(***************************************************************************)
(* What a worker holds: the other workers keep what they have.             *)
(***************************************************************************)

LEMMA WorkerMovesOn ==
    ASSUME DOMAIN job = Workers, \A w \in Workers : JobOK(job[w]),
           NEW w \in Workers, NEW j, JobOK(j), Becomes(w, j)
    PROVE  /\ DOMAIN job' = Workers /\ \A v \in Workers : JobOK(job'[v])
           /\ job'[w] = j /\ \A v \in Workers \ {w} : job'[v] = job[v]
BY DEF Becomes

\* A request that is over.
LEMMA IdleOK == JobOK(Idle)
BY DEF JobOK, Idle

\* A request that goes on to its second transaction.
LEMMA SyncOK ==
    ASSUME NEW i \in Items, NEW id \in Assignments \cup {None}
    PROVE  JobOK(SyncOf(i, id))
BY DEF JobOK, SyncOf

LEMMA LiveType ==
    ASSUME TypeOK
    PROVE  /\ \A i \in LiveItems : i \in Items /\ items[i] \in Item
           /\ \A a \in LiveRows : a \in Assignments /\ placed[a] \in Assignment
BY DEF TypeOK, LiveItems, LiveRows

\* A row of a body, and a row that a body changes.
LEMMA MovedType ==
    ASSUME NEW row \in Assignment, NEW p \in Patch
    PROVE  Moved(row, p) \in Assignment
BY DEF Moved, Patched, Assignment, Patch

LEMMA MovedRowType ==
    ASSUME TypeOK, NEW w \in Workers, At(w, "write"), job[w].id # None, MoveAccepted(w)
    PROVE  /\ job[w].id \in LiveRows
           /\ MovedRow(w) \in Assignment
<1>1. job[w].id \in Assignments /\ job[w].want \in Assignment
  BY DEF TypeOK, JobOK
<1>2. job[w].id \in LiveRows
  BY <1>1 DEF MoveAccepted, LiveRows
<1>3. placed[job[w].id] \in Assignment
  BY <1>2, LiveType
<1> QED
  BY <1>1, <1>2, <1>3 DEF MovedRow, UpdatedRow, Touched, Assignment

-------------------------------------------------------------------------------
(***************************************************************************)
(* Type correctness, with the locks and the foreign keys: a commit of an    *)
(* item needs its row, which is there because its lock is held, and a       *)
(* request reads the item of an assignment, which is there because the      *)
(* assignment is.                                                          *)
(***************************************************************************)

Sound == TypeOK /\ LocksHeld /\ ReferencesLive

LEMMA InitSound == Init => Sound
<1> SUFFICES ASSUME Init PROVE Sound
  OBVIOUS
<1>1. TypeOK /\ LocksHeld
  BY IdleOK DEF Init, TypeOK, LocksHeld, Idle
<1>2. LiveRows = {} /\ \A r \in Rooms : home[r] \in units
  BY DEF Init, LiveRows
<1> QED
  BY <1>1, <1>2 DEF Sound, ReferencesLive

\* A step of one request that leaves the tables alone.
LEMMA OwnStep ==
    ASSUME Sound, NEW w \in Workers, NEW j, JobOK(j), Becomes(w, j),
           UNCHANGED <<items, placed, units, home>>,
           j.at = "commit" => j.item \in LiveItems
    PROVE  Sound'
<1>1. TypeOK'
  BY WorkerMovesOn DEF Sound, TypeOK, JobOK, Quantity
<1>2. LocksHeld'
  BY WorkerMovesOn DEF Sound, TypeOK, LocksHeld, LiveItems
<1>3. ReferencesLive'
  BY DEF Sound, ReferencesLive, LiveRows, LiveItems
<1> QED
  BY <1>1, <1>2, <1>3 DEF Sound

\* Items that are there stay, so do the locks on them and the references to them.
LEMMA ItemsKept ==
    ASSUME Sound, items' \in [Items -> Item \cup {None}], LiveItems \subseteq LiveItems',
           UNCHANGED <<placed, units, home>>,
           NEW w \in Workers, NEW j, JobOK(j), j.at # "commit", Becomes(w, j)
    PROVE  Sound'
<1>1. TypeOK'
  BY WorkerMovesOn DEF Sound, TypeOK, JobOK, Quantity
<1>2. LocksHeld'
  BY WorkerMovesOn DEF Sound, TypeOK, LocksHeld
<1>3. ReferencesLive'
  BY DEF Sound, ReferencesLive, LiveRows
<1> QED
  BY <1>1, <1>2, <1>3 DEF Sound

\* Rows that are taken away take nothing with them.
LEMMA RowsDropped ==
    ASSUME Sound, UNCHANGED <<items, units, home>>,
           DOMAIN placed' = Assignments,
           \A a \in Assignments : placed'[a] \in {placed[a], None},
           placed' \in [Assignments -> Assignment \cup {None}],
           NEW w \in Workers, NEW j, JobOK(j), j.at # "commit", Becomes(w, j)
    PROVE  Sound'
<1>1. TypeOK'
  BY WorkerMovesOn DEF Sound, TypeOK, JobOK, Quantity
<1>2. LocksHeld'
  BY WorkerMovesOn DEF Sound, TypeOK, LocksHeld, LiveItems
<1>3. ReferencesLive'
  BY DEF Sound, ReferencesLive, LiveRows, LiveItems
<1> QED
  BY <1>1, <1>2, <1>3 DEF Sound

\* A row that the foreign keys accept is written.
LEMMA RowWritten ==
    ASSUME Sound, NEW a \in Assignments, NEW row \in Assignment, KeysAccept(row),
           placed' = [placed EXCEPT ![a] = row], UNCHANGED <<items, units, home>>,
           NEW w \in Workers, NEW j, JobOK(j), j.at # "commit", Becomes(w, j)
    PROVE  Sound'
<1>1. TypeOK'
  <2>1. placed' \in [Assignments -> Assignment \cup {None}]
    BY DEF Sound, TypeOK
  <2> QED
    BY <2>1, WorkerMovesOn DEF Sound, TypeOK, JobOK, Quantity
<1>2. LocksHeld'
  BY WorkerMovesOn DEF Sound, TypeOK, LocksHeld, LiveItems
<1>3. ReferencesLive'
  <2>1. ASSUME NEW b \in LiveRows'
        PROVE  /\ placed'[b].item \in LiveItems /\ placed'[b].unit \in units
               /\ placed'[b].room # None => home[placed'[b].room] # None
    <3>1. CASE b = a
      BY <3>1 DEF Sound, TypeOK, KeysAccept, LiveItems, Assignment
    <3>2. CASE b # a
      BY <3>2 DEF Sound, TypeOK, ReferencesLive, LiveRows
    <3> QED
      BY <3>1, <3>2
  <2> QED
    BY <2>1 DEF Sound, ReferencesLive, LiveItems
<1> QED
  BY <1>1, <1>2, <1>3 DEF Sound

LEMMA BeginSound == ASSUME Sound, NEW w \in Workers, Begin(w) PROVE Sound'
<1>1. ASSUME NEW i \in Items, NEW n \in Quantity, CreateItem(w, i, n)
      PROVE  Sound'
  <2>1. [total |-> n, status |-> "stored"] \in Item
    BY DEF Item, Status
  <2>2. items' \in [Items -> Item \cup {None}] /\ LiveItems \subseteq LiveItems'
    BY <1>1, <2>1 DEF CreateItem, Sound, TypeOK, LiveItems
  <2>3. JobOK(SyncOf(i, None)) /\ Becomes(w, SyncOf(i, None)) /\ SyncOf(i, None).at = "sync"
    BY <1>1, SyncOK DEF CreateItem, SyncOf
  <2> QED
    BY <1>1, <2>2, <2>3, ItemsKept DEF CreateItem
<1>2. ASSUME NEW i \in Items, NEW n \in Quantity \cup {Keep}, LoadToResize(w, i, n)
      PROVE  Sound'
  <2>1. JobOK([at |-> "resize", item |-> i, total |-> n, seen |-> items[i]])
    BY <1>2, LiveType DEF LoadToResize, JobOK, Sound
  <2> QED
    BY <1>2, <2>1, OwnStep DEF LoadToResize
<1>3. ASSUME NEW i \in Items, LoadToDiscard(w, i)
      PROVE  Sound'
  <2>1. JobOK([at |-> "discard", item |-> i])
    BY DEF JobOK
  <2> QED
    BY <1>3, <2>1, OwnStep DEF LoadToDiscard
<1>4. ASSUME NEW i \in Items, NEW c \in Creates, LoadToAssign(w, i, c)
      PROVE  Sound'
  <2> DEFINE want == [item |-> i, unit |-> c.unit, room |-> c.room, quantity |-> c.quantity]
             j == [at |-> "check", item |-> i, id |-> None, seen |-> None,
                   want |-> want, total |-> items[i].total]
  <2>1. want \in Assignment
    BY BodyAssumption DEF Create, Assignment
  <2>2. items[i].total \in Quantity
    BY <1>4, LiveType DEF LoadToAssign, Sound, Item
  <2>3. JobOK(j)
    BY <2>1, <2>2 DEF JobOK
  <2>4. Becomes(w, j) /\ UNCHANGED <<items, placed, units, home>> /\ j.at # "commit"
    BY <1>4 DEF LoadToAssign
  <2> HIDE DEF j
  <2> QED
    BY <2>3, <2>4, OwnStep
<1>5. ASSUME NEW a \in Assignments, NEW p \in Patches, LoadToMove(w, a, p)
      PROVE  Sound'
  <2> DEFINE j == [at |-> "check", item |-> placed[a].item, id |-> a,
                   seen |-> placed[a], want |-> Moved(placed[a], p),
                   total |-> items[placed[a].item].total]
  <2>1. placed[a] \in Assignment /\ Moved(placed[a], p) \in Assignment
    BY <1>5, LiveType, MovedType, BodyAssumption DEF LoadToMove, Sound
  <2>2. placed[a].item \in LiveItems
    BY <1>5 DEF LoadToMove, Sound, ReferencesLive
  <2>3. items[placed[a].item].total \in Quantity
    BY <2>2, LiveType DEF Sound, Item
  <2>4. JobOK(j)
    BY <2>1, <2>3 DEF JobOK, Assignment
  <2>5. Becomes(w, j) /\ UNCHANGED <<items, placed, units, home>> /\ j.at # "commit"
    BY <1>5 DEF LoadToMove
  <2> HIDE DEF j
  <2> QED
    BY <2>4, <2>5, OwnStep
<1>6. ASSUME NEW a \in Assignments, LoadToRemove(w, a)
      PROVE  Sound'
  <2>1. JobOK([at |-> "remove", item |-> placed[a].item, id |-> a])
    BY <1>6, LiveType DEF LoadToRemove, JobOK, Sound, Assignment
  <2> QED
    BY <1>6, <2>1, OwnStep DEF LoadToRemove
<1> QED
  BY <1>1, <1>2, <1>3, <1>4, <1>5, <1>6 DEF Begin

LEMMA ItemStepsSound ==
    ASSUME Sound, NEW w \in Workers, Resize(w) \/ Flush(w) \/ CommitItem(w) \/ Discard(w)
    PROVE  Sound'
<1> DEFINE i == job[w].item
<1>0. JobOK(job[w])
  BY DEF Sound, TypeOK
<1>1. ASSUME Resize(w)
      PROVE  Sound'
  <2> DEFINE j == [at |-> "flush", item |-> job[w].item, total |-> job[w].total,
                   seen |-> job[w].seen, sum |-> AssignedSum(job[w].item, {})]
  <2>1. JobOK(j)
    BY <1>0, <1>1 DEF Resize, JobOK
  <2>2. Becomes(w, j) /\ UNCHANGED <<items, placed, units, home>> /\ j.at # "commit"
    BY <1>1 DEF Resize
  <2> HIDE DEF j
  <2> QED
    BY <2>1, <2>2, OwnStep
<1>2. ASSUME Flush(w)
      PROVE  Sound'
  <2> DEFINE j == [at |-> "commit", item |-> job[w].item, total |-> job[w].total,
                   seen |-> job[w].seen, sum |-> job[w].sum,
                   count |-> Cardinality(RowsOf(job[w].item))]
  <2>1. JobOK(j)
    BY <1>0, <1>2 DEF Flush, JobOK
  <2>2. Becomes(w, j) /\ UNCHANGED <<items, placed, units, home>> /\ j.item \in LiveItems
    BY <1>2 DEF Flush
  <2> HIDE DEF j
  <2> QED
    BY <2>1, <2>2, OwnStep
<1>3. ASSUME CommitItem(w)
      PROVE  Sound'
  <2>1. i \in LiveItems /\ items[i] \in Item /\ i \in Items
    BY <1>3, LiveType DEF CommitItem, Sound, LocksHeld
  <2>2. ResizedItem(w) \in Item
    BY <1>0, <1>3, <2>1
       DEF CommitItem, JobOK, ResizedItem, Touched, Derived, Item, Status, Quantity
  <2>3. items' \in [Items -> Item \cup {None}] /\ LiveItems \subseteq LiveItems'
    BY <1>3, <2>1, <2>2 DEF CommitItem, Sound, TypeOK, LiveItems
  <2> QED
    BY <1>3, <2>3, IdleOK, ItemsKept DEF CommitItem, Idle
<1>4. ASSUME Discard(w)
      PROVE  Sound'
  <2>1. i \in Items /\ items' = [items EXCEPT ![i] = None]
    BY <1>0, <1>4 DEF Discard, JobOK
  <2>2. LiveItems' = LiveItems \ {i}
    BY <2>1 DEF LiveItems, Sound, TypeOK
  <2>3. /\ LiveRows' = {a \in LiveRows : placed[a].item # i}
        /\ \A a \in LiveRows' : placed'[a] = placed[a]
    BY <1>4 DEF Discard, LiveRows, RowsOf
  <2>4. /\ items' \in [Items -> Item \cup {None}]
        /\ placed' \in [Assignments -> Assignment \cup {None}]
    BY <1>4, <2>1 DEF Discard, Sound, TypeOK
  <2>5. TypeOK'
    BY <1>4, <2>4, WorkerMovesOn, IdleOK DEF Discard, Sound, TypeOK, JobOK, Quantity
  <2>6. LocksHeld'
    BY <1>4, <2>2, WorkerMovesOn, IdleOK
       DEF Discard, Sound, TypeOK, LocksHeld, Locked, Idle
  <2>7. ReferencesLive'
    BY <1>4, <2>2, <2>3 DEF Discard, Sound, ReferencesLive
  <2> QED
    BY <2>5, <2>6, <2>7 DEF Sound
<1> QED
  BY <1>1, <1>2, <1>3, <1>4

LEMMA RowStepsSound ==
    ASSUME Sound, NEW w \in Workers,
           CheckStock(w) \/ Move(w) \/ Remove(w) \/ \E a \in Assignments : Insert(w, a)
    PROVE  Sound'
<1>0. JobOK(job[w])
  BY DEF Sound, TypeOK
<1>1. ASSUME CheckStock(w)
      PROVE  Sound'
  <2> DEFINE j == [at |-> "write", item |-> job[w].item, id |-> job[w].id,
                   seen |-> job[w].seen, want |-> job[w].want,
                   total |-> job[w].total, sum |-> OthersSum(w)]
  <2>1. JobOK(j)
    BY <1>0, <1>1 DEF CheckStock, JobOK
  <2>2. Becomes(w, j) /\ UNCHANGED <<items, placed, units, home>> /\ j.at # "commit"
    BY <1>1 DEF CheckStock
  <2> HIDE DEF j
  <2> QED
    BY <2>1, <2>2, OwnStep
<1>2. ASSUME NEW a \in Assignments, Insert(w, a)
      PROVE  Sound'
  <2>1. job[w].item \in Items /\ job[w].want \in Assignment
    BY <1>0, <1>2 DEF Insert, JobOK
  <2>2. JobOK(SyncOf(job[w].item, a)) /\ SyncOf(job[w].item, a).at # "commit"
    BY <2>1, SyncOK DEF SyncOf
  <2> QED
    BY <1>2, <2>1, <2>2, RowWritten DEF Insert, InsertAccepted
<1>3. ASSUME Move(w)
      PROVE  Sound'
  <2>1. job[w].item \in Items /\ job[w].id \in Assignments
    BY <1>0, <1>3 DEF Move, JobOK
  <2>2. JobOK(SyncOf(job[w].item, job[w].id)) /\ SyncOf(job[w].item, job[w].id).at # "commit"
    BY <2>1, SyncOK DEF SyncOf
  <2>3. MovedRow(w) \in Assignment
    BY <1>3, MovedRowType DEF Move, Sound
  <2> QED
    BY <1>3, <2>1, <2>2, <2>3, RowWritten DEF Move, MoveAccepted
<1>4. ASSUME Remove(w)
      PROVE  Sound'
  <2>1. job[w].item \in Items /\ job[w].id \in Assignments
    BY <1>0, <1>4 DEF Remove, JobOK
  <2>2. JobOK(SyncOf(job[w].item, None)) /\ SyncOf(job[w].item, None).at # "commit"
    BY <2>1, SyncOK DEF SyncOf
  <2>3. /\ placed' \in [Assignments -> Assignment \cup {None}]
        /\ \A a \in Assignments : placed'[a] \in {placed[a], None}
    BY <1>4, <2>1 DEF Remove, Sound, TypeOK
  <2> QED
    BY <1>4, <2>2, <2>3, RowsDropped DEF Remove
<1> QED
  BY <1>1, <1>2, <1>3, <1>4

LEMMA SyncStepsSound ==
    ASSUME Sound, NEW w \in Workers,
           SyncLoad(w) \/ SyncCount(w) \/ SyncSave(w) \/ Refuse(w) \/ Stop(w)
    PROVE  Sound'
<1>0. JobOK(job[w])
  BY DEF Sound, TypeOK
<1>1. ASSUME SyncLoad(w)
      PROVE  Sound'
  <2>1. CASE items[job[w].item] = None
    BY <1>1, <2>1, IdleOK, OwnStep DEF SyncLoad, Idle
  <2>2. CASE items[job[w].item] # None
    <3>1. job[w].item \in LiveItems
      BY <1>0, <1>1, <2>2 DEF SyncLoad, JobOK, LiveItems
    <3>2. JobOK([at |-> "count", item |-> job[w].item, seen |-> items[job[w].item]])
      BY <3>1, LiveType DEF JobOK, Sound
    <3> QED
      BY <1>1, <2>2, <3>2, OwnStep DEF SyncLoad
  <2> QED
    BY <2>1, <2>2
<1>2. ASSUME SyncCount(w)
      PROVE  Sound'
  <2> DEFINE j == [at |-> "save", item |-> job[w].item, seen |-> job[w].seen,
                   count |-> Cardinality(RowsOf(job[w].item))]
  <2>1. JobOK(j)
    BY <1>0, <1>2 DEF SyncCount, JobOK
  <2>2. Becomes(w, j) /\ UNCHANGED <<items, placed, units, home>> /\ j.at # "commit"
    BY <1>2 DEF SyncCount
  <2> HIDE DEF j
  <2> QED
    BY <2>1, <2>2, OwnStep
<1>3. ASSUME SyncSave(w)
      PROVE  Sound'
  <2> DEFINE i == job[w].item
             row == [items[i] EXCEPT !.status = SyncedStatus(w)]
  <2>1. i \in LiveItems /\ items[i] \in Item /\ i \in Items
    BY <1>3, LiveType DEF SyncSave, Sound
  <2>2. SyncedStatus(w) \in Status
    BY <2>1 DEF SyncedStatus, Touched, Derived, Item, Status
  <2>3. row \in Item
    BY <2>1, <2>2 DEF Item
  <2>4. items' = [items EXCEPT ![i] = row]
    BY <1>3 DEF SyncSave
  <2> HIDE DEF row
  <2>5. items' \in [Items -> Item \cup {None}] /\ LiveItems \subseteq LiveItems'
    BY <2>1, <2>3, <2>4 DEF Sound, TypeOK, LiveItems
  <2> QED
    BY <1>3, <2>5, IdleOK, ItemsKept DEF SyncSave, Idle
<1>4. ASSUME Stop(w)
      PROVE  Sound'
  BY <1>4, IdleOK, OwnStep DEF Stop, Idle
<1> QED
  BY <1>1, <1>2, <1>3, <1>4 DEF Refuse

\* The steps of other components.
LEMMA ElsewhereSound ==
    ASSUME Sound,
           \/ \E r \in Rooms : DeleteRoom(r) \/ \E u \in Units : MoveRoom(r, u)
           \/ \E u \in Units : DeleteUnit(u)
    PROVE  Sound'
<1>1. ASSUME NEW r \in Rooms, DeleteRoom(r)
      PROVE  Sound'
  <2>1. \A a \in LiveRows : [placed[a] EXCEPT !.room = None] \in Assignment
    BY LiveType DEF Sound, Assignment
  <2>2. placed' \in [Assignments -> Assignment \cup {None}]
    BY <1>1, <2>1 DEF DeleteRoom, RoomCleared, Sound, TypeOK
  <2>3. LiveRows' = LiveRows
    BY <1>1, <2>1 DEF DeleteRoom, RoomCleared, LiveRows
  <2>4. \A a \in LiveRows : /\ placed'[a].item = placed[a].item /\ placed'[a].unit = placed[a].unit
                            /\ placed'[a].room = IF placed[a].room = r THEN None ELSE placed[a].room
    BY <1>1, LiveType DEF DeleteRoom, RoomCleared, LiveRows, Sound, Assignment
  <2>5. /\ home' \in [Rooms -> Units \cup {None}]
        /\ \A q \in Rooms : home'[q] = IF q = r THEN None ELSE home[q]
    BY <1>1 DEF DeleteRoom, Sound, TypeOK
  <2>6. TypeOK' /\ LocksHeld'
    BY <1>1, <2>2, <2>5 DEF DeleteRoom, Sound, TypeOK, LocksHeld, LiveItems
  <2>7. ReferencesLive'
    BY <1>1, <2>3, <2>4, <2>5, LiveType
       DEF DeleteRoom, Sound, ReferencesLive, LiveItems, Assignment
  <2> QED
    BY <2>6, <2>7 DEF Sound
<1>2. ASSUME NEW r \in Rooms, NEW u \in Units, MoveRoom(r, u)
      PROVE  Sound'
  <2>1. /\ home' \in [Rooms -> Units \cup {None}]
        /\ \A q \in Rooms : home'[q] = IF q = r THEN u ELSE home[q]
    BY <1>2 DEF MoveRoom, Sound, TypeOK
  <2>2. TypeOK' /\ LocksHeld'
    BY <1>2, <2>1 DEF MoveRoom, Sound, TypeOK, LocksHeld, LiveItems
  <2>3. ReferencesLive'
    BY <1>2, <2>1, LiveType DEF MoveRoom, Sound, ReferencesLive, LiveItems, LiveRows, Assignment
  <2> QED
    BY <2>2, <2>3 DEF Sound
<1>3. ASSUME NEW u \in Units, DeleteUnit(u)
      PROVE  Sound'
  <2>1. /\ LiveRows' = {a \in LiveRows : placed[a].unit # u}
        /\ \A a \in LiveRows' : placed'[a] = placed[a]
    BY <1>3 DEF DeleteUnit, LiveRows
  <2>2. placed' \in [Assignments -> Assignment \cup {None}] /\ units' \subseteq Units
    BY <1>3 DEF DeleteUnit, Sound, TypeOK
  <2>3. TypeOK' /\ LocksHeld'
    BY <1>3, <2>2 DEF DeleteUnit, Sound, TypeOK, LocksHeld, LiveItems
  <2>4. ReferencesLive'
    BY <1>3, <2>1 DEF DeleteUnit, Sound, ReferencesLive, LiveItems
  <2> QED
    BY <2>3, <2>4 DEF Sound
<1> QED
  BY <1>1, <1>2, <1>3

LEMMA NextSound == Sound /\ [Next]_vars => Sound'
<1> SUFFICES ASSUME Sound, [Next]_vars PROVE Sound'
  OBVIOUS
<1>1. ASSUME NEW w \in Workers, Begin(w) \/ Proceed(w) \/ Stop(w)
      PROVE  Sound'
  BY <1>1, BeginSound, ItemStepsSound, RowStepsSound, SyncStepsSound DEF Proceed
<1>2. ASSUME UNCHANGED vars
      PROVE  Sound'
  BY <1>2 DEF vars, Sound, TypeOK, LocksHeld, ReferencesLive, LiveItems, LiveRows
<1> QED
  BY <1>1, <1>2, ElsewhereSound DEF Next

\* Every reachable state is type correct: rows have the shape of their tables, and the
\* row that a worker is about to commit, its item and its lock are there.
THEOREM InventoryTypeCorrect == Spec => []TypeOK
<1>1. Sound => TypeOK
  BY DEF Sound
<1> QED
  BY <1>1, InitSound, NextSound, PTL DEF Spec

\* No assignment outlives its item, its unit or its room, and no room its unit,
\* whatever falls between the checks and the commit of a request.
THEOREM NoDanglingAssignment == Spec => []ReferencesLive
<1>1. Sound => ReferencesLive
  BY DEF Sound
<1> QED
  BY <1>1, InitSound, NextSound, PTL DEF Spec

-------------------------------------------------------------------------------
(***************************************************************************)
(* What a step can do to the table of assignments.                         *)
(***************************************************************************)

\* Every other step leaves the assignments alone.
LEMMA RowsChange ==
    ASSUME [Next]_vars
    PROVE  \/ UNCHANGED placed
           \/ \E w \in Workers :
                 \/ Discard(w) \/ Move(w) \/ Remove(w)
                 \/ \E a \in Assignments : Insert(w, a)
           \/ \E r \in Rooms : DeleteRoom(r)
           \/ \E u \in Units : DeleteUnit(u)
<1>1. ASSUME NEW w \in Workers, Begin(w)
      PROVE  UNCHANGED placed
  BY <1>1 DEF Begin, CreateItem, LoadToResize, LoadToDiscard, LoadToAssign, LoadToMove, LoadToRemove
<1>2. ASSUME NEW w \in Workers, Proceed(w)
      PROVE  \/ UNCHANGED placed
             \/ Discard(w) \/ Move(w) \/ Remove(w) \/ \E a \in Assignments : Insert(w, a)
  BY <1>2 DEF Proceed, Resize, Flush, CommitItem, CheckStock, SyncLoad, SyncCount, SyncSave,
              Refuse, Stop
<1>3. ASSUME UNCHANGED vars \/ \E w \in Workers : Stop(w)
      PROVE  UNCHANGED placed
  BY <1>3 DEF vars, Stop
<1>4. ASSUME NEW r \in Rooms, NEW u \in Units, MoveRoom(r, u)
      PROVE  UNCHANGED placed
  BY <1>4 DEF MoveRoom
<1> QED
  BY <1>1, <1>2, <1>3, <1>4 DEF Next

-------------------------------------------------------------------------------
(***************************************************************************)
(* One row for each slot.  The index compares a row that is written with    *)
(* the others, and the ones that a deleted room drops into the unit with    *)
(* each other.                                                             *)
(***************************************************************************)

\* A row is written where the index accepts it.
LEMMA WrittenDistinct ==
    ASSUME TypeOK, SlotsDistinct, NEW a \in Assignments, NEW row \in Assignment,
           IndexAccepts(placed, a, row), placed' = [placed EXCEPT ![a] = row]
    PROVE  SlotsDistinct'
<1> SUFFICES ASSUME NEW b \in LiveRows', NEW c \in LiveRows', b # c
             PROVE  ~SameSlot(placed'[b], placed'[c])
  BY DEF SlotsDistinct, SameSlot
<1>1. CASE b # a /\ c # a
  BY <1>1 DEF TypeOK, SlotsDistinct, LiveRows, SameSlot
<1>2. CASE b = a
  BY <1>2 DEF TypeOK, LiveRows, IndexAccepts, SameSlot
<1>3. CASE c = a
  BY <1>3 DEF TypeOK, LiveRows, IndexAccepts, SameSlot
<1> QED
  BY <1>1, <1>2, <1>3

LEMMA NextSlotsDistinct ==
    Sound /\ SlotsDistinct /\ [Next]_vars => SlotsDistinct'
<1> SUFFICES ASSUME Sound, SlotsDistinct, [Next]_vars
             PROVE  SlotsDistinct'
  OBVIOUS
<1>0. TypeOK
  BY DEF Sound
<1>1. ASSUME UNCHANGED placed
      PROVE  SlotsDistinct'
  BY <1>1 DEF SlotsDistinct, LiveRows
<1>2. ASSUME \A a \in Assignments : placed'[a] \in {placed[a], None}
      PROVE  SlotsDistinct'
  BY <1>2 DEF SlotsDistinct, LiveRows
<1>3. ASSUME NEW w \in Workers, Discard(w) \/ Remove(w)
      PROVE  \A a \in Assignments : placed'[a] \in {placed[a], None}
  BY <1>0, <1>3 DEF Discard, Remove, TypeOK
<1>4. ASSUME NEW u \in Units, DeleteUnit(u)
      PROVE  \A a \in Assignments : placed'[a] \in {placed[a], None}
  BY <1>4 DEF DeleteUnit
<1>5. ASSUME NEW w \in Workers, NEW a \in Assignments, Insert(w, a)
      PROVE  SlotsDistinct'
  <2>1. job[w].want \in Assignment
    BY <1>0, <1>5 DEF Insert, TypeOK, JobOK
  <2> QED
    BY <1>0, <1>5, <2>1, WrittenDistinct DEF Insert, InsertAccepted
<1>6. ASSUME NEW w \in Workers, Move(w)
      PROVE  SlotsDistinct'
  <2>1. job[w].id \in Assignments /\ MovedRow(w) \in Assignment
    BY <1>0, <1>6, MovedRowType DEF Move, LiveRows
  <2> QED
    BY <1>0, <1>6, <2>1, WrittenDistinct DEF Move, MoveAccepted
<1>7. ASSUME NEW r \in Rooms, DeleteRoom(r)
      PROVE  SlotsDistinct'
  <2>1. LiveRows' = LiveRows /\ placed' = RoomCleared(r)
    BY <1>7, LiveType, <1>0 DEF DeleteRoom, RoomCleared, LiveRows, Assignment
  <2> SUFFICES ASSUME NEW b \in LiveRows, NEW c \in LiveRows, b # c
               PROVE  ~SameSlot(placed'[b], placed'[c])
    BY <2>1 DEF SlotsDistinct, SameSlot
  <2>2. b \in Assignments /\ c \in Assignments /\ placed'[b] # None /\ placed'[c] # None
    BY <2>1 DEF LiveRows
  <2>3. CASE placed[b].room = r
    <3>1. IndexAccepts(placed', b, placed'[b])
      BY <1>7, <2>1, <2>3 DEF DeleteRoom
    <3> QED
      BY <2>2, <3>1 DEF IndexAccepts, SameSlot
  <2>4. CASE placed[c].room = r
    <3>1. IndexAccepts(placed', c, placed'[c])
      BY <1>7, <2>1, <2>4 DEF DeleteRoom
    <3> QED
      BY <2>2, <3>1 DEF IndexAccepts, SameSlot
  <2>5. CASE placed[b].room # r /\ placed[c].room # r
    <3>1. placed'[b] = placed[b] /\ placed'[c] = placed[c]
      BY <2>1, <2>2, <2>5 DEF RoomCleared
    <3> QED
      BY <3>1 DEF SlotsDistinct, SameSlot
  <2> QED
    BY <2>3, <2>4, <2>5
<1> QED
  BY <1>1, <1>2, <1>3, <1>4, <1>5, <1>6, <1>7, RowsChange

\* One row for each item, unit and room, also when a deleted room drops its rows into
\* the unit, and whatever two requests write at once.
THEOREM OneRowPerSlot == Spec => []SlotsDistinct
<1>1. Init => SlotsDistinct
  BY DEF Init, SlotsDistinct, LiveRows
<1> QED
  BY <1>1, InitSound, NextSound, NextSlotsDistinct, PTL DEF Spec

-------------------------------------------------------------------------------
(***************************************************************************)
(* What a request writes, it was asked to write.                           *)
(***************************************************************************)

\* The body of NoForeignRevert.
OwnColumnsOnly ==
    \A a \in LiveRows, f \in {"unit", "quantity"} :
        placed'[a] # None /\ placed'[a][f] # placed[a][f] =>
            \E w \in Workers :
                /\ At(w, "write") /\ job[w].id = a
                /\ job[w].want[f] = placed'[a][f]
                /\ job[w].seen[f] # placed'[a][f]

LEMMA StepWritesOwnColumns == Sound /\ [Next]_vars => OwnColumnsOnly
<1> SUFFICES ASSUME Sound, [Next]_vars,
                    NEW a \in LiveRows, NEW f \in {"unit", "quantity"},
                    placed'[a] # None, placed'[a][f] # placed[a][f]
             PROVE  \E w \in Workers : /\ At(w, "write") /\ job[w].id = a
                                       /\ job[w].want[f] = placed'[a][f]
                                       /\ job[w].seen[f] # placed'[a][f]
  BY DEF OwnColumnsOnly
<1>0. TypeOK /\ a \in Assignments /\ placed[a] \in Assignment
  BY LiveType DEF Sound
<1>1. ASSUME placed'[a] \in {placed[a], None}
      PROVE  FALSE
  BY <1>1
<1>2. ASSUME NEW w \in Workers, Discard(w) \/ Remove(w)
      PROVE  FALSE
  BY <1>0, <1>1, <1>2 DEF Discard, Remove, TypeOK
<1>3. ASSUME NEW u \in Units, DeleteUnit(u)
      PROVE  FALSE
  BY <1>0, <1>1, <1>3 DEF DeleteUnit
<1>4. ASSUME NEW r \in Rooms, DeleteRoom(r)
      PROVE  FALSE
  BY <1>0, <1>4 DEF DeleteRoom, RoomCleared, Assignment
<1>5. ASSUME NEW w \in Workers, NEW b \in Assignments, Insert(w, b)
      PROVE  FALSE
  <2>1. b # a
    BY <1>5 DEF Insert, InsertAccepted, UnusedRow, LiveRows
  <2> QED
    BY <1>0, <1>1, <1>5, <2>1 DEF Insert, TypeOK
<1>6. ASSUME NEW w \in Workers, Move(w)
      PROVE  /\ At(w, "write") /\ job[w].id = a
             /\ job[w].want[f] = placed'[a][f]
             /\ job[w].seen[f] # placed'[a][f]
  <2>1. job[w].id = a
    BY <1>0, <1>1, <1>6 DEF Move, TypeOK
  <2>2. placed'[a] = UpdatedRow(job[w].seen, job[w].want, placed[a])
    BY <1>0, <1>6, <2>1 DEF Move, MovedRow, TypeOK
  <2>3. placed'[a][f] = Touched(job[w].seen[f], job[w].want[f], placed[a][f])
    BY <2>2 DEF UpdatedRow
  <2> QED
    BY <1>6, <2>1, <2>3 DEF Move, Touched
<1> QED
  BY <1>1, <1>2, <1>3, <1>4, <1>5, <1>6, RowsChange

\* A request changes a column of an assignment only to what it was asked for: what
\* another one has committed since is not put back.
THEOREM RowsNotReverted == Spec => NoForeignRevert
<1>1. Sound /\ [Next]_vars => [OwnColumnsOnly]_vars
  BY StepWritesOwnColumns
<1>2. Spec => [][OwnColumnsOnly]_vars
  BY <1>1, InitSound, NextSound, PTL DEF Spec
<1> QED
  BY <1>2 DEF NoForeignRevert, OwnColumnsOnly

-------------------------------------------------------------------------------
(***************************************************************************)
(* The status is only spoiled by an old count.                             *)
(***************************************************************************)

\* The body of StatusSpoiledOnlyByOldCount.
SpoiledByOldCount ==
    \A i \in LiveItems :
        i \in LiveItems' /\ placed' = placed /\ StatusRight(i) /\ ~StatusRight(i)' =>
            \E w \in Workers :
                /\ At(w, "commit") \/ At(w, "save")
                /\ job[w].item = i
                /\ job[w].count # Cardinality(RowsOf(i))

\* A count that is right gives the status that is right.
LEMMA CountedStatus ==
    ASSUME NEW i
    PROVE  Derived(Cardinality(RowsOf(i))) = "active" <=> RowsOf(i) # {}
<1>1. IsFiniteSet(RowsOf(i))
  BY FiniteAssumption, FS_Subset DEF RowsOf, LiveRows
<1>2. Cardinality(RowsOf(i)) \in Nat /\ (Cardinality(RowsOf(i)) = 0 <=> RowsOf(i) = {})
  BY <1>1, FS_CardinalityType, FS_EmptySet
<1> QED
  BY <1>2 DEF Derived

\* The steps that touch the table of items.
LEMMA ItemsChange ==
    ASSUME [Next]_vars
    PROVE  \/ UNCHANGED items
           \/ \E w \in Workers :
                 \/ CommitItem(w) \/ SyncSave(w) \/ Discard(w)
                 \/ \E i \in Items : \E n \in Quantity : CreateItem(w, i, n)
<1>1. ASSUME NEW w \in Workers, Begin(w)
      PROVE  UNCHANGED items \/ \E k \in Items : \E n \in Quantity : CreateItem(w, k, n)
  BY <1>1 DEF Begin, LoadToResize, LoadToDiscard, LoadToAssign, LoadToMove, LoadToRemove
<1>2. ASSUME NEW w \in Workers, Proceed(w)
      PROVE  UNCHANGED items \/ CommitItem(w) \/ SyncSave(w) \/ Discard(w)
  BY <1>2 DEF Proceed, Resize, Flush, CheckStock, Move, Remove, Insert, SyncLoad, SyncCount,
              Refuse, Stop
<1>3. ASSUME \/ UNCHANGED vars \/ \E w \in Workers : Stop(w)
             \/ \E r \in Rooms : DeleteRoom(r) \/ \E u \in Units : MoveRoom(r, u)
             \/ \E u \in Units : DeleteUnit(u)
      PROVE  UNCHANGED items
  BY <1>3 DEF vars, Stop, DeleteRoom, MoveRoom, DeleteUnit
<1> QED
  BY <1>1, <1>2, <1>3 DEF Next

\* A step that writes a status writes the one it has derived, or leaves it.
LEMMA StatusWritten ==
    ASSUME Sound, [Next]_vars, NEW i \in LiveItems, i \in LiveItems',
           items'[i].status # items[i].status
    PROVE  \E w \in Workers : /\ At(w, "commit") \/ At(w, "save")
                              /\ job[w].item = i
                              /\ items'[i].status = Derived(job[w].count)
<1>0. TypeOK /\ i \in Items /\ items[i] \in Item
  BY LiveType DEF Sound
<1>1. ASSUME NEW w \in Workers, CommitItem(w)
      PROVE  /\ At(w, "commit") /\ job[w].item = i
             /\ items'[i].status = Derived(job[w].count)
  <2>1. job[w].item = i
    BY <1>0, <1>1 DEF CommitItem, TypeOK
  <2>2. items'[i] = ResizedItem(w)
    BY <1>0, <1>1, <2>1 DEF CommitItem, TypeOK
  <2> QED
    BY <1>1, <2>1, <2>2 DEF CommitItem, ResizedItem, Touched
<1>2. ASSUME NEW w \in Workers, SyncSave(w)
      PROVE  /\ At(w, "save") /\ job[w].item = i
             /\ items'[i].status = Derived(job[w].count)
  <2>1. job[w].item = i
    BY <1>0, <1>2 DEF SyncSave, TypeOK
  <2>2. items'[i].status = SyncedStatus(w)
    BY <1>0, <1>2, <2>1 DEF SyncSave, TypeOK, Item
  <2> QED
    BY <1>2, <2>1, <2>2 DEF SyncSave, SyncedStatus, Touched
<1>3. ASSUME NEW w \in Workers, NEW k \in Items, NEW n \in Quantity, CreateItem(w, k, n)
      PROVE  FALSE
  <2>1. k # i
    BY <1>3 DEF CreateItem, UnusedItem, LiveItems
  <2> QED
    BY <1>0, <1>3, <2>1 DEF CreateItem, TypeOK
<1>4. ASSUME NEW w \in Workers, Discard(w)
      PROVE  FALSE
  BY <1>0, <1>4 DEF Discard, TypeOK, LiveItems
<1>5. ASSUME UNCHANGED items
      PROVE  FALSE
  BY <1>5
<1> QED
  BY <1>1, <1>2, <1>3, <1>4, <1>5, ItemsChange

LEMMA StepSpoilsByOldCount == Sound /\ [Next]_vars => SpoiledByOldCount
<1> SUFFICES ASSUME Sound, [Next]_vars,
                    NEW i \in LiveItems, i \in LiveItems', placed' = placed,
                    StatusRight(i), ~StatusRight(i)'
             PROVE  \E w \in Workers : /\ At(w, "commit") \/ At(w, "save")
                                       /\ job[w].item = i
                                       /\ job[w].count # Cardinality(RowsOf(i))
  BY DEF SpoiledByOldCount
<1>1. RowsOf(i)' = RowsOf(i)
  BY DEF RowsOf, LiveRows
<1>2. items'[i].status # items[i].status
  BY <1>1 DEF StatusRight
<1>3. PICK w \in Workers : /\ At(w, "commit") \/ At(w, "save")
                           /\ job[w].item = i
                           /\ items'[i].status = Derived(job[w].count)
  BY <1>2, StatusWritten
<1>4. ~(Derived(job[w].count) = "active" <=> RowsOf(i) # {})
  BY <1>1, <1>3 DEF StatusRight
<1> QED
  BY <1>3, <1>4, CountedStatus

\* A status that is right goes wrong under rows that stay only by a request that saves
\* it from a count it made before they changed.
THEOREM StatusNeedsOldCount == Spec => StatusSpoiledOnlyByOldCount
<1>1. Sound /\ [Next]_vars => [SpoiledByOldCount]_vars
  BY StepSpoilsByOldCount
<1>2. Spec => [][SpoiledByOldCount]_vars
  BY <1>1, InitSound, NextSound, PTL DEF Spec
<1> QED
  BY <1>2 DEF StatusSpoiledOnlyByOldCount, SpoiledByOldCount
-------------------------------------------------------------------------------
(***************************************************************************)
(* Sums of quantities.  AssignedSum folds over a set: it takes one element  *)
(* after the other, in an order it chooses.  What the fold computes is      *)
(* shown by induction on the size of the set, written with sets of numbers. *)
(***************************************************************************)

LEMMA AllNaturals ==
    ASSUME NEW K \in SUBSET Nat, 0 \in K, \A n \in K : n + 1 \in K
    PROVE  K = Nat
<1> DEFINE R == {ss \in Nat \X Nat : ss[1] < ss[2]}
<1>1. IsWellFoundedOn(R, Nat)
  BY NatLessThanWellFounded DEF OpToRel
<1>2. \A x \in Nat, y \in Nat : <<y, x>> \notin R => ~(y < x)
  OBVIOUS
<1> HIDE DEF R
<1>3. ASSUME Nat \ K # {}
      PROVE  FALSE
  <2>1. PICK x \in Nat \ K : \A y \in Nat \ K : ~ (<<y, x>> \in R)
    BY <1>1, <1>3, WFMin
  <2>2. x - 1 \in Nat /\ x - 1 < x /\ (x - 1) + 1 = x
    BY <2>1
  <2>3. x - 1 \in K
    BY <1>2, <2>1, <2>2
  <2> QED
    BY <2>1, <2>2, <2>3
<1> QED
  BY <1>3

\* A set of subsets of T that holds each one of which it holds the smaller ones.
LEMMA AllSubsets ==
    ASSUME NEW T, IsFiniteSet(T), NEW X \in SUBSET (SUBSET T),
           \A s \in SUBSET T : (\A r \in SUBSET s : r # s => r \in X) => s \in X
    PROVE  X = SUBSET T
<1> DEFINE Upto(n) == {s \in SUBSET T : Cardinality(s) <= n}
           K       == {n \in Nat : Upto(n) \subseteq X}
<1>1. \A s \in SUBSET T : IsFiniteSet(s) /\ Cardinality(s) \in Nat
  BY FS_Subset, FS_CardinalityType
<1>2. \A s \in SUBSET T : \A r \in SUBSET s : r # s => Cardinality(r) < Cardinality(s)
  <2> SUFFICES ASSUME NEW s \in SUBSET T, NEW r \in SUBSET s, r # s
               PROVE  Cardinality(r) < Cardinality(s)
    OBVIOUS
  <2>1. Cardinality(r) <= Cardinality(s) /\ (Cardinality(s) = Cardinality(r) => s = r)
    BY <1>1, FS_Subset
  <2>2. Cardinality(r) \in Nat /\ Cardinality(s) \in Nat
    BY <1>1
  <2> QED
    BY <2>1, <2>2
<1>3. 0 \in K
  <2> SUFFICES ASSUME NEW s \in SUBSET T, Cardinality(s) <= 0
               PROVE  s \in X
    OBVIOUS
  <2>1. \A r \in SUBSET s : r # s => FALSE
    <3> SUFFICES ASSUME NEW r \in SUBSET s, r # s PROVE FALSE
      OBVIOUS
    <3>1. Cardinality(r) < Cardinality(s) /\ Cardinality(r) \in Nat /\ Cardinality(s) \in Nat
      BY <1>1, <1>2
    <3> QED
      BY <3>1
  <2> QED
    BY <2>1
<1>4. ASSUME NEW n \in K
      PROVE  n + 1 \in K
  <2> SUFFICES ASSUME NEW s \in SUBSET T, Cardinality(s) <= n + 1
               PROVE  s \in X
    OBVIOUS
  <2>1. ASSUME NEW r \in SUBSET s, r # s
        PROVE  r \in X
    <3>1. Cardinality(r) < Cardinality(s) /\ Cardinality(r) \in Nat /\ Cardinality(s) \in Nat
      BY <1>1, <1>2, <2>1
    <3>2. Cardinality(r) <= n
      BY <3>1
    <3> QED
      BY <3>2
  <2> QED
    BY <2>1
<1> HIDE DEF K
<1>5. K = Nat
  <2>1. K \in SUBSET Nat
    BY DEF K
  <2> QED
    BY <1>3, <1>4, <2>1, AllNaturals
<1>6. ASSUME NEW s \in SUBSET T
      PROVE  s \in X
  <2>1. Cardinality(s) \in K
    BY <1>1, <1>5
  <2>2. Cardinality(s) <= Cardinality(s)
    BY <1>1
  <2> QED
    BY <2>1, <2>2 DEF K
<1> QED
  BY <1>6

\* The fold, and the table of its values over the subsets of a set.
SumOf(p, S) == MapThenSumSet(LAMBDA a : p[a].quantity, S)

Taken(s)    == CHOOSE a \in s : TRUE
Rest(s)     == s \ {Taken(s)}
Row(p, f, s) == IF s = {} THEN 0 ELSE p[Taken(s)].quantity + f[Rest(s)]
Sums(p, T)  == CHOOSE f : f = [s \in SUBSET T |-> Row(p, f, s)]

LEMMA SumIsInTable ==
    ASSUME NEW p, NEW T
    PROVE  SumOf(p, T) = Sums(p, T)[T]
BY DEF SumOf, Sums, Row, Rest, Taken, MapThenSumSet, MapThenFoldSet

LEMMA TakenIsIn ==
    ASSUME NEW s, s # {}
    PROVE  Taken(s) \in s
BY DEF Taken

\* There is such a table.
LEMMA TableExists ==
    ASSUME NEW p, NEW T, IsFiniteSet(T)
    PROVE  \A s \in SUBSET T : Sums(p, T)[s] = Row(p, Sums(p, T), s)
<1> DEFINE Upto(n) == {s \in SUBSET T : Cardinality(s) <= n}
           Table(g, n) == g = [s \in Upto(n) |-> Row(p, g, s)]
           K       == {n \in Nat : \E g : Table(g, n)}
<1>1. \A s \in SUBSET T : /\ IsFiniteSet(s) /\ Cardinality(s) \in Nat
                          /\ Cardinality(s) <= Cardinality(T)
                          /\ Cardinality(s) = 0 => s = {}
  BY FS_Subset, FS_CardinalityType, FS_EmptySet
<1>2. \A n \in Nat : \A s \in Upto(n + 1) : s # {} => Rest(s) \in Upto(n)
  <2> SUFFICES ASSUME NEW n \in Nat, NEW s \in Upto(n + 1), s # {}
               PROVE  Rest(s) \in Upto(n)
    OBVIOUS
  <2>1. Cardinality(Rest(s)) = Cardinality(s) - 1
    BY <1>1, TakenIsIn, FS_RemoveElement DEF Rest
  <2>2. Rest(s) \in SUBSET T
    BY DEF Rest
  <2> QED
    BY <1>1, <2>1, <2>2
<1>3. \A n \in Nat : Upto(n) \subseteq Upto(n + 1)
  <2> SUFFICES ASSUME NEW n \in Nat, NEW s \in Upto(n)
               PROVE  s \in Upto(n + 1)
    OBVIOUS
  <2> QED
    BY <1>1
<1>4. \A s \in Upto(0) : s = {}
  BY <1>1
<1> HIDE DEF Upto
<1>5. 0 \in K
  <2> DEFINE g == [s \in Upto(0) |-> 0]
  <2>1. \A s \in Upto(0) : Row(p, g, s) = 0
    BY <1>4 DEF Row
  <2>2. g = [s \in Upto(0) |-> Row(p, g, s)]
    BY <2>1
  <2> QED
    BY <2>2
<1>6. ASSUME NEW n \in K
      PROVE  n + 1 \in K
  <2>1. PICK g : g = [s \in Upto(n) |-> Row(p, g, s)]
    OBVIOUS
  <2> DEFINE h == [s \in Upto(n + 1) |-> Row(p, g, s)]
  <2>2. \A s \in Upto(n) : h[s] = g[s]
    BY <1>3, <2>1
  <2> HIDE DEF h
  <2>3. \A s \in Upto(n + 1) : Row(p, g, s) = Row(p, h, s)
    BY <1>2, <2>2 DEF Row
  <2>4. h = [s \in Upto(n + 1) |-> Row(p, h, s)]
    BY <2>3 DEF h
  <2> QED
    BY <2>4
<1>7. \E g : g = [s \in SUBSET T |-> Row(p, g, s)]
  <2>1. K \in SUBSET Nat
    OBVIOUS
  <2>2. Cardinality(T) \in K
    <3> HIDE DEF K
    <3> QED
      BY <1>1, <1>5, <1>6, <2>1, AllNaturals
  <2>3. Upto(Cardinality(T)) = SUBSET T
    BY <1>1 DEF Upto
  <2> QED
    BY <2>2, <2>3
<1>8. Sums(p, T) = [s \in SUBSET T |-> Row(p, Sums(p, T), s)]
  BY <1>7 DEF Sums
<1> QED
  BY <1>8

\* The table of one set agrees with the table of another, as far as their quantities do.
LEMMA TablesAgree ==
    ASSUME NEW p, NEW q, NEW T, NEW U, IsFiniteSet(T), IsFiniteSet(U),
           NEW S \in SUBSET (T \cap U), \A a \in S : p[a].quantity = q[a].quantity
    PROVE  Sums(p, T)[S] = Sums(q, U)[S]
<1> DEFINE X == {s \in SUBSET S : Sums(p, T)[s] = Sums(q, U)[s]}
<1>1. IsFiniteSet(S)
  BY FS_Subset
<1>2. ASSUME NEW s \in SUBSET S, \A r \in SUBSET s : r # s => r \in X
      PROVE  s \in X
  <2>1. /\ Sums(p, T)[s] = Row(p, Sums(p, T), s)
        /\ Sums(q, U)[s] = Row(q, Sums(q, U), s)
    BY TableExists
  <2>2. CASE s = {}
    BY <2>1, <2>2 DEF Row
  <2>3. CASE s # {}
    <3>1. Taken(s) \in s /\ Rest(s) \in SUBSET s /\ Rest(s) # s
      BY <2>3, TakenIsIn DEF Rest
    <3>2. Sums(p, T)[Rest(s)] = Sums(q, U)[Rest(s)]
      BY <1>2, <3>1
    <3>3. p[Taken(s)].quantity = q[Taken(s)].quantity
      BY <3>1
    <3> QED
      BY <2>1, <2>3, <3>2, <3>3 DEF Row
  <2> QED
    BY <2>2, <2>3
<1>3. X \in SUBSET (SUBSET S)
  OBVIOUS
<1> HIDE DEF X
<1>4. X = SUBSET S
  BY <1>1, <1>2, <1>3, AllSubsets
<1> QED
  BY <1>4 DEF X

\* A sum of numbers is a number.
LEMMA SumIsNumber ==
    ASSUME NEW p, NEW T, IsFiniteSet(T), \A a \in T : p[a].quantity \in Nat
    PROVE  \A s \in SUBSET T : Sums(p, T)[s] \in Nat
<1> DEFINE X == {s \in SUBSET T : Sums(p, T)[s] \in Nat}
<1>1. ASSUME NEW s \in SUBSET T, \A r \in SUBSET s : r # s => r \in X
      PROVE  s \in X
  <2>1. Sums(p, T)[s] = Row(p, Sums(p, T), s)
    BY TableExists
  <2>2. CASE s = {}
    BY <2>1, <2>2 DEF Row
  <2>3. CASE s # {}
    <3>1. Taken(s) \in s /\ Rest(s) \in SUBSET s /\ Rest(s) # s
      BY <2>3, TakenIsIn DEF Rest
    <3>2. Sums(p, T)[Rest(s)] \in Nat /\ p[Taken(s)].quantity \in Nat
      BY <1>1, <3>1
    <3> QED
      BY <2>1, <2>3, <3>2 DEF Row
  <2> QED
    BY <2>2, <2>3
<1>2. X \in SUBSET (SUBSET T)
  OBVIOUS
<1> HIDE DEF X
<1>3. X = SUBSET T
  BY <1>1, <1>2, AllSubsets
<1> QED
  BY <1>3 DEF X

\* Any element may be taken first.
LEMMA AnyFirst ==
    ASSUME NEW p, NEW T, IsFiniteSet(T), \A a \in T : p[a].quantity \in Nat
    PROVE  \A s \in SUBSET T : \A a \in s :
               Sums(p, T)[s] = p[a].quantity + Sums(p, T)[s \ {a}]
<1> DEFINE F == Sums(p, T)
           X == {s \in SUBSET T : \A a \in s : F[s] = p[a].quantity + F[s \ {a}]}
<1>0. \A s \in SUBSET T : F[s] \in Nat
  BY SumIsNumber
<1>1. \A s \in SUBSET T : s # {} => F[s] = p[Taken(s)].quantity + F[s \ {Taken(s)}]
  <2> SUFFICES ASSUME NEW s \in SUBSET T, s # {}
               PROVE  F[s] = p[Taken(s)].quantity + F[s \ {Taken(s)}]
    OBVIOUS
  <2>1. F[s] = Row(p, F, s)
    BY TableExists
  <2> HIDE DEF F
  <2> QED
    BY <2>1 DEF Row, Rest
<1> HIDE DEF F
<1>2. ASSUME NEW s \in SUBSET T, \A r \in SUBSET s : r # s => r \in X
      PROVE  s \in X
  <2> SUFFICES ASSUME NEW a \in s
               PROVE  F[s] = p[a].quantity + F[s \ {a}]
    OBVIOUS
  <2> DEFINE c == Taken(s)
  <2>1. c \in s /\ F[s] = p[c].quantity + F[s \ {c}]
    BY <1>1, TakenIsIn
  <2> HIDE DEF c
  <2>2. CASE a = c
    BY <2>1, <2>2
  <2>3. CASE a # c
    <3>1. /\ s \ {c} \in SUBSET s /\ s \ {c} # s /\ a \in s \ {c}
          /\ s \ {a} \in SUBSET s /\ s \ {a} # s /\ c \in s \ {a}
      BY <2>1, <2>3
    <3>2. F[s \ {c}] = p[a].quantity + F[(s \ {c}) \ {a}]
      BY <1>2, <3>1
    <3>3. F[s \ {a}] = p[c].quantity + F[(s \ {a}) \ {c}]
      BY <1>2, <3>1
    <3>4. (s \ {c}) \ {a} = (s \ {a}) \ {c}
      OBVIOUS
    <3> DEFINE x == p[a].quantity
               y == p[c].quantity
               z == F[(s \ {a}) \ {c}]
    <3>5. x \in Nat /\ y \in Nat /\ z \in Nat
      <4>1. a \in T /\ c \in T /\ (s \ {a}) \ {c} \in SUBSET T
        BY <2>1
      <4> QED
        BY <1>0, <4>1
    <3>6. F[s] = y + (x + z) /\ F[s \ {a}] = y + z
      BY <2>1, <3>2, <3>3, <3>4
    <3> HIDE DEF x, y, z
    <3>7. F[s] = x + F[s \ {a}]
      BY <3>5, <3>6
    <3> QED
      BY <3>7 DEF x
  <2> QED
    BY <2>2, <2>3
<1>3. X \in SUBSET (SUBSET T)
  OBVIOUS
<1> HIDE DEF X
<1>4. X = SUBSET T
  BY <1>2, <1>3, AllSubsets
<1> QED
  BY <1>4 DEF X, F

\* With more rows the sum is not smaller.
LEMMA MoreIsMore ==
    ASSUME NEW p, NEW T, IsFiniteSet(T), \A a \in T : p[a].quantity \in Nat,
           NEW S \in SUBSET T
    PROVE  Sums(p, T)[S] <= Sums(p, T)[T]
<1> DEFINE F == Sums(p, T)
           X == {s \in SUBSET T : S \subseteq s => F[S] <= F[s]}
<1>0. \A s \in SUBSET T : F[s] \in Nat
  BY SumIsNumber
<1>1. \A s \in SUBSET T : \A a \in s : F[s] = p[a].quantity + F[s \ {a}]
  <2> SUFFICES ASSUME NEW s \in SUBSET T, NEW a \in s
               PROVE  F[s] = p[a].quantity + F[s \ {a}]
    OBVIOUS
  <2> QED
    BY AnyFirst
<1> HIDE DEF F
<1>2. ASSUME NEW s \in SUBSET T, \A r \in SUBSET s : r # s => r \in X
      PROVE  s \in X
  <2> SUFFICES ASSUME S \subseteq s
               PROVE  F[S] <= F[s]
    OBVIOUS
  <2>1. CASE S = s
    BY <1>0, <2>1
  <2>2. CASE S # s
    <3>1. PICK a \in s : a \notin S
      BY <2>2
    <3>2. s \ {a} \in SUBSET s /\ s \ {a} # s /\ S \subseteq s \ {a}
      BY <3>1
    <3>3. F[S] <= F[s \ {a}]
      BY <1>2, <3>2
    <3>4. p[a].quantity \in Nat /\ F[s \ {a}] \in Nat /\ F[S] \in Nat
      BY <1>0
    <3>5. F[s] = p[a].quantity + F[s \ {a}]
      BY <1>1
    <3> QED
      BY <3>3, <3>4, <3>5
  <2> QED
    BY <2>1, <2>2
<1>3. X \in SUBSET (SUBSET T)
  OBVIOUS
<1> HIDE DEF X
<1>4. X = SUBSET T
  BY <1>2, <1>3, AllSubsets
<1>5. T \in X
  BY <1>4
<1> QED
  BY <1>5 DEF X, F

-------------------------------------------------------------------------------
\* What AssignedSum is, now and after a step.
SumsOfRows == \A i : AssignedSum(i, {}) = SumOf(placed, RowsOf(i))

LEMMA SumsAreOfRows == SumsOfRows
<1>1. ASSUME NEW i
      PROVE  AssignedSum(i, {}) = SumOf(placed, RowsOf(i))
  <2>1. RowsOf(i) \ {} = RowsOf(i)
    OBVIOUS
  <2> QED
    BY <2>1 DEF AssignedSum, SumOf
<1> QED
  BY <1>1 DEF SumsOfRows

LEMMA SumsAreOfRowsNext == SumsOfRows'
BY SumsAreOfRows, PTL

LEMMA SumWithout ==
    ASSUME NEW i, NEW e
    PROVE  AssignedSum(i, e) = SumOf(placed, RowsOf(i) \ e)
BY DEF AssignedSum, SumOf

\* Rows that are the same have the same sum; fewer rows have none that is larger; and one
\* more adds its quantity.
LEMMA SameSum ==
    ASSUME NEW p, NEW q, NEW S \in SUBSET Assignments, \A a \in S : p[a].quantity = q[a].quantity
    PROVE  SumOf(p, S) = SumOf(q, S)
<1>1. IsFiniteSet(S)
  BY FiniteAssumption, FS_Subset
<1> QED
  BY <1>1, SumIsInTable, TablesAgree

LEMMA NumberSum ==
    ASSUME NEW p, NEW S \in SUBSET Assignments, \A a \in S : p[a].quantity \in Nat
    PROVE  SumOf(p, S) \in Nat
<1>1. IsFiniteSet(S)
  BY FiniteAssumption, FS_Subset
<1> QED
  BY <1>1, SumIsInTable, SumIsNumber

LEMMA SmallerSum ==
    ASSUME NEW p, NEW T \in SUBSET Assignments, \A a \in T : p[a].quantity \in Nat,
           NEW S \in SUBSET T
    PROVE  SumOf(p, S) <= SumOf(p, T)
<1>1. IsFiniteSet(T) /\ IsFiniteSet(S)
  BY FiniteAssumption, FS_Subset
<1>2. Sums(p, S)[S] = Sums(p, T)[S]
  BY <1>1, TablesAgree
<1>3. Sums(p, T)[S] <= Sums(p, T)[T]
  BY <1>1, MoreIsMore
<1> QED
  BY <1>2, <1>3, SumIsInTable

LEMMA SumWithRow ==
    ASSUME NEW p, NEW T \in SUBSET Assignments, \A a \in T : p[a].quantity \in Nat,
           NEW a \in T
    PROVE  SumOf(p, T) = p[a].quantity + SumOf(p, T \ {a})
<1>1. IsFiniteSet(T) /\ IsFiniteSet(T \ {a})
  BY FiniteAssumption, FS_Subset
<1>2. Sums(p, T \ {a})[T \ {a}] = Sums(p, T)[T \ {a}]
  BY <1>1, TablesAgree
<1>3. Sums(p, T)[T] = p[a].quantity + Sums(p, T)[T \ {a}]
  BY <1>1, AnyFirst
<1> QED
  BY <1>2, <1>3, SumIsInTable

-------------------------------------------------------------------------------
(***************************************************************************)
(* The stock.  A request is checked against what it has read: if all of     *)
(* that is still so when it commits, it does not oversell.                  *)
(***************************************************************************)

\* The check has held of what a request holds; and the row it changes is of its item.
CheckHeld(j, rows) ==
    /\ j.at \in {"flush", "commit"} => j.total = Keep \/ j.sum <= j.total
    /\ j.at = "write" => Fits(j.sum, j.want.quantity, j.total)
    /\ j.at \in {"check", "write"} =>
          /\ j.want.item = j.item
          /\ j.id # None /\ rows[j.id] # None => rows[j.id].item = j.item

StockChecked == \A w \in Workers : CheckHeld(job[w], placed)

\* The rows that are there afterwards were there before, for the same item.
NoRowsAdded ==
    \A a \in Assignments : placed'[a] # None => placed[a] # None /\ placed'[a].item = placed[a].item

LEMMA CheckKept ==
    ASSUME NEW j, JobOK(j), CheckHeld(j, placed), NoRowsAdded
    PROVE  CheckHeld(j, placed')
BY DEF JobOK, CheckHeld, NoRowsAdded

LEMMA OneGoesOn ==
    ASSUME Sound, StockChecked, NoRowsAdded, NEW w \in Workers, NEW j, Becomes(w, j),
           CheckHeld(j, placed')
    PROVE  StockChecked'
<1>1. /\ \A v \in Workers \ {w} : job'[v] = job[v]
      /\ job'[w] = j /\ \A v \in Workers : JobOK(job[v])
  BY DEF Becomes, Sound, TypeOK
<1>2. ASSUME NEW v \in Workers \ {w}
      PROVE  CheckHeld(job[v], placed')
  BY <1>1, CheckKept DEF StockChecked
<1> QED
  BY <1>1, <1>2 DEF StockChecked

\* A request that is over, and one whose row is already written.
LEMMA NothingToCheck ==
    ASSUME NEW j, NEW rows, j.at \notin {"flush", "commit", "write", "check"}
    PROVE  CheckHeld(j, rows)
BY DEF CheckHeld

LEMMA BeginChecked ==
    ASSUME Sound, StockChecked, NEW w \in Workers, Begin(w)
    PROVE  StockChecked'
<1>0. NoRowsAdded /\ placed' = placed
  BY DEF Begin, CreateItem, LoadToResize, LoadToDiscard, LoadToAssign, LoadToMove, LoadToRemove,
         NoRowsAdded
<1>1. ASSUME NEW i \in Items, NEW c \in Creates, LoadToAssign(w, i, c)
      PROVE  StockChecked'
  <2> DEFINE j == [at |-> "check", item |-> i, id |-> None, seen |-> None,
                   want |-> [item |-> i, unit |-> c.unit, room |-> c.room,
                            quantity |-> c.quantity],
                   total |-> items[i].total]
  <2>1. Becomes(w, j)
    BY <1>1 DEF LoadToAssign
  <2>2. CheckHeld(j, placed')
    BY DEF CheckHeld
  <2> HIDE DEF j
  <2> QED
    BY <1>0, <2>1, <2>2, OneGoesOn
<1>2. ASSUME NEW a \in Assignments, NEW p \in Patches, LoadToMove(w, a, p)
      PROVE  StockChecked'
  <2> DEFINE j == [at |-> "check", item |-> placed[a].item, id |-> a,
                   seen |-> placed[a], want |-> Moved(placed[a], p),
                   total |-> items[placed[a].item].total]
  <2>1. Becomes(w, j)
    BY <1>2 DEF LoadToMove
  <2>2. CheckHeld(j, placed')
    BY <1>0 DEF CheckHeld, Moved
  <2> HIDE DEF j
  <2> QED
    BY <1>0, <2>1, <2>2, OneGoesOn
<1>3. ASSUME NEW i \in Items, NEW n,
             CreateItem(w, i, n) \/ LoadToResize(w, i, n) \/ LoadToDiscard(w, i)
      PROVE  StockChecked'
  <2>1. \E j : Becomes(w, j) /\ j.at \in {"sync", "resize", "discard"}
    BY <1>3 DEF CreateItem, LoadToResize, LoadToDiscard, SyncOf
  <2> QED
    BY <1>0, <2>1, OneGoesOn, NothingToCheck
<1>4. ASSUME NEW a \in Assignments, LoadToRemove(w, a)
      PROVE  StockChecked'
  <2>1. \E j : Becomes(w, j) /\ j.at = "remove"
    BY <1>4 DEF LoadToRemove
  <2> QED
    BY <1>0, <2>1, OneGoesOn, NothingToCheck
<1> QED
  BY <1>1, <1>2, <1>3, <1>4 DEF Begin

LEMMA ChecksChecked ==
    ASSUME Sound, StockChecked, NEW w \in Workers, Resize(w) \/ Flush(w) \/ CheckStock(w)
    PROVE  StockChecked'
<1>0. /\ NoRowsAdded /\ placed' = placed
      /\ JobOK(job[w]) /\ CheckHeld(job[w], placed)
  BY DEF Resize, Flush, CheckStock, NoRowsAdded, Sound, TypeOK, StockChecked
<1>1. ASSUME Resize(w)
      PROVE  StockChecked'
  <2> DEFINE j == [at |-> "flush", item |-> job[w].item, total |-> job[w].total,
                   seen |-> job[w].seen, sum |-> AssignedSum(job[w].item, {})]
  <2>1. Becomes(w, j)
    BY <1>1 DEF Resize
  <2>2. j.total = Keep \/ j.sum <= j.total
    BY <1>1 DEF Resize, ResizeValid
  <2>3. CheckHeld(j, placed')
    BY <2>2 DEF CheckHeld
  <2> HIDE DEF j
  <2> QED
    BY <1>0, <2>1, <2>3, OneGoesOn
<1>2. ASSUME Flush(w)
      PROVE  StockChecked'
  <2> DEFINE j == [at |-> "commit", item |-> job[w].item, total |-> job[w].total,
                   seen |-> job[w].seen, sum |-> job[w].sum,
                   count |-> Cardinality(RowsOf(job[w].item))]
  <2>1. Becomes(w, j)
    BY <1>2 DEF Flush
  <2>2. j.total = Keep \/ j.sum <= j.total
    BY <1>0, <1>2 DEF Flush, CheckHeld
  <2>3. CheckHeld(j, placed')
    BY <2>2 DEF CheckHeld
  <2> HIDE DEF j
  <2> QED
    BY <1>0, <2>1, <2>3, OneGoesOn
<1>3. ASSUME CheckStock(w)
      PROVE  StockChecked'
  <2> DEFINE j == [at |-> "write", item |-> job[w].item, id |-> job[w].id,
                   seen |-> job[w].seen, want |-> job[w].want,
                   total |-> job[w].total, sum |-> OthersSum(w)]
  <2>1. Becomes(w, j)
    BY <1>3 DEF CheckStock
  <2>2. Fits(j.sum, j.want.quantity, j.total)
    BY <1>3 DEF CheckStock
  <2>3. /\ j.want.item = j.item
        /\ j.id # None /\ placed[j.id] # None => placed[j.id].item = j.item
    BY <1>0, <1>3 DEF CheckStock, CheckHeld
  <2>4. CheckHeld(j, placed')
    BY <1>0, <2>2, <2>3 DEF CheckHeld
  <2> HIDE DEF j
  <2> QED
    BY <1>0, <2>1, <2>4, OneGoesOn
<1> QED
  BY <1>1, <1>2, <1>3

LEMMA OthersChecked ==
    ASSUME Sound, StockChecked, NEW w \in Workers,
           \/ CommitItem(w) \/ Discard(w) \/ Move(w) \/ Remove(w) \/ Stop(w)
           \/ SyncLoad(w) \/ SyncCount(w) \/ SyncSave(w)
    PROVE  StockChecked'
<1>1. \E j : Becomes(w, j) /\ j.at \in {"idle", "sync", "count", "save"}
  BY DEF CommitItem, Discard, Move, Remove, Stop, SyncLoad, SyncCount, SyncSave, Idle, SyncOf
<1>2. NoRowsAdded
  <2>0. TypeOK /\ JobOK(job[w])
    BY DEF Sound, TypeOK
  <2>1. CASE CommitItem(w) \/ Stop(w) \/ SyncLoad(w) \/ SyncCount(w) \/ SyncSave(w)
    BY <2>1 DEF NoRowsAdded, CommitItem, Stop, SyncLoad, SyncCount, SyncSave
  <2>2. CASE Discard(w)
    BY <2>2 DEF NoRowsAdded, Discard
  <2>3. CASE Remove(w)
    BY <2>0, <2>3 DEF NoRowsAdded, Remove, TypeOK
  <2>4. CASE Move(w)
    <3>1. MovedRow(w).item = placed[job[w].id].item /\ placed[job[w].id] # None
      BY <2>4 DEF Move, MovedRow, UpdatedRow, MoveAccepted
    <3> QED
      BY <2>0, <2>4, <3>1 DEF NoRowsAdded, Move, TypeOK
  <2> QED
    BY <2>1, <2>2, <2>3, <2>4
<1> QED
  BY <1>1, <1>2, OneGoesOn, NothingToCheck

\* A new row has an id that no request names which might still write it.
LEMMA InsertChecked ==
    ASSUME Sound, StockChecked, NEW w \in Workers, NEW a \in Assignments, Insert(w, a)
    PROVE  StockChecked'
<1>0. /\ TypeOK /\ \A v \in Workers : JobOK(job[v]) /\ CheckHeld(job[v], placed)
      /\ UnusedRow(a)
  BY DEF Sound, TypeOK, StockChecked, Insert, InsertAccepted
<1>1. /\ \A v \in Workers \ {w} : job'[v] = job[v]
      /\ job'[w] = SyncOf(job[w].item, a)
      /\ \A b \in Assignments \ {a} : placed'[b] = placed[b]
  BY <1>0 DEF Insert, Becomes, TypeOK
<1>2. ASSUME NEW v \in Workers \ {w}
      PROVE  CheckHeld(job[v], placed')
  <2>1. job[v].at \in {"check", "write"} =>
            job[v].id = None \/ placed'[job[v].id] = placed[job[v].id]
    BY <1>0, <1>1 DEF UnusedRow, JobOK
  <2>2. CheckHeld(job[v], placed)
    BY <1>0
  <2> QED
    BY <2>1, <2>2 DEF CheckHeld
<1>3. CheckHeld(job'[w], placed')
  BY <1>1, NothingToCheck DEF SyncOf
<1> QED
  BY <1>1, <1>2, <1>3 DEF StockChecked

LEMMA NextChecked == Sound /\ StockChecked /\ [Next]_vars => StockChecked'
<1> SUFFICES ASSUME Sound, StockChecked, [Next]_vars PROVE StockChecked'
  OBVIOUS
<1>1. ASSUME NEW w \in Workers, Begin(w) \/ Proceed(w) \/ Stop(w)
      PROVE  StockChecked'
  BY <1>1, BeginChecked, ChecksChecked, OthersChecked, InsertChecked DEF Proceed, Refuse
<1>2. ASSUME job' = job, NoRowsAdded
      PROVE  StockChecked'
  BY <1>2, CheckKept DEF StockChecked, Sound, TypeOK
<1>3. ASSUME UNCHANGED vars
      PROVE  job' = job /\ NoRowsAdded
  BY <1>3 DEF vars, NoRowsAdded
<1>4. ASSUME NEW r \in Rooms, DeleteRoom(r) \/ \E u \in Units : MoveRoom(r, u)
      PROVE  job' = job /\ NoRowsAdded
  <2>1. \A a \in LiveRows : a \in Assignments /\ placed[a] \in Assignment
    BY LiveType DEF Sound
  <2> QED
    BY <1>4, <2>1 DEF DeleteRoom, MoveRoom, NoRowsAdded, RoomCleared, LiveRows, Assignment
<1>5. ASSUME NEW u \in Units, DeleteUnit(u)
      PROVE  job' = job /\ NoRowsAdded
  BY <1>5 DEF DeleteUnit, NoRowsAdded
<1> QED
  BY <1>1, <1>2, <1>3, <1>4, <1>5 DEF Next

\* What the rows of an item add up to, now and after the step.
Stock(i)  == SumOf(placed, RowsOf(i))
Became(i) == SumOf(placed', RowsOf(i)')

LEMMA RowsAreNumbers ==
    ASSUME TypeOK, NEW i
    PROVE  /\ RowsOf(i) \in SUBSET Assignments
           /\ \A a \in RowsOf(i) : placed[a].quantity \in Nat
<1>1. \A a \in LiveRows : a \in Assignments /\ placed[a] \in Assignment
  BY LiveType
<1> QED
  BY <1>1, QuantityAssumption DEF RowsOf, Assignment, Quantity

LEMMA RowsStayNumbers ==
    ASSUME TypeOK', NEW i
    PROVE  /\ RowsOf(i)' \in SUBSET Assignments
           /\ \A a \in RowsOf(i)' : placed'[a].quantity \in Nat
<1>1. \A a \in LiveRows' : a \in Assignments /\ placed'[a] \in Assignment
  BY DEF LiveRows, TypeOK
<1> QED
  BY <1>1, QuantityAssumption DEF RowsOf, Assignment, Quantity

\* Rows that go take from the sum.
LEMMA LessStock ==
    ASSUME TypeOK, TypeOK', NEW i, RowsOf(i)' \subseteq RowsOf(i),
           \A a \in RowsOf(i)' : placed'[a].quantity = placed[a].quantity
    PROVE  Became(i) <= Stock(i)
<1>1. /\ RowsOf(i) \in SUBSET Assignments /\ RowsOf(i)' \in SUBSET Assignments
      /\ \A a \in RowsOf(i) : placed[a].quantity \in Nat
  BY RowsAreNumbers, RowsStayNumbers
<1>2. SumOf(placed', RowsOf(i)') = SumOf(placed, RowsOf(i)')
  BY <1>1, SameSum
<1>3. SumOf(placed, RowsOf(i)') <= SumOf(placed, RowsOf(i))
  BY <1>1, SmallerSum
<1> QED
  BY <1>2, <1>3 DEF Stock, Became

\* One row that is there afterwards, and the others as they were.
LEMMA OneRowStock ==
    ASSUME TypeOK, TypeOK', NEW i, NEW a \in RowsOf(i)', RowsOf(i)' \ {a} = RowsOf(i) \ {a},
           \A b \in RowsOf(i)' \ {a} : placed'[b].quantity = placed[b].quantity
    PROVE  Became(i) = placed'[a].quantity + SumOf(placed, RowsOf(i) \ {a})
<1>1. /\ RowsOf(i)' \in SUBSET Assignments
      /\ \A b \in RowsOf(i)' : placed'[b].quantity \in Nat
  BY RowsStayNumbers
<1>2. SumOf(placed', RowsOf(i)') = placed'[a].quantity + SumOf(placed', RowsOf(i)' \ {a})
  BY <1>1, SumWithRow
<1>3. SumOf(placed', RowsOf(i)' \ {a}) = SumOf(placed, RowsOf(i)' \ {a})
  BY <1>1, SameSum
<1> QED
  BY <1>2, <1>3 DEF Became

\* The total of an item changes in one step, to what was asked for.
LEMMA TotalWritten ==
    ASSUME Sound, [Next]_vars, NEW i \in LiveItems, i \in LiveItems',
           items'[i].total # items[i].total
    PROVE  \E w \in Workers :
              /\ CommitItem(w) /\ job[w].item = i
              /\ job[w].total # Keep /\ items'[i].total = job[w].total
<1>0. TypeOK /\ i \in Items /\ items[i] \in Item
  BY LiveType DEF Sound
<1>1. ASSUME NEW w \in Workers, CommitItem(w)
      PROVE  /\ job[w].item = i
             /\ job[w].total # Keep /\ items'[i].total = job[w].total
  <2>1. job[w].item = i
    BY <1>0, <1>1 DEF CommitItem, TypeOK
  <2>2. items'[i] = ResizedItem(w)
    BY <1>0, <1>1, <2>1 DEF CommitItem, TypeOK
  <2> QED
    BY <1>1, <2>1, <2>2 DEF CommitItem, ResizedItem, Touched
<1>2. ASSUME NEW w \in Workers, SyncSave(w)
      PROVE  FALSE
  BY <1>0, <1>2 DEF SyncSave, TypeOK, Item
<1>3. ASSUME NEW w \in Workers, NEW k \in Items, NEW n \in Quantity, CreateItem(w, k, n)
      PROVE  FALSE
  <2>1. k # i
    BY <1>3 DEF CreateItem, UnusedItem, LiveItems
  <2> QED
    BY <1>0, <1>3, <2>1 DEF CreateItem, TypeOK
<1>4. ASSUME NEW w \in Workers, Discard(w)
      PROVE  FALSE
  BY <1>0, <1>4 DEF Discard, TypeOK, LiveItems
<1>5. ASSUME UNCHANGED items
      PROVE  FALSE
  BY <1>5
<1> QED
  BY <1>1, <1>2, <1>3, <1>4, <1>5, ItemsChange

\* A step that adds to the stock writes a row that was checked, and says so.
LEMMA StockGrows ==
    ASSUME Sound, Sound', StockChecked, [Next]_vars, NEW i \in LiveItems, i \in LiveItems',
           ~(Became(i) <= Stock(i))
    PROVE  \E w \in Workers :
              /\ At(w, "write") /\ job[w].item = i
              /\ ReadAgain(w) => Became(i) <= items[i].total
<1>0. /\ TypeOK /\ TypeOK' /\ \A w \in Workers : JobOK(job[w]) /\ CheckHeld(job[w], placed)
      /\ \A a \in LiveRows : a \in Assignments /\ placed[a] \in Assignment
  BY LiveType DEF Sound, TypeOK, StockChecked
<1>1. ASSUME \A a \in Assignments : placed'[a] \in {placed[a], None}
      PROVE  FALSE
  <2>1. /\ RowsOf(i)' \subseteq RowsOf(i)
        /\ \A a \in RowsOf(i)' : placed'[a].quantity = placed[a].quantity
    BY <1>1 DEF RowsOf, LiveRows
  <2> QED
    BY <1>0, <2>1, LessStock
<1>2. ASSUME NEW w \in Workers, Discard(w) \/ Remove(w)
      PROVE  FALSE
  <2>1. \A a \in Assignments : placed'[a] \in {placed[a], None}
    BY <1>0, <1>2 DEF Discard, Remove, TypeOK
  <2> QED
    BY <1>1, <2>1
<1>3. ASSUME NEW u \in Units, DeleteUnit(u)
      PROVE  FALSE
  <2>1. \A a \in Assignments : placed'[a] \in {placed[a], None}
    BY <1>3 DEF DeleteUnit
  <2> QED
    BY <1>1, <2>1
<1>4. ASSUME NEW r \in Rooms, DeleteRoom(r)
      PROVE  FALSE
  <2>1. \A a \in Assignments :
            /\ placed'[a] # None <=> placed[a] # None
            /\ placed[a] # None => /\ placed'[a].item = placed[a].item
                                   /\ placed'[a].quantity = placed[a].quantity
    BY <1>0, <1>4 DEF DeleteRoom, RoomCleared, LiveRows, Assignment
  <2>2. /\ RowsOf(i)' \subseteq RowsOf(i)
        /\ \A a \in RowsOf(i)' : placed'[a].quantity = placed[a].quantity
    BY <2>1 DEF RowsOf, LiveRows
  <2> QED
    BY <1>0, <2>2, LessStock
<1>5. ASSUME NEW w \in Workers, NEW a \in Assignments, Insert(w, a)
      PROVE  /\ At(w, "write") /\ job[w].item = i
             /\ ReadAgain(w) => Became(i) <= items[i].total
  <2>1. /\ At(w, "write") /\ job[w].id = None /\ placed[a] = None
        /\ job[w].want.item = job[w].item /\ job[w].want \in Assignment
        /\ Fits(job[w].sum, job[w].want.quantity, job[w].total)
    BY <1>0, <1>5 DEF Insert, InsertAccepted, UnusedRow, CheckHeld, JobOK
  <2>2. placed'[a] = job[w].want /\ \A b \in Assignments \ {a} : placed'[b] = placed[b]
    BY <1>0, <1>5 DEF Insert, TypeOK
  <2>3. ASSUME job[w].item # i
        PROVE  FALSE
    <3>1. /\ RowsOf(i)' \subseteq RowsOf(i)
          /\ \A b \in RowsOf(i)' : placed'[b].quantity = placed[b].quantity
      BY <2>1, <2>2, <2>3 DEF RowsOf, LiveRows
    <3> QED
      BY <1>0, <3>1, LessStock
  <2>4. ASSUME job[w].item = i, ReadAgain(w)
        PROVE  Became(i) <= items[i].total
    <3>1. /\ a \in RowsOf(i)' /\ RowsOf(i)' \ {a} = RowsOf(i) \ {a}
          /\ \A b \in RowsOf(i)' \ {a} : placed'[b].quantity = placed[b].quantity
      BY <2>1, <2>2, <2>4 DEF RowsOf, LiveRows, Assignment
    <3>2. Became(i) = job[w].want.quantity + SumOf(placed, RowsOf(i) \ {a})
      BY <1>0, <2>2, <3>1, OneRowStock
    <3>3. RowsOf(i) \ {a} = RowsOf(i) \ {None}
      BY <1>0, <2>1 DEF RowsOf, LiveRows
    <3>4. job[w].sum = SumOf(placed, RowsOf(i) \ {a}) /\ job[w].total = items[i].total
      BY <2>1, <2>4, <3>3, SumWithout DEF ReadAgain, OthersSum
    <3>5. SumOf(placed, RowsOf(i) \ {a}) \in Nat /\ job[w].want.quantity \in Nat
      <4>1. RowsOf(i) \ {a} \in SUBSET Assignments
        BY <1>0 DEF RowsOf
      <4>2. \A b \in RowsOf(i) \ {a} : placed[b].quantity \in Nat
        BY <1>0, RowsAreNumbers
      <4> QED
        BY <2>1, <4>1, <4>2, NumberSum, QuantityAssumption DEF Assignment, Quantity
    <3> QED
      BY <2>1, <3>2, <3>4, <3>5 DEF Fits
  <2> QED
    BY <2>1, <2>3, <2>4
<1>6. ASSUME NEW w \in Workers, Move(w)
      PROVE  /\ At(w, "write") /\ job[w].item = i
             /\ ReadAgain(w) => Became(i) <= items[i].total
  <2> DEFINE a == job[w].id
  <2>1. /\ At(w, "write") /\ a # None /\ a \in Assignments /\ placed[a] # None
        /\ placed[a].item = job[w].item /\ job[w].want \in Assignment
        /\ Fits(job[w].sum, job[w].want.quantity, job[w].total)
    BY <1>0, <1>6 DEF Move, MoveAccepted, CheckHeld, JobOK
  <2>2. /\ placed'[a] = UpdatedRow(job[w].seen, job[w].want, placed[a])
        /\ \A b \in Assignments \ {a} : placed'[b] = placed[b]
    BY <1>0, <1>6, <2>1 DEF Move, MovedRow, TypeOK
  <2>3. placed'[a] # None /\ placed'[a].item = job[w].item
    <3>1. placed'[a] = MovedRow(w)
      BY <2>2 DEF MovedRow
    <3>2. MovedRow(w) \in Assignment
      BY <1>0, <1>6, <2>1, MovedRowType DEF Move
    <3> QED
      BY <2>1, <2>2, <3>1, <3>2 DEF UpdatedRow
  <2> HIDE DEF a
  <2>4. ASSUME job[w].item # i
        PROVE  FALSE
    <3>1. /\ RowsOf(i)' \subseteq RowsOf(i)
          /\ \A b \in RowsOf(i)' : placed'[b].quantity = placed[b].quantity
      BY <2>2, <2>3, <2>4 DEF RowsOf, LiveRows
    <3> QED
      BY <1>0, <3>1, LessStock
  <2>5. ASSUME job[w].item = i, ReadAgain(w)
        PROVE  Became(i) <= items[i].total
    <3>1. /\ a \in RowsOf(i)' /\ RowsOf(i)' \ {a} = RowsOf(i) \ {a}
          /\ \A b \in RowsOf(i)' \ {a} : placed'[b].quantity = placed[b].quantity
      BY <2>1, <2>2, <2>3, <2>5 DEF RowsOf, LiveRows
    <3>2. Became(i) = placed'[a].quantity + SumOf(placed, RowsOf(i) \ {a})
      BY <1>0, <3>1, OneRowStock
    <3>3. job[w].sum = SumOf(placed, RowsOf(i) \ {a}) /\ job[w].total = items[i].total
      BY <2>1, <2>5, SumWithout DEF ReadAgain, OthersSum, a
    <3>4. placed'[a].quantity = job[w].want.quantity
      <4>1. job[w].seen = placed[a]
        BY <2>1, <2>5 DEF ReadAgain, a
      <4> QED
        BY <2>2, <4>1 DEF UpdatedRow, Touched
    <3>5. SumOf(placed, RowsOf(i) \ {a}) \in Nat /\ job[w].want.quantity \in Nat
      <4>1. RowsOf(i) \ {a} \in SUBSET Assignments
        BY <1>0 DEF RowsOf
      <4>2. \A b \in RowsOf(i) \ {a} : placed[b].quantity \in Nat
        BY <1>0, RowsAreNumbers
      <4> QED
        BY <2>1, <4>1, <4>2, NumberSum, QuantityAssumption DEF Assignment, Quantity
    <3> QED
      BY <2>1, <3>2, <3>3, <3>4, <3>5 DEF Fits
  <2> QED
    BY <2>1, <2>4, <2>5
<1>7. ASSUME UNCHANGED placed
      PROVE  FALSE
  BY <1>1, <1>7
<1> QED
  BY <1>2, <1>3, <1>4, <1>5, <1>6, <1>7, RowsChange

\* The body of OversoldOnlyIfStale.
OversoldIfStale ==
    \A i \in LiveItems : InStock(i) /\ ~InStock(i)' =>
        \E w \in Workers :
            /\ At(w, "write") \/ At(w, "commit")
            /\ job[w].item = i
            /\ ~ReadAgain(w)

LEMMA StepOversells ==
    Sound /\ Sound' /\ StockChecked /\ [Next]_vars => OversoldIfStale
<1> SUFFICES ASSUME Sound, Sound', StockChecked, [Next]_vars,
                    NEW i \in LiveItems, InStock(i), ~InStock(i)'
             PROVE  \E w \in Workers : /\ At(w, "write") \/ At(w, "commit")
                                       /\ job[w].item = i
                                       /\ ~ReadAgain(w)
  BY DEF OversoldIfStale
<1>1. /\ AssignedSum(i, {}) = Stock(i) /\ AssignedSum(i, {})' = Became(i)
      /\ AssignedSum(i, {}) <= items[i].total
      /\ i \in LiveItems' /\ ~(AssignedSum(i, {})' <= items'[i].total)
  BY SumsAreOfRows, SumsAreOfRowsNext DEF SumsOfRows, Stock, Became, InStock
<1>2. CASE items'[i].total = items[i].total
  <2>1. Stock(i) \in Nat /\ items[i].total \in Nat /\ Became(i) \in Nat
    <3>1. TypeOK /\ items[i] \in Item
      BY LiveType DEF Sound
    <3>2. Stock(i) \in Nat
      BY <3>1, RowsAreNumbers, NumberSum DEF Stock
    <3>3. Became(i) \in Nat
      BY RowsStayNumbers, NumberSum DEF Sound, Became
    <3> QED
      BY <3>1, <3>2, <3>3, QuantityAssumption DEF Item, Quantity
  <2>2. ~(Became(i) <= Stock(i)) /\ ~(Became(i) <= items[i].total)
    BY <1>1, <1>2, <2>1
  <2>3. PICK w \in Workers : /\ At(w, "write") /\ job[w].item = i
                             /\ ReadAgain(w) => Became(i) <= items[i].total
    BY <1>1, <2>2, StockGrows
  <2> QED
    BY <2>2, <2>3
<1>3. CASE items'[i].total # items[i].total
  <2>1. PICK w \in Workers : /\ CommitItem(w) /\ job[w].item = i
                             /\ job[w].total # Keep /\ items'[i].total = job[w].total
    BY <1>1, <1>3, TotalWritten
  <2>2. At(w, "commit") /\ placed' = placed /\ job[w].sum <= job[w].total
    BY <2>1 DEF CommitItem, StockChecked, CheckHeld
  <2>3. RowsOf(i)' = RowsOf(i)
    BY <2>2 DEF RowsOf, LiveRows
  <2>4. Became(i) = Stock(i)
    BY <2>2, <2>3 DEF Became, Stock
  <2>5. ReadAgain(w) => job[w].sum = Stock(i)
    BY <1>1, <2>1, <2>2 DEF ReadAgain
  <2> QED
    BY <1>1, <2>1, <2>2, <2>4, <2>5
<1> QED
  BY <1>2, <1>3

\* More is assigned than there is only after a request that had read something out of date:
\* for any items, rows, requests and quantities.
THEOREM OversoldNeedsOldRead == Spec => OversoldOnlyIfStale
<1>1. Init => StockChecked
  BY DEF Init, StockChecked, CheckHeld, Idle
<1>2. Spec => []Sound /\ []StockChecked
  BY <1>1, InitSound, NextSound, NextChecked, PTL DEF Spec
<1>3. Sound /\ Sound' /\ StockChecked /\ [Next]_vars => [OversoldIfStale]_vars
  BY StepOversells
<1>4. Spec => [][OversoldIfStale]_vars
  BY <1>2, <1>3, PTL DEF Spec
<1> QED
  BY <1>4 DEF OversoldOnlyIfStale, OversoldIfStale
===============================================================================
