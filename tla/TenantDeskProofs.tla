--------------------------- MODULE TenantDeskProofs ---------------------------
(***************************************************************************)
(* Theorems of TenantDesk, for every set of desks, tenants, rooms, days,   *)
(* forms and contract ids, and every number of faults.                     *)
(***************************************************************************)
EXTENDS TenantDesk, TenancyProofs, WellFoundedInduction

USE DateAssumption DEF OptDate

\* An end, if there is one, lies in a stay up to out.
Within(end, out) == end # None => out # None /\ ~EndsBefore(out, end)

\* A row as somebody has read it, and the row by now: what no desk changes is the
\* same, and the stay reaches as far as every end that was read.
Behind(r, now) ==
    /\ r.room = now.room /\ r.moveIn = now.moveIn /\ r.status = now.status
    /\ Within(r.moveOut, now.moveOut)
    /\ Within(r.termination, now.moveOut)
    /\ Within(r.actualOut, now.moveOut)

\* What a list of contracts holds, and the forms of a desk, step by step.
Listing == UNION {[T -> Row] : T \in SUBSET Tenancies}

OpenForm  == [at: {"form"}, list: Listing]
ChainForm == [at: {"second", "join", "contract", "revenue", "reload"}, list: Listing,
              draft: Drafts, second: Tenants \cup {None}, id: Tenancies \cup {None},
              watched: BOOLEAN, joined: BOOLEAN, status: Status]
EditForm  == [at: {"edit", "reloadEdit"}, id: Tenancies, termination: OptDate,
              actualOut: OptDate, untouched: BOOLEAN]

\* The tables; a row that is behind itself is one whose move-out is synced.
TablesSound ==
    /\ rows \in [Tenancies -> Row \cup {None}]
    /\ short \in [Tenancies -> Nat]
    /\ Residents \subseteq known /\ known \subseteq Tenants
    /\ DOMAIN home = Desks /\ DOMAIN mine = Desks /\ DOMAIN desk = Desks
    /\ DOMAIN people = Tenancies
    /\ \A t \in Live : Behind(rows[t], rows[t])

PageSound(a) ==
    /\ home[a] \in known
    /\ mine[a] \in Listing
    /\ \A t \in DOMAIN mine[a] : t \in Live /\ Behind(mine[a][t], rows[t])

\* A form that nobody has touched names no end that the stay does not reach.
EditSound(a) ==
    LET t == desk[a].id
    IN  /\ t \in Live
        /\ desk[a].untouched => /\ Within(desk[a].termination, rows[t].moveOut)
                                /\ Within(desk[a].actualOut, rows[t].moveOut)

\* The contract of a chain: made by it, or found open for the second tenant.
Made(a) ==
    LET t == desk[a].id
    IN  /\ t \in Live
        /\ rows[t].room = desk[a].draft.room /\ rows[t].moveIn = desk[a].draft.moveIn
Found(a) ==
    LET t == desk[a].id
    IN  t \in Live /\ rows[t].room = desk[a].draft.room /\ Open(rows[t]) /\ desk[a].draft.second

Settled(a) == desk[a].second \in placed \cup {None}

\* Its second tenant is one that a form has created, and there is one if the form wants
\* one; who takes part in its contract is the two, until another form takes it over.
Seconded(a) ==
    IF desk[a].second = None THEN ~desk[a].draft.second
                             ELSE desk[a].second \in known \ Residents
Peopled(a) == people[desk[a].id] = Pair(a) \/ TakenOver(a)

ChainSound(a) ==
    LET t == desk[a].id
    IN  \/ /\ Sits(a, "second") /\ t = None /\ desk[a].second = None
           /\ desk[a].draft.second /\ ~desk[a].joined
        \/ Sits(a, "contract") /\ t = None /\ Seconded(a) /\ ~desk[a].joined
        \/ Sits(a, "join") /\ Found(a) /\ Seconded(a)
        \/ /\ Sits(a, "revenue") /\ Made(a) /\ short[t] > 0 /\ Settled(a)
           /\ Seconded(a) /\ Peopled(a) /\ ~desk[a].joined
        \/ /\ Sits(a, "reload") /\ Settled(a) /\ Seconded(a) /\ Peopled(a)
           /\ IF desk[a].joined THEN Found(a) ELSE Made(a) /\ short[t] = 0

FormSound(a) ==
    \/ desk[a] \in {Closed, Gone}
    \/ desk[a] \in OpenForm
    \/ desk[a] \in EditForm /\ EditSound(a)
    \/ desk[a] \in ChainForm /\ ChainSound(a)

\* No two chains write the revenue of one contract.
OneWriter ==
    \A a, b \in Desks :
        Sits(a, "revenue") /\ Sits(b, "revenue") /\ desk[a].id = desk[b].id => a = b

\* No two chains have the same second tenant.
OneSecond ==
    \A a, b \in Desks :
        InChain(a) /\ InChain(b) /\ desk[a].second = desk[b].second /\ a # b =>
            desk[a].second = None

\* Who answers for what is half done, and what chains that ended in an error left so.
Ended == told \cup unseen
Placing(a, x) == desk[a].at \in {"join", "contract"} /\ desk[a].second = x
Writing(a, t) == Sits(a, "revenue") /\ desk[a].id = t

Accounted ==
    /\ \A x \in known \ Residents : x \in placed \cup Ended \/ \E a \in Desks : Placing(a, x)
    /\ \A t \in Live : short[t] > 0 => t \in Ended \/ \E a \in Desks : Writing(a, t)

DesksSound ==
    /\ TablesSound
    /\ \A a \in Desks : PageSound(a) /\ FormSound(a)
    /\ OneWriter /\ OneSecond /\ Accounted

-------------------------------------------------------------------------------
(***************************************************************************)
(* Rows that are read, and rows that grow.                                 *)
(***************************************************************************)

LEMMA WithinIsTransitive ==
    ASSUME NEW a \in OptDate, NEW b \in OptDate, NEW c \in OptDate, Within(a, b), Within(b, c)
    PROVE  Within(a, c)
BY DEF Within, EndsBefore

LEMMA WithinItself ==
    ASSUME NEW a \in OptDate
    PROVE  Within(a, a)
BY DEF Within, EndsBefore

\* Days that are all before some day have a latest one: there is no endless way up.
LEMMA LeastNatural ==
    ASSUME NEW T \in SUBSET Nat, T # {}
    PROVE  \E x \in T : \A y \in T : x <= y
<1> DEFINE R == {ss \in Nat \X Nat : ss[1] < ss[2]}
<1>1. IsWellFoundedOn(R, Nat)
  BY NatLessThanWellFounded DEF OpToRel
<1>2. \A x \in Nat, y \in Nat : <<y, x>> \notin R => ~(y < x)
  OBVIOUS
<1> HIDE DEF R
<1>3. PICK x \in T : \A y \in T : ~ (<<y, x>> \in R)
  BY <1>1, WFMin
<1>4. \A y \in T : ~(y < x)
  BY <1>2, <1>3
<1> QED
  BY <1>4

LEMMA LatestDay ==
    ASSUME NEW T \in SUBSET Date, T # {}
    PROVE  \E x \in T : \A y \in T : y <= x
<1>1. PICK last \in Date : \A x \in Date : x <= last
  BY LastDayAssumption
<1> DEFINE D == {last - x : x \in T}
<1>2. \A x \in T : last \in Int /\ x \in Int /\ last - x \in Nat
  BY <1>1
<1>3. D \in SUBSET Nat
  BY <1>2
<1>4. D # {}
  OBVIOUS
<1>5. \E d \in D : \A e \in D : d <= e
  <2> HIDE DEF D
  <2> QED
    BY <1>3, <1>4, LeastNatural
<1>6. PICK x \in T : \A e \in D : last - x <= e
  BY <1>5
<1>7. \A y \in T : last - x <= last - y
  BY <1>6
<1> QED
  BY <1>2, <1>7

\* A stay that reaches as far as its other ends is not moved by a sync.
LEMMA ReachedEndStays ==
    ASSUME NEW mo \in OptDate, NEW te \in OptDate, NEW act \in OptDate,
           Within(te, mo), Within(act, mo)
    PROVE  SchedulingEnd(mo, te, act) = mo
<1>1. Later(te, mo) = mo
  BY DEF Later, Within, EndsBefore
<1>2. Later(mo, act) = mo
  BY DEF Later, Within, EndsBefore
<1> QED
  BY <1>1, <1>2 DEF SchedulingEnd

LEMMA BehindIsTransitive ==
    ASSUME NEW a \in Row, NEW b \in Row, NEW c \in Row, Behind(a, b), Behind(b, c)
    PROVE  Behind(a, c)
<1>1. /\ a.moveOut \in OptDate /\ a.termination \in OptDate /\ a.actualOut \in OptDate
      /\ b.moveOut \in OptDate /\ c.moveOut \in OptDate
  BY RowDates
<1>2. /\ Within(a.moveOut, b.moveOut) /\ Within(a.termination, b.moveOut)
      /\ Within(a.actualOut, b.moveOut) /\ Within(b.moveOut, c.moveOut)
  BY DEF Behind
<1>3. /\ Within(a.moveOut, c.moveOut) /\ Within(a.termination, c.moveOut)
      /\ Within(a.actualOut, c.moveOut)
  BY <1>1, <1>2, WithinIsTransitive
<1> QED
  BY <1>3 DEF Behind

\* The scheduling end of a row reaches as far as each of its ends.
LEMMA SyncedReaches ==
    ASSUME NEW r \in Row
    PROVE  /\ Synced(r) \in Row
           /\ Behind(r, Synced(r))
           /\ Behind(Synced(r), Synced(r))
<1> DEFINE out == RowEnd(r)
<1>1. /\ r.moveOut \in OptDate /\ r.termination \in OptDate /\ r.actualOut \in OptDate
  BY RowDates
<1>2. out \in OptDate
  BY <1>1, SchedulingEndType DEF RowEnd
<1>3. Within(r.moveOut, out) /\ Within(r.termination, out) /\ Within(r.actualOut, out)
  BY <1>1, SchedulingEndCoversAll DEF RowEnd, Within
<1>4. Within(out, out)
  BY <1>2, WithinItself
<1>5. /\ Synced(r) \in Row
      /\ Synced(r).room = r.room /\ Synced(r).moveIn = r.moveIn
      /\ Synced(r).status = r.status /\ Synced(r).moveOut = out
      /\ Synced(r).termination = r.termination /\ Synced(r).actualOut = r.actualOut
  BY SyncedType DEF Synced, Row
<1> QED
  BY <1>3, <1>4, <1>5 DEF Behind

\* What create_tenancy inserts: the room and the day of the body, in sync.
LEMMA NewRowBooks ==
    ASSUME NEW c \in Create
    PROVE  /\ NewRow(c) \in Row
           /\ NewRow(c).room = c.room /\ NewRow(c).moveIn = c.moveIn
           /\ Behind(NewRow(c), NewRow(c))
<1> DEFINE b == [room |-> c.room, tenant |-> PrimaryTenant(c.people),
                 moveIn |-> c.moveIn, moveOut |-> c.moveOut,
                 termination |-> c.termination, actualOut |-> c.actualOut,
                 status |-> c.status]
<1>1. b \in Row
  BY PartyHasPrimary DEF Create, Row
<1>2. Behind(b, Synced(b)) /\ Behind(Synced(b), Synced(b)) /\ Synced(b) \in Row
  BY <1>1, SyncedReaches
<1>3. NewRow(c) = Synced(b) /\ b.room = c.room /\ b.moveIn = c.moveIn
  BY DEF NewRow
<1> QED
  BY <1>2, <1>3 DEF Behind

\* What the form that ends a contract does to its row: it keeps what no desk
\* changes, brings no end forward, and leaves the stay alone when it names no end
\* that the stay does not reach.
LEMMA EditedRow ==
    ASSUME NEW r \in Row, NEW p \in Patch, Behind(r, r),
           p.moveIn = Keep, p.moveOut = Keep, p.status = Keep
    PROVE  /\ PatchedRow(r, p) \in Row
           /\ Behind(r, PatchedRow(r, p))
           /\ Behind(PatchedRow(r, p), PatchedRow(r, p))
           /\ Within(p.termination, r.moveOut) /\ Within(p.actualOut, r.moveOut) =>
                  BookingOf(PatchedRow(r, p)) = BookingOf(r)
<1> DEFINE s == Assigned(r, p)
<1>1. /\ s \in Row
      /\ s.room = r.room /\ s.moveIn = r.moveIn /\ s.moveOut = r.moveOut
      /\ s.status = r.status
      /\ s.termination \in {r.termination, p.termination}
      /\ s.actualOut \in {r.actualOut, p.actualOut}
  BY AssignedType DEF Assigned, Patched
<1> HIDE DEF s
<1>2. /\ Within(r.moveOut, r.moveOut) /\ Within(r.termination, r.moveOut)
      /\ Within(r.actualOut, r.moveOut)
  BY DEF Behind
<1>3. CASE HasData(p)
  <2>1. PatchedRow(r, p) = Synced(s)
    BY <1>3 DEF PatchedRow, s
  <2>2. Synced(s) \in Row /\ Behind(s, Synced(s)) /\ Behind(Synced(s), Synced(s))
    BY <1>1, SyncedReaches
  <2>3. PatchedRow(r, p).room = r.room /\ PatchedRow(r, p).moveIn = r.moveIn
        /\ PatchedRow(r, p).status = r.status
    BY <1>1, <2>1, <2>2 DEF Behind
  <2>4. Within(r.moveOut, PatchedRow(r, p).moveOut)
    BY <1>1, <2>1, <2>2 DEF Behind
  <2>5. Behind(r, PatchedRow(r, p))
    <3>1. /\ r.moveOut \in OptDate /\ r.termination \in OptDate /\ r.actualOut \in OptDate
          /\ PatchedRow(r, p).moveOut \in OptDate
      BY <2>1, <2>2, RowDates
    <3>2. /\ Within(r.termination, PatchedRow(r, p).moveOut)
          /\ Within(r.actualOut, PatchedRow(r, p).moveOut)
      BY <1>2, <2>4, <3>1, WithinIsTransitive
    <3> QED
      BY <2>3, <2>4, <3>2 DEF Behind
  <2>6. ASSUME Within(p.termination, r.moveOut), Within(p.actualOut, r.moveOut)
        PROVE  BookingOf(PatchedRow(r, p)) = BookingOf(r)
    <3>1. Within(s.termination, s.moveOut) /\ Within(s.actualOut, s.moveOut)
      BY <1>1, <1>2, <2>6
    <3>2. /\ s.moveOut \in OptDate /\ s.termination \in OptDate /\ s.actualOut \in OptDate
      BY <1>1, RowDates
    <3>3. RowEnd(s) = s.moveOut
      BY <3>1, <3>2, ReachedEndStays DEF RowEnd
    <3>4. Synced(s).moveOut = RowEnd(s)
      BY <1>1 DEF Synced, Row
    <3> QED
      BY <1>1, <2>1, <2>3, <3>3, <3>4 DEF BookingOf
  <2> QED
    BY <2>1, <2>2, <2>5, <2>6
<1>4. CASE ~HasData(p)
  <2>1. /\ PatchedRow(r, p) = s
        /\ s.termination = r.termination /\ s.actualOut = r.actualOut
    BY <1>4 DEF PatchedRow, HasData, s, Assigned, Patched
  <2> QED
    BY <1>1, <1>2, <2>1 DEF Behind, BookingOf
<1> QED
  BY <1>3, <1>4

-------------------------------------------------------------------------------
(***************************************************************************)
(* A step of one desk, as the others see it: no contract they have read    *)
(* goes away, and no revenue is written for them.                          *)
(***************************************************************************)

RowsKept == \A t \in Live : t \in Live' /\ Behind(rows[t], rows'[t])

OthersRest(a) ==
    \A b \in Desks \ {a} : desk'[b] = desk[b] /\ mine'[b] = mine[b] /\ home'[b] = home[b]

WritesOwn(a) == \A t \in Live : short'[t] = short[t] \/ Writing(a, t)

\* What a step of a desk leaves behind: it takes over only a contract that nobody
\* knew before, ...
TakesFresh(a) ==
    Sits(a, "revenue")' =>
        desk'[a].id \notin Live \/ (Sits(a, "revenue") /\ desk'[a].id = desk[a].id)

\* ... keeps its second tenant or gets a new one, ...
NewSecond(a) ==
    InChain(a)' => \/ desk'[a].second = None
                   \/ InChain(a) /\ desk'[a].second = desk[a].second
                   \/ desk'[a].second \notin known

\* ... puts nobody but its own two into a contract, ...
JoinsOwn(a) ==
    \A t \in Live :
        people'[t] = people[t] \/ (Sits(a, "join") /\ desk[a].id = t /\ people'[t] = Pair(a))

\* ... and hands over, or answers with an error for, whatever it answered for.
HandsOver(a) ==
    /\ \A x \in known' \ known : x \in Ended' \/ Placing(a, x)'
    /\ \A x \in Tenants : Placing(a, x) => x \in placed' \cup Ended' \/ Placing(a, x)'
    /\ \A t \in Live' \ Live : short'[t] > 0 => t \in Ended' \/ Writing(a, t)'
    /\ \A t \in Live : Writing(a, t) /\ short'[t] > 0 => t \in Ended' \/ Writing(a, t)'

Reports == placed \subseteq placed' /\ Ended \subseteq Ended' /\ known \subseteq known'

DeskStep(a) ==
    /\ RowsKept /\ OthersRest(a) /\ WritesOwn(a)
    /\ TakesFresh(a) /\ NewSecond(a) /\ JoinsOwn(a) /\ HandsOver(a) /\ Reports

LEMMA LiveRow ==
    ASSUME TablesSound, NEW t \in Live
    PROVE  t \in Tenancies /\ rows[t] \in Row /\ Behind(rows[t], rows[t])
BY DEF TablesSound, Live

LEMMA ListedRow ==
    ASSUME NEW L \in Listing, NEW t \in DOMAIN L
    PROVE  L[t] \in Row
BY DEF Listing

LEMMA OtherPage ==
    ASSUME TablesSound, TablesSound', RowsKept, known \subseteq known',
           NEW b \in Desks, PageSound(b), mine'[b] = mine[b], home'[b] = home[b]
    PROVE  PageSound(b)'
<1>1. home'[b] \in known' /\ mine'[b] \in Listing
  BY DEF PageSound
<1>2. ASSUME NEW t \in DOMAIN mine'[b]
      PROVE  t \in Live' /\ Behind(mine'[b][t], rows'[t])
  <2>1. t \in DOMAIN mine[b] /\ mine[b] \in Listing /\ mine'[b][t] = mine[b][t]
    BY <1>2 DEF PageSound
  <2>2. t \in Live /\ Behind(mine[b][t], rows[t]) /\ mine[b][t] \in Row
    BY <2>1, ListedRow DEF PageSound
  <2>3. t \in Live' /\ Behind(rows[t], rows'[t]) /\ rows[t] \in Row
    BY <2>2, LiveRow DEF RowsKept
  <2>4. rows'[t] \in Row
    BY <2>3 DEF TablesSound, Live
  <2>5. Behind(mine[b][t], rows'[t])
    BY <2>2, <2>3, <2>4, BehindIsTransitive
  <2> QED
    BY <2>1, <2>3, <2>5
<1> QED
  BY <1>1, <1>2 DEF PageSound

\* An edit form, and a chain, that rest while the tables change.
LEMMA RestingEdit ==
    ASSUME TablesSound, TablesSound', RowsKept, NEW b \in Desks,
           desk[b] \in EditForm, EditSound(b),
           desk'[b].id = desk[b].id, desk'[b].untouched = desk[b].untouched,
           desk'[b].termination = desk[b].termination,
           desk'[b].actualOut = desk[b].actualOut
    PROVE  EditSound(b)'
<1> DEFINE t == desk[b].id
<1>1. t \in Live /\ desk[b].termination \in OptDate /\ desk[b].actualOut \in OptDate
  BY DEF EditSound, EditForm
<1>2. t \in Live' /\ Behind(rows[t], rows'[t]) /\ rows[t] \in Row
  BY <1>1, LiveRow DEF RowsKept
<1>3. rows'[t] \in Row
  BY <1>2 DEF TablesSound, Live
<1>4. rows[t].moveOut \in OptDate /\ rows'[t].moveOut \in OptDate
  BY <1>2, <1>3, RowDates
<1>5. Within(rows[t].moveOut, rows'[t].moveOut)
  BY <1>2 DEF Behind
<1>6. ASSUME desk[b].untouched
      PROVE  /\ Within(desk[b].termination, rows'[t].moveOut)
             /\ Within(desk[b].actualOut, rows'[t].moveOut)
  <2>1. Within(desk[b].termination, rows[t].moveOut) /\ Within(desk[b].actualOut, rows[t].moveOut)
    BY <1>6 DEF EditSound
  <2> QED
    BY <2>1, <1>1, <1>4, <1>5, WithinIsTransitive
<1> QED
  BY <1>2, <1>6 DEF EditSound

LEMMA RestingChain ==
    ASSUME TablesSound, RowsKept, NEW b \in Desks, ChainSound(b),
           desk'[b] = desk[b], home'[b] = home[b],
           placed \subseteq placed', known \subseteq known',
           Sits(b, "revenue") => short'[desk[b].id] = short[desk[b].id],
           Sits(b, "reload") /\ Made(b) /\ short[desk[b].id] = 0 => short'[desk[b].id] = 0,
           desk[b].id \in Live /\ Seconded(b) /\ Peopled(b) => Peopled(b)'
    PROVE  ChainSound(b)'
<1> DEFINE t == desk[b].id
<1>1. Made(b) => Made(b)' /\ t \in Live
  BY DEF Made, RowsKept, Behind
<1>2. Found(b) => Found(b)' /\ t \in Live
  BY DEF Found, RowsKept, Behind, Open
<1>3. (Settled(b) => Settled(b)') /\ (Seconded(b) => Seconded(b)')
  BY DEF Settled, Seconded
<1>4. /\ Sits(b, "second")' <=> Sits(b, "second")
      /\ Sits(b, "contract")' <=> Sits(b, "contract")
      /\ Sits(b, "join")' <=> Sits(b, "join")
      /\ Sits(b, "revenue")' <=> Sits(b, "revenue")
      /\ Sits(b, "reload")' <=> Sits(b, "reload")
  BY DEF Sits
<1>5. /\ desk'[b].id = t /\ desk'[b].second = desk[b].second
      /\ desk'[b].draft = desk[b].draft /\ desk'[b].joined = desk[b].joined
  OBVIOUS
<1>6. CASE Sits(b, "second")
  BY <1>4, <1>5, <1>6 DEF ChainSound, Sits
<1>7. CASE Sits(b, "contract")
  BY <1>3, <1>4, <1>5, <1>7 DEF ChainSound, Sits
<1>8. CASE Sits(b, "join")
  BY <1>2, <1>3, <1>4, <1>5, <1>8 DEF ChainSound, Sits
<1>9. CASE Sits(b, "revenue")
  BY <1>1, <1>3, <1>4, <1>5, <1>9 DEF ChainSound, Sits
<1>10. CASE Sits(b, "reload")
  BY <1>1, <1>2, <1>3, <1>4, <1>5, <1>10 DEF ChainSound, Sits
<1> QED
  BY <1>6, <1>7, <1>8, <1>9, <1>10 DEF ChainSound

\* A contract that another desk's form writes the participants of keeps its own two, or
\* has been taken over.
LEMMA RestingPeople ==
    ASSUME DesksSound, TablesSound', NEW a \in Desks, DeskStep(a), NEW b \in Desks \ {a},
           desk[b].id \in Live, Seconded(b), Peopled(b), InChain(b)
    PROVE  Peopled(b)'
<1> DEFINE t == desk[b].id
<1>1. /\ desk'[b] = desk[b] /\ home'[b] = home[b] /\ known \subseteq known'
      /\ people'[t] = people[t] \/ (Sits(a, "join") /\ desk[a].id = t /\ people'[t] = Pair(a))
  BY DEF DeskStep, OthersRest, Reports, JoinsOwn
<1>2. Pair(b)' = Pair(b)
  BY <1>1 DEF Pair
<1>3. CASE people'[t] = people[t]
  <2>1. TakenOver(b) => TakenOver(b)'
    BY <1>1, <1>3 DEF TakenOver
  <2> QED
    BY <1>1, <1>2, <1>3, <2>1 DEF Peopled
<1>4. CASE Sits(a, "join") /\ people'[t] = Pair(a)
  <2>1. Found(a) /\ Seconded(a) /\ InChain(a)
    BY <1>4 DEF DesksSound, FormSound, ChainSound, Sits, InChain, Closed, Gone, OpenForm, EditForm
  <2>2. desk[a].second # None /\ desk[a].second \in known \ Residents
    BY <2>1 DEF Found, Seconded
  <2>3. desk[a].second # desk[b].second
    BY <2>1, <2>2 DEF DesksSound, OneSecond
  <2>4. [tenant |-> desk[a].second, role |-> "co_tenant"] \in people'[t]
    BY <1>4, <2>2 DEF Pair
  <2>5. desk[a].second \in known' \ (Residents \cup {desk'[b].second})
    BY <1>1, <2>2, <2>3
  <2>6. TakenOver(b)'
    BY <1>1, <2>4, <2>5 DEF TakenOver
  <2> QED
    BY <2>6 DEF Peopled
<1> QED
  BY <1>1, <1>3, <1>4

LEMMA OtherForm ==
    ASSUME DesksSound, TablesSound', NEW a \in Desks, DeskStep(a), NEW b \in Desks \ {a}
    PROVE  FormSound(b)'
<1>1. /\ TablesSound /\ RowsKept /\ placed \subseteq placed' /\ known \subseteq known'
      /\ desk'[b] = desk[b] /\ home'[b] = home[b] /\ FormSound(b) /\ FormSound(a)
  BY DEF DesksSound, DeskStep, OthersRest, Reports
<1>2. CASE desk[b] \in EditForm /\ EditSound(b)
  BY <1>1, <1>2, RestingEdit DEF FormSound
<1>3. CASE desk[b] \in ChainForm /\ ChainSound(b)
  <2> DEFINE t == desk[b].id
  <2>1. Sits(b, "revenue") => t \in Live /\ ~Writing(a, t)
    BY <1>3 DEF ChainSound, Sits, Made, Writing, DesksSound, OneWriter
  <2>2. Writing(a, t) => short[t] > 0
    BY <1>1 DEF Writing, FormSound, ChainSound, Sits, Closed, Gone, OpenForm, EditForm
  <2>3. \A u \in Live : short'[u] = short[u] \/ Writing(a, u)
    BY DEF DeskStep, WritesOwn
  <2>4. Sits(b, "revenue") => short'[t] = short[t]
    BY <2>1, <2>3
  <2>5. Sits(b, "reload") /\ Made(b) /\ short[t] = 0 => short'[t] = 0
    BY <2>2, <2>3 DEF Made
  <2>6. t \in Live /\ Seconded(b) /\ Peopled(b) => Peopled(b)'
    BY <1>3, RestingPeople DEF ChainForm, InChain
  <2>7. ChainSound(b)'
    BY <1>1, <1>3, <2>4, <2>5, <2>6, RestingChain
  <2> QED
    BY <1>1, <1>3, <2>7 DEF FormSound
<1>4. CASE desk[b] \in {Closed, Gone} \/ desk[b] \in OpenForm
  BY <1>1, <1>4 DEF FormSound
<1> QED
  BY <1>1, <1>2, <1>3, <1>4 DEF FormSound

LEMMA StepOneWriter ==
    ASSUME DesksSound, NEW a \in Desks, DeskStep(a)
    PROVE  OneWriter'
<1> SUFFICES ASSUME NEW b \in Desks, NEW c \in Desks, b # c,
                    Sits(b, "revenue")', Sits(c, "revenue")', desk'[b].id = desk'[c].id
             PROVE  FALSE
  BY DEF OneWriter
<1>1. \A d \in Desks \ {a} :
          Sits(d, "revenue")' => /\ Sits(d, "revenue") /\ desk'[d].id = desk[d].id
                                 /\ desk[d].id \in Live
  BY DEF DeskStep, OthersRest, Sits, DesksSound, FormSound, Closed, Gone, OpenForm, EditForm,
         ChainSound, Made
<1>2. Sits(a, "revenue")' =>
          desk'[a].id \notin Live \/ (Sits(a, "revenue") /\ desk'[a].id = desk[a].id)
  BY DEF DeskStep, TakesFresh
<1> QED
  BY <1>1, <1>2 DEF DesksSound, OneWriter

LEMMA StepOneSecond ==
    ASSUME DesksSound, NEW a \in Desks, DeskStep(a)
    PROVE  OneSecond'
<1>1. \A b \in Desks \ {a} : /\ InChain(b)' <=> InChain(b)
                             /\ desk'[b].second = desk[b].second
  BY DEF DeskStep, OthersRest, InChain
<1>2. \A b \in Desks : InChain(b) => desk[b].second \in known \cup {None}
  BY DEF DesksSound, FormSound, ChainSound, Seconded, Sits, InChain, Closed, Gone, OpenForm,
         EditForm
<1>3. ASSUME NEW b \in Desks \ {a}, InChain(a)', InChain(b)',
             desk'[a].second = desk'[b].second
      PROVE  desk'[a].second = None
  <2>1. InChain(b) /\ desk[b].second \in known \cup {None} /\ desk'[b].second = desk[b].second
    BY <1>1, <1>2, <1>3
  <2>2. desk'[a].second = None \/ (InChain(a) /\ desk'[a].second = desk[a].second)
    BY <1>3, <2>1 DEF DeskStep, NewSecond
  <2> QED
    BY <1>3, <2>1, <2>2 DEF DesksSound, OneSecond
<1>4. ASSUME NEW b \in Desks \ {a}, NEW c \in Desks \ {a}, b # c, InChain(b)', InChain(c)',
             desk'[b].second = desk'[c].second
      PROVE  desk'[b].second = None
  BY <1>1, <1>4 DEF DesksSound, OneSecond
<1> QED
  BY <1>3, <1>4 DEF OneSecond

LEMMA StepAccounted ==
    ASSUME DesksSound, NEW a \in Desks, DeskStep(a)
    PROVE  Accounted'
<1>1. /\ placed \subseteq placed' /\ Ended \subseteq Ended' /\ Accounted
      /\ known \subseteq Tenants
  BY DEF DesksSound, DeskStep, Reports, TablesSound
<1>2. \A b \in Desks \ {a} : \A x :
          (Placing(b, x) => Placing(b, x)') /\ (Writing(b, x) => Writing(b, x)')
  BY DEF DeskStep, OthersRest, Placing, Writing, Sits
<1>3. ASSUME NEW x \in known' \ Residents
      PROVE  x \in placed' \cup Ended' \/ \E b \in Desks : Placing(b, x)'
  <2>1. CASE x \notin known
    BY <1>3, <2>1 DEF DeskStep, HandsOver
  <2>2. CASE x \in known
    <3>1. x \in placed \cup Ended \/ \E b \in Desks : Placing(b, x)
      BY <1>1, <1>3, <2>2 DEF Accounted
    <3>2. Placing(a, x) => x \in placed' \cup Ended' \/ Placing(a, x)'
      BY <1>1, <2>2 DEF DeskStep, HandsOver
    <3> QED
      BY <1>1, <1>2, <3>1, <3>2
  <2> QED
    BY <2>1, <2>2
<1>4. ASSUME NEW t \in Live', short'[t] > 0
      PROVE  t \in Ended' \/ \E b \in Desks : Writing(b, t)'
  <2>1. CASE t \notin Live
    BY <1>4, <2>1 DEF DeskStep, HandsOver
  <2>2. CASE t \in Live /\ Writing(a, t)
    BY <1>4, <2>2 DEF DeskStep, HandsOver
  <2>3. CASE t \in Live /\ ~Writing(a, t)
    <3>1. short[t] > 0
      BY <1>4, <2>3 DEF DeskStep, WritesOwn
    <3>2. t \in Ended \/ \E b \in Desks \ {a} : Writing(b, t)
      BY <1>1, <2>3, <3>1 DEF Accounted
    <3> QED
      BY <1>1, <1>2, <3>2
  <2> QED
    BY <2>1, <2>2, <2>3
<1> QED
  BY <1>3, <1>4 DEF Accounted

\* It is enough to look at the desk that takes the step.
LEMMA StepSound ==
    ASSUME DesksSound, NEW a \in Desks, DeskStep(a), TablesSound', PageSound(a)', FormSound(a)'
    PROVE  DesksSound'
<1>1. ASSUME NEW b \in Desks \ {a}
      PROVE  PageSound(b)' /\ FormSound(b)'
  <2>1. TablesSound /\ PageSound(b)
    BY DEF DesksSound
  <2>2. RowsKept /\ known \subseteq known' /\ mine'[b] = mine[b] /\ home'[b] = home[b]
    BY DEF DeskStep, OthersRest, Reports
  <2>3. PageSound(b)'
    BY <2>1, <2>2, OtherPage
  <2> QED
    BY <2>3, OtherForm
<1> QED
  BY <1>1, StepOneWriter, StepOneSecond, StepAccounted DEF DesksSound

-------------------------------------------------------------------------------
(***************************************************************************)
(* Steps that leave the tables alone.                                      *)
(***************************************************************************)

LEMMA QuietTables ==
    ASSUME TablesSound, NEW a \in Desks, UNCHANGED stored,
           known \subseteq known', known' \subseteq Tenants,
           DOMAIN home' = Desks, DOMAIN mine' = Desks, DOMAIN desk' = Desks
    PROVE  /\ TablesSound' /\ RowsKept /\ WritesOwn(a) /\ JoinsOwn(a)
           /\ Live' = Live /\ placed' = placed
<1>1. /\ Live' = Live /\ rows' = rows /\ short' = short /\ placed' = placed
      /\ people' = people
  BY DEF stored, Live
<1>2. RowsKept
  BY <1>1 DEF RowsKept, TablesSound
<1>3. TablesSound'
  BY <1>1 DEF TablesSound
<1> QED
  BY <1>1, <1>2, <1>3 DEF WritesOwn, JoinsOwn

\* The desk that a step moves, and all the others.
LEMMA Moved ==
    ASSUME TablesSound, NEW a \in Desks, NEW f, GoTo(a, f)
    PROVE  /\ DOMAIN desk' = Desks /\ desk'[a] = f
           /\ \A b \in Desks \ {a} : desk'[b] = desk[b]
BY DEF TablesSound, GoTo

LEMMA MovedAlone ==
    ASSUME TablesSound, NEW a \in Desks, NEW f, GoTo(a, f), UNCHANGED <<home, mine>>
    PROVE  /\ DOMAIN desk' = Desks /\ DOMAIN home' = Desks /\ DOMAIN mine' = Desks
           /\ desk'[a] = f
           /\ OthersRest(a)
           /\ home'[a] = home[a] /\ mine'[a] = mine[a]
<1>1. home' = home /\ mine' = mine
  OBVIOUS
<1>2. DOMAIN home = Desks /\ DOMAIN mine = Desks
  BY DEF TablesSound
<1> QED
  BY <1>1, <1>2, Moved DEF OthersRest

\* The steps of a chain at which something is half done.
Owes(a) == desk[a].at \in {"join", "contract", "revenue"}

LEMMA IdleStep ==
    ASSUME DesksSound, NEW a \in Desks, ~Owes(a), UNCHANGED <<stored, known>>,
           Ended \subseteq Ended',
           OthersRest(a), DOMAIN home' = Desks, DOMAIN mine' = Desks, DOMAIN desk' = Desks,
           PageSound(a)', FormSound(a)', ~Sits(a, "revenue")', NewSecond(a)
    PROVE  DesksSound'
<1>1. TablesSound /\ known \subseteq Tenants /\ known' = known /\ Ended \subseteq Ended'
  BY DEF DesksSound, TablesSound
<1>2. UNCHANGED stored
  OBVIOUS
<1>3. /\ TablesSound' /\ RowsKept /\ WritesOwn(a) /\ JoinsOwn(a)
      /\ Live' = Live /\ placed' = placed
  BY <1>1, <1>2, QuietTables
<1>4. \A x : ~Placing(a, x) /\ ~Writing(a, x)
  BY DEF Owes, Placing, Writing, Sits
<1>5. HandsOver(a)
  BY <1>1, <1>3, <1>4 DEF HandsOver
<1>6. TakesFresh(a)
  BY DEF TakesFresh
<1>7. DeskStep(a)
  BY <1>1, <1>3, <1>5, <1>6 DEF DeskStep, Reports
<1> QED
  BY <1>3, <1>7, StepSound

LEMMA LoadedPage ==
    ASSUME TablesSound, NEW x
    PROVE  /\ ContractsOf(x) \in Listing
           /\ \A t \in DOMAIN ContractsOf(x) : t \in Live /\ Behind(ContractsOf(x)[t], rows[t])
<1> DEFINE T == {t \in Live : \E p \in people[t] : p.tenant = x}
<1>1. T \in SUBSET Tenancies /\ ContractsOf(x) = [t \in T |-> rows[t]]
  BY DEF ContractsOf, Live
<1>2. \A t \in T : t \in Live /\ rows[t] \in Row /\ Behind(rows[t], rows[t])
  BY LiveRow
<1> HIDE DEF T
<1>3. ContractsOf(x) \in [T -> Row]
  BY <1>1, <1>2
<1> QED
  BY <1>1, <1>2, <1>3 DEF Listing

LEMMA ListedIsListing ==
    ASSUME TablesSound
    PROVE  Listed \in Listing
<1>1. Live \in SUBSET Tenancies /\ \A t \in Live : rows[t] \in Row
  BY LiveRow DEF Live
<1>2. Listed \in [Live -> Row]
  BY <1>1 DEF Listed
<1> QED
  BY <1>1, <1>2 DEF Listing

\* The page of a desk whose tables, page and tenant stay.
LEMMA SamePage ==
    ASSUME DesksSound, NEW a \in Desks, UNCHANGED stored, known \subseteq known',
           mine'[a] = mine[a], home'[a] = home[a]
    PROVE  PageSound(a)'
<1>1. PageSound(a) /\ rows' = rows /\ Live' = Live
  BY DEF DesksSound, stored, Live
<1> QED
  BY <1>1 DEF PageSound

LEMMA VisitSound ==
    ASSUME DesksSound, NEW a \in Desks, NEW x \in known, Visit(a, x)
    PROVE  DesksSound'
<1>1. /\ desk[a] \in {Closed, Gone} /\ GoTo(a, Closed)
      /\ UNCHANGED stored
      /\ known' = known /\ Ended' = Ended
      /\ home' = [home EXCEPT ![a] = x] /\ mine' = [mine EXCEPT ![a] = ContractsOf(x)]
  BY DEF Visit, messages, Ended
<1>2. TablesSound
  BY DEF DesksSound
<1>3. /\ DOMAIN desk' = Desks /\ desk'[a] = Closed /\ \A b \in Desks \ {a} : desk'[b] = desk[b]
  BY <1>1, <1>2, Moved
<1>4. /\ DOMAIN home' = Desks /\ DOMAIN mine' = Desks
      /\ OthersRest(a) /\ home'[a] = x /\ mine'[a] = ContractsOf(x)
  BY <1>1, <1>2, <1>3 DEF TablesSound, OthersRest
<1>5. PageSound(a)'
  <2>1. rows' = rows /\ Live' = Live
    BY <1>1 DEF stored, Live
  <2> QED
    BY <1>1, <1>2, <1>4, <2>1, LoadedPage DEF PageSound
<1>6. FormSound(a)' /\ ~Sits(a, "revenue")' /\ ~Owes(a) /\ NewSecond(a)
  BY <1>1, <1>3 DEF FormSound, Sits, Owes, Closed, Gone, NewSecond, InChain
<1> QED
  BY <1>1, <1>3, <1>4, <1>5, <1>6, IdleStep

LEMMA OpenAssignFormSound ==
    ASSUME DesksSound, NEW a \in Desks, OpenAssignForm(a)
    PROVE  DesksSound'
<1> DEFINE f == [at |-> "form", list |-> Listed]
<1>1. /\ Sits(a, "closed") /\ UNCHANGED <<stored, known>> /\ GoTo(a, f)
      /\ UNCHANGED <<home, mine>> /\ UNCHANGED stored
      /\ known' = known /\ Ended' = Ended
  BY DEF OpenAssignForm, messages, Ended
<1>2. TablesSound
  BY DEF DesksSound
<1>3. f \in OpenForm /\ f.at = "form"
  BY <1>2, ListedIsListing DEF OpenForm
<1> HIDE DEF f
<1>4. /\ DOMAIN desk' = Desks /\ DOMAIN home' = Desks /\ DOMAIN mine' = Desks /\ desk'[a] = f
      /\ OthersRest(a) /\ home'[a] = home[a] /\ mine'[a] = mine[a]
  BY <1>1, <1>2, MovedAlone
<1>5. PageSound(a)'
  BY <1>1, <1>4, SamePage
<1>6. FormSound(a)' /\ ~Sits(a, "revenue")' /\ ~Owes(a) /\ NewSecond(a)
  BY <1>1, <1>3, <1>4 DEF FormSound, Sits, Owes, NewSecond, InChain
<1> QED
  BY <1>1, <1>4, <1>5, <1>6, IdleStep

LEMMA SubmitSound ==
    ASSUME DesksSound, NEW a \in Desks, NEW d \in Drafts, Submit(a, d)
    PROVE  DesksSound'
<1> DEFINE status == StoredTenancyStatusForApi(
                        DeriveTenancyLifecyclePreviewForAssign(
                            d.moveIn, d.termination, d.actualOut, today))
           f == [at |-> IF d.second THEN "second" ELSE "contract",
                 list |-> desk[a].list, draft |-> d, second |-> None, id |-> None,
                 watched |-> TRUE, joined |-> FALSE, status |-> status]
<1>1. /\ Sits(a, "form") /\ UNCHANGED <<stored, known>> /\ GoTo(a, f)
      /\ UNCHANGED <<home, mine>> /\ UNCHANGED stored
      /\ known' = known /\ Ended' = Ended
  BY DEF Submit, messages, Ended
<1>2. TablesSound /\ FormSound(a)
  BY DEF DesksSound
<1>3. status \in Status
  BY DEF StoredTenancyStatusForApi, DeriveTenancyLifecyclePreviewForAssign, Status
<1>4. desk[a].list \in Listing
  BY <1>1, <1>2 DEF FormSound, Sits, OpenForm, EditForm, ChainForm, Closed, Gone
<1> HIDE DEF status
<1>5. /\ f \in ChainForm
      /\ f.at = (IF f.draft.second THEN "second" ELSE "contract")
      /\ f.second = None /\ f.id = None /\ ~f.joined
  BY <1>3, <1>4, DraftAssumption DEF ChainForm, Draft
<1> HIDE DEF f
<1>6. /\ DOMAIN desk' = Desks /\ DOMAIN home' = Desks /\ DOMAIN mine' = Desks /\ desk'[a] = f
      /\ OthersRest(a) /\ home'[a] = home[a] /\ mine'[a] = mine[a]
  BY <1>1, <1>2, MovedAlone
<1>7. PageSound(a)'
  BY <1>1, <1>6, SamePage
<1>8. ChainSound(a)'
  BY <1>5, <1>6 DEF ChainSound, Seconded, Sits
<1>9. FormSound(a)' /\ ~Sits(a, "revenue")' /\ ~Owes(a) /\ NewSecond(a)
  BY <1>1, <1>5, <1>6, <1>8 DEF FormSound, Sits, Owes, NewSecond, InChain
<1> QED
  BY <1>1, <1>6, <1>7, <1>9, IdleStep

LEMMA CancelSound ==
    ASSUME DesksSound, NEW a \in Desks, Cancel(a)
    PROVE  DesksSound'
<1>1. /\ desk[a].at \in {"form", "edit"} /\ UNCHANGED <<stored, known>>
      /\ GoTo(a, Closed) /\ UNCHANGED <<home, mine>> /\ UNCHANGED stored
      /\ known' = known /\ Ended' = Ended
  BY DEF Cancel, messages, Ended
<1>2. /\ DOMAIN desk' = Desks /\ DOMAIN home' = Desks /\ DOMAIN mine' = Desks
      /\ desk'[a] = Closed
      /\ OthersRest(a) /\ home'[a] = home[a] /\ mine'[a] = mine[a]
  BY <1>1, MovedAlone DEF DesksSound
<1>3. PageSound(a)'
  BY <1>1, <1>2, SamePage
<1>4. FormSound(a)' /\ ~Sits(a, "revenue")' /\ ~Owes(a) /\ NewSecond(a)
  BY <1>1, <1>2 DEF FormSound, Sits, Owes, Closed, NewSecond, InChain
<1> QED
  BY <1>1, <1>2, <1>3, <1>4, IdleStep

\* The form opens with dates of the row the page has, which the stay reaches.
LEMMA StartTenancyEditSound ==
    ASSUME DesksSound, NEW a \in Desks, NEW t \in Tenancies, StartTenancyEdit(a, t)
    PROVE  DesksSound'
<1> DEFINE r == mine[a][t]
           te == IF r.termination # None THEN r.termination ELSE r.moveOut
           f == [at |-> "edit", id |-> t, termination |-> te, actualOut |-> r.actualOut,
                 untouched |-> TRUE]
<1>1. /\ Sits(a, "closed") /\ t \in DOMAIN mine[a] /\ UNCHANGED <<stored, known>>
      /\ GoTo(a, f) /\ UNCHANGED <<home, mine>> /\ UNCHANGED stored
      /\ known' = known /\ Ended' = Ended
  BY DEF StartTenancyEdit, messages, Ended
<1>2. TablesSound /\ PageSound(a)
  BY DEF DesksSound
<1>3. r \in Row /\ t \in Live /\ Behind(r, rows[t])
  BY <1>1, <1>2, ListedRow DEF PageSound
<1>4. te \in OptDate /\ r.actualOut \in OptDate
  BY <1>3, RowDates
<1>5. Within(te, rows[t].moveOut) /\ Within(r.actualOut, rows[t].moveOut)
  BY <1>3 DEF Behind
<1> HIDE DEF te, r
<1>6. f \in EditForm /\ f.at = "edit" /\ f.id = t /\ f.termination = te
      /\ f.actualOut = r.actualOut
  BY <1>4 DEF EditForm
<1> HIDE DEF f
<1>7. /\ DOMAIN desk' = Desks /\ DOMAIN home' = Desks /\ DOMAIN mine' = Desks /\ desk'[a] = f
      /\ OthersRest(a) /\ home'[a] = home[a] /\ mine'[a] = mine[a]
  BY <1>1, <1>2, MovedAlone
<1>8. PageSound(a)'
  BY <1>1, <1>7, SamePage
<1>9. rows' = rows /\ Live' = Live
  BY <1>1 DEF stored, Live
<1>10. EditSound(a)'
  BY <1>3, <1>5, <1>6, <1>7, <1>9 DEF EditSound
<1>11. FormSound(a)' /\ ~Sits(a, "revenue")' /\ ~Owes(a) /\ NewSecond(a)
  BY <1>1, <1>6, <1>7, <1>10 DEF FormSound, Sits, Owes, NewSecond, InChain
<1> QED
  BY <1>1, <1>7, <1>8, <1>11, IdleStep

LEMMA EditShape ==
    ASSUME NEW a \in Desks, FormSound(a), desk[a].at \in {"edit", "reloadEdit"}
    PROVE  desk[a] \in EditForm /\ EditSound(a)
BY DEF FormSound, Closed, Gone, OpenForm, ChainForm

LEMMA ChangeTenancyEditSound ==
    ASSUME DesksSound, NEW a \in Desks, NEW e \in EditDates,
           ChangeTenancyEdit(a, e[1], e[2])
    PROVE  DesksSound'
<1> DEFINE f == [desk[a] EXCEPT !.termination = e[1], !.actualOut = e[2], !.untouched = FALSE]
<1>1. /\ Sits(a, "edit") /\ UNCHANGED <<stored, known>>
      /\ GoTo(a, f) /\ UNCHANGED <<home, mine>> /\ UNCHANGED stored
      /\ known' = known /\ Ended' = Ended
  BY DEF ChangeTenancyEdit, messages, Ended
<1>2. TablesSound /\ FormSound(a)
  BY DEF DesksSound
<1>3. desk[a] \in EditForm /\ EditSound(a)
  BY <1>1, <1>2, EditShape DEF Sits
<1>4. e[1] \in OptDate /\ e[2] \in OptDate
  BY DraftAssumption
<1>5. f \in EditForm /\ f.at = desk[a].at /\ f.id = desk[a].id /\ f.untouched = FALSE
  BY <1>3, <1>4 DEF EditForm
<1> HIDE DEF f
<1>6. /\ DOMAIN desk' = Desks /\ DOMAIN home' = Desks /\ DOMAIN mine' = Desks /\ desk'[a] = f
      /\ OthersRest(a) /\ home'[a] = home[a] /\ mine'[a] = mine[a]
  BY <1>1, <1>2, MovedAlone
<1>7. PageSound(a)'
  BY <1>1, <1>6, SamePage
<1>8. rows' = rows /\ Live' = Live
  BY <1>1 DEF stored, Live
<1>9. EditSound(a)'
  BY <1>3, <1>5, <1>6, <1>8 DEF EditSound
<1>10. FormSound(a)' /\ ~Sits(a, "revenue")' /\ ~Owes(a) /\ NewSecond(a)
  BY <1>1, <1>5, <1>6, <1>9 DEF FormSound, Sits, Owes, NewSecond, InChain
<1> QED
  BY <1>1, <1>6, <1>7, <1>10, IdleStep

-------------------------------------------------------------------------------
(***************************************************************************)
(* The chain of requests.                                                  *)
(***************************************************************************)

LEMMA ChainShape ==
    ASSUME NEW a \in Desks, FormSound(a), InChain(a)
    PROVE  /\ desk[a] \in ChainForm /\ ChainSound(a)
           /\ desk[a].list \in Listing /\ desk[a].draft \in Drafts
           /\ desk[a].second \in Tenants \cup {None} /\ desk[a].id \in Tenancies \cup {None}
BY DEF FormSound, InChain, Closed, Gone, OpenForm, EditForm, ChainForm

\* Leaving a form that is not at work, and turning away from one that is.
LEMMA LeaveSound ==
    ASSUME DesksSound, NEW a \in Desks, Leave(a)
    PROVE  DesksSound'
<1> DEFINE f == [desk[a] EXCEPT !.watched = FALSE]
<1>1. /\ GoTo(a, IF InChain(a) THEN f ELSE Gone) /\ UNCHANGED stored /\ UNCHANGED <<home, mine>>
      /\ known' = known /\ Ended' = Ended
  BY DEF Leave, messages, Ended
<1>2. TablesSound /\ FormSound(a)
  BY DEF DesksSound
<1>3. /\ DOMAIN desk' = Desks /\ DOMAIN home' = Desks /\ DOMAIN mine' = Desks
      /\ desk'[a] = (IF InChain(a) THEN f ELSE Gone)
      /\ OthersRest(a) /\ home'[a] = home[a] /\ mine'[a] = mine[a]
  <2> DEFINE g == IF InChain(a) THEN f ELSE Gone
  <2> HIDE DEF g
  <2>1. GoTo(a, g)
    BY <1>1 DEF g
  <2>2. /\ DOMAIN desk' = Desks /\ DOMAIN home' = Desks /\ DOMAIN mine' = Desks
        /\ desk'[a] = g
        /\ OthersRest(a) /\ home'[a] = home[a] /\ mine'[a] = mine[a]
    BY <1>1, <1>2, <2>1, MovedAlone
  <2> QED
    BY <2>2 DEF g
<1>4. PageSound(a)'
  BY <1>1, <1>3, SamePage
<1>5. CASE ~InChain(a)
  <2>1. desk'[a] = Gone
    BY <1>3, <1>5
  <2>2. FormSound(a)' /\ ~Sits(a, "revenue")' /\ ~Owes(a) /\ NewSecond(a)
    BY <1>5, <2>1 DEF FormSound, Sits, Owes, Gone, NewSecond, InChain
  <2> QED
    BY <1>1, <1>3, <1>4, <2>2, IdleStep
<1>6. CASE InChain(a)
  <2>1. desk[a] \in ChainForm /\ ChainSound(a)
    BY <1>2, <1>6, ChainShape
  <2>2. /\ f \in ChainForm /\ f.at = desk[a].at /\ f.id = desk[a].id
        /\ f.second = desk[a].second /\ f.draft = desk[a].draft /\ f.joined = desk[a].joined
    BY <2>1 DEF ChainForm
  <2>3. desk'[a] = f
    BY <1>3, <1>6
  <2> HIDE DEF f
  <2>4. /\ TablesSound' /\ RowsKept /\ WritesOwn(a) /\ JoinsOwn(a)
        /\ Live' = Live /\ placed' = placed /\ known' \subseteq Tenants
    BY <1>1, <1>2, <1>3, QuietTables DEF TablesSound
  <2>5. rows' = rows /\ short' = short /\ people' = people
    BY <1>1 DEF stored
  <2>6. ChainSound(a)'
    <3>1. (Made(a) => Made(a)') /\ (Found(a) => Found(a)')
      BY <2>2, <2>3, <2>4, <2>5 DEF Made, Found, Open
    <3>2. (Settled(a) => Settled(a)') /\ (Seconded(a) => Seconded(a)')
      BY <1>1, <2>2, <2>3, <2>4 DEF Settled, Seconded
    <3>3. Peopled(a) => Peopled(a)'
      BY <1>1, <1>3, <2>2, <2>3, <2>5 DEF Peopled, Pair, TakenOver
    <3> QED
      BY <2>1, <2>2, <2>3, <2>5, <3>1, <3>2, <3>3 DEF ChainSound, Sits
  <2>7. /\ \A x : Placing(a, x) <=> Placing(a, x)'
        /\ \A x : Writing(a, x) <=> Writing(a, x)'
        /\ FormSound(a)' /\ InChain(a)'
    BY <1>6, <2>2, <2>3, <2>6 DEF Placing, Writing, Sits, FormSound, InChain
  <2>8. HandsOver(a)
    BY <1>1, <2>4, <2>7 DEF HandsOver
  <2>9. TakesFresh(a) /\ NewSecond(a)
    BY <1>6, <2>2, <2>3 DEF TakesFresh, NewSecond, Sits
  <2>10. DeskStep(a)
    BY <1>1, <1>3, <2>4, <2>8, <2>9 DEF DeskStep, Reports
  <2> QED
    BY <1>4, <2>4, <2>7, <2>10, StepSound
<1> QED
  BY <1>5, <1>6

\* An error hands over everything the chain has made.
LEMMA GivenUp ==
    ASSUME TablesSound, NEW a \in Desks, FormSound(a), InChain(a), NEW made,
           GiveUp(a, made), UNCHANGED <<home, mine>>
    PROVE  /\ DOMAIN desk' = Desks /\ DOMAIN home' = Desks /\ DOMAIN mine' = Desks
           /\ desk'[a] = Gone \/ desk'[a] \in OpenForm
           /\ OthersRest(a)
           /\ home'[a] = home[a] /\ mine'[a] = mine[a]
           /\ Ended' = Ended \cup (made \ {None})
           /\ FormSound(a)' /\ ~Sits(a, "revenue")' /\ TakesFresh(a) /\ NewSecond(a)
<1> DEFINE f == [at |-> "form", list |-> desk[a].list]
           g == IF desk[a].watched THEN f ELSE Gone
<1>1. GoTo(a, g) /\ Ended' = Ended \cup (made \ {None})
  BY DEF GiveUp, Ended
<1>2. (g = Gone \/ g \in OpenForm) /\ g.at \in {"form", "gone"}
  BY ChainShape DEF OpenForm, Gone
<1> HIDE DEF g
<1>3. /\ DOMAIN desk' = Desks /\ DOMAIN home' = Desks /\ DOMAIN mine' = Desks /\ desk'[a] = g
      /\ OthersRest(a) /\ home'[a] = home[a] /\ mine'[a] = mine[a]
  BY <1>1, MovedAlone
<1>4. FormSound(a)' /\ ~Sits(a, "revenue")' /\ ~InChain(a)'
  BY <1>2, <1>3 DEF FormSound, Sits, InChain
<1> QED
  BY <1>1, <1>2, <1>3, <1>4 DEF TakesFresh, NewSecond

\* A step of the chain that leaves the tables alone and gives up.
LEMMA QuietGiveUp ==
    ASSUME DesksSound, NEW a \in Desks, InChain(a), UNCHANGED <<stored, home, mine>>,
           known \subseteq known', known' \subseteq Tenants,
           NEW made, GiveUp(a, made), Done(a) \cup (known' \ known) \subseteq made \cup {None}
    PROVE  DesksSound'
<1>1. TablesSound /\ FormSound(a) /\ UNCHANGED <<home, mine>> /\ UNCHANGED stored
  BY DEF DesksSound
<1>2. /\ DOMAIN desk' = Desks /\ DOMAIN home' = Desks /\ DOMAIN mine' = Desks
      /\ OthersRest(a)
      /\ home'[a] = home[a] /\ mine'[a] = mine[a]
      /\ Ended' = Ended \cup (made \ {None})
      /\ FormSound(a)' /\ TakesFresh(a) /\ NewSecond(a)
  BY <1>1, GivenUp
<1>3. /\ TablesSound' /\ RowsKept /\ WritesOwn(a) /\ JoinsOwn(a)
      /\ Live' = Live /\ placed' = placed
  BY <1>1, <1>2, QuietTables
<1>4. None \notin Tenants /\ None \notin Live
  BY DraftAssumption DEF Live
<1>5. /\ \A x \in known' \ known : x \in Ended'
      /\ \A x \in Tenants : Placing(a, x) => x \in Ended'
      /\ \A t \in Live : Writing(a, t) => t \in Ended'
  BY <1>2, <1>4 DEF Placing, Writing, Done
<1>6. HandsOver(a)
  BY <1>3, <1>5 DEF HandsOver
<1>7. DeskStep(a)
  BY <1>2, <1>3, <1>6 DEF DeskStep, Reports
<1>8. PageSound(a)'
  BY <1>1, <1>2, SamePage
<1> QED
  BY <1>2, <1>3, <1>7, <1>8, StepSound

LEMMA ChainFailsSound ==
    ASSUME DesksSound, NEW a \in Desks, ChainFails(a)
    PROVE  DesksSound'
<1>1. /\ InChain(a) /\ GiveUp(a, Done(a)) /\ UNCHANGED <<stored, home, mine>> /\ known' = known
      /\ known \subseteq Tenants
  BY DEF ChainFails, DesksSound, TablesSound
<1>2. Done(a) \cup (known' \ known) \subseteq Done(a) \cup {None}
  BY <1>1
<1> QED
  BY <1>1, <1>2, QuietGiveUp

\* The contract found for the second tenant is open, of the room, and still there.
LEMMA FoundIsOpen ==
    ASSUME TablesSound, NEW a \in Desks, PageSound(a), NEW room,
           NEW t, t = FindOpenPrimaryTenancyForRoom(room, mine[a]), t # None
    PROVE  t \in Live /\ t \in Tenancies /\ rows[t].room = room /\ Open(rows[t])
<1> DEFINE open == OpenIn(room, mine[a])
<1>1. open # {} /\ t = CHOOSE u \in open : \A v \in open : mine[a][v].moveIn <= mine[a][u].moveIn
  BY DEF FindOpenPrimaryTenancyForRoom
<1>2. \A u \in open : /\ u \in DOMAIN mine[a] /\ mine[a][u].room = room /\ Open(mine[a][u])
                      /\ u \in Live /\ Behind(mine[a][u], rows[u]) /\ mine[a][u] \in Row
  BY ListedRow DEF OpenIn, ForRoom, PageSound
<1> DEFINE days == {mine[a][u].moveIn : u \in open}
<1> HIDE DEF open
<1>3. \A u \in open : mine[a][u].moveIn \in Date
  BY <1>2, RowDates
<1>4. days \in SUBSET Date /\ days # {}
  BY <1>1, <1>3
<1>5. \E d \in days : \A e \in days : e <= d
  <2> HIDE DEF days
  <2> QED
    BY <1>4, LatestDay
<1>6. \E u \in open : \A v \in open : mine[a][v].moveIn <= mine[a][u].moveIn
  BY <1>5
<1>7. t \in open
  BY <1>1, <1>6
<1>8. t \in Live /\ rows[t].room = room /\ rows[t].status = mine[a][t].status
  BY <1>2, <1>7 DEF Behind
<1> QED
  BY <1>2, <1>7, <1>8 DEF Open, Live

LEMMA CreateSecondSound ==
    ASSUME DesksSound, NEW a \in Desks, NEW x \in Tenants, NEW heard \in BOOLEAN,
           CreateSecond(a, x, heard)
    PROVE  DesksSound'
<1> DEFINE t == FindOpenPrimaryTenancyForRoom(desk[a].draft.room, mine[a])
           f == [desk[a] EXCEPT !.at = IF t = None THEN "contract" ELSE "join",
                                !.second = x, !.id = t]
<1>1. /\ Sits(a, "second") /\ x \notin known /\ known' = known \cup {x}
      /\ UNCHANGED <<stored, home, mine>> /\ UNCHANGED stored /\ UNCHANGED <<home, mine>>
      /\ heard => GoTo(a, f) /\ Ended' = Ended
      /\ ~heard => GiveUp(a, {x})
  BY DEF CreateSecond, messages, Ended
<1>2. TablesSound /\ FormSound(a) /\ PageSound(a) /\ InChain(a)
      /\ known \subseteq known' /\ known' \subseteq Tenants
  BY <1>1 DEF DesksSound, TablesSound, InChain, Sits
<1>3. /\ desk[a] \in ChainForm /\ ChainSound(a)
  BY <1>2, ChainShape
<1>4. /\ desk[a].second = None /\ desk[a].id = None /\ desk[a].draft.second
      /\ ~desk[a].joined /\ x \notin Residents /\ x # None
  BY <1>1, <1>2, <1>3, DraftAssumption DEF ChainSound, Sits, TablesSound
<1>5. CASE ~heard
  <2>1. Done(a) \cup (known' \ known) \subseteq {x} \cup {None}
    BY <1>1, <1>4 DEF Done
  <2> QED
    BY <1>1, <1>2, <1>5, <2>1, QuietGiveUp
<1>6. CASE heard
  <2>1. t # None => /\ t \in Live /\ t \in Tenancies
                    /\ rows[t].room = desk[a].draft.room /\ Open(rows[t])
    BY <1>2, FoundIsOpen
  <2> HIDE DEF t
  <2>2. /\ f \in ChainForm
        /\ f.at = (IF t = None THEN "contract" ELSE "join")
        /\ f.second = x /\ f.id = t /\ f.draft = desk[a].draft /\ f.joined = desk[a].joined
    BY <1>3, <2>1 DEF ChainForm
  <2>3. GoTo(a, f) /\ Ended' = Ended
    BY <1>1, <1>6
  <2> HIDE DEF f
  <2>4. /\ DOMAIN desk' = Desks /\ DOMAIN home' = Desks /\ DOMAIN mine' = Desks /\ desk'[a] = f
        /\ OthersRest(a) /\ home'[a] = home[a] /\ mine'[a] = mine[a]
    BY <1>1, <1>2, <2>3, MovedAlone
  <2>5. /\ TablesSound' /\ RowsKept /\ WritesOwn(a) /\ JoinsOwn(a)
        /\ Live' = Live /\ placed' = placed
    BY <1>1, <1>2, <2>4, QuietTables
  <2>6. rows' = rows
    BY <1>1 DEF stored
  <2>7. ChainSound(a)'
    <3> Seconded(a)'
      BY <1>1, <1>4, <2>2, <2>4 DEF Seconded
    <3>1. CASE t = None
      BY <1>4, <2>2, <2>4, <3>1 DEF ChainSound, Sits
    <3>2. CASE t # None
      <4>1. Found(a)'
        BY <1>4, <2>1, <2>2, <2>4, <2>5, <2>6, <3>2 DEF Found, Open
      <4> QED
        BY <2>2, <2>4, <3>2, <4>1 DEF ChainSound, Sits
    <3> QED
      BY <3>1, <3>2
  <2>8. FormSound(a)' /\ ~Sits(a, "revenue")'
    BY <2>2, <2>4, <2>7 DEF FormSound, Sits
  <2>9. PageSound(a)'
    BY <1>1, <1>2, <2>4, SamePage
  <2>10. Placing(a, x)' /\ (\A y : ~Placing(a, y) /\ ~Writing(a, y))
    BY <1>1, <2>2, <2>4 DEF Placing, Writing, Sits
  <2>11. HandsOver(a)
    BY <1>1, <2>5, <2>10 DEF HandsOver
  <2>12. DeskStep(a)
    BY <1>1, <1>2, <2>2, <2>3, <2>4, <2>5, <2>8, <2>11
       DEF DeskStep, Reports, TakesFresh, NewSecond
  <2> QED
    BY <2>5, <2>8, <2>9, <2>12, StepSound
<1> QED
  BY <1>5, <1>6

-------------------------------------------------------------------------------
(***************************************************************************)
(* Steps that write the tables.                                            *)
(***************************************************************************)

\* A row that is written over, and one that is added.
LEMMA WrittenRow ==
    ASSUME TablesSound, NEW t \in Live, NEW r \in Row, Behind(rows[t], r), Behind(r, r),
           rows' = [rows EXCEPT ![t] = r], UNCHANGED <<short, known>>,
           DOMAIN people' = Tenancies,
           DOMAIN home' = Desks, DOMAIN mine' = Desks, DOMAIN desk' = Desks
    PROVE  TablesSound' /\ RowsKept /\ Live' = Live /\ rows'[t] = r
<1>1. r # None /\ rows \in [Tenancies -> Row \cup {None}] /\ t \in Tenancies
  BY NoRowAssumption DEF TablesSound, Live
<1>2. /\ rows' \in [Tenancies -> Row \cup {None}] /\ rows'[t] = r
      /\ \A u \in Tenancies \ {t} : rows'[u] = rows[u]
  BY <1>1
<1>3. Live' = Live
  BY <1>1, <1>2 DEF Live
<1>4. \A u \in Live : Behind(rows[u], rows[u])
  BY DEF TablesSound
<1>5. RowsKept /\ \A u \in Live' : Behind(rows'[u], rows'[u])
  BY <1>2, <1>3, <1>4 DEF RowsKept, Live
<1>6. short' = short /\ known' = known
  OBVIOUS
<1>7. TablesSound'
  BY <1>2, <1>5, <1>6 DEF TablesSound
<1> QED
  BY <1>2, <1>3, <1>5, <1>7

LEMMA AddedRow ==
    ASSUME TablesSound, NEW t \in Tenancies, t \notin Live, NEW r \in Row, Behind(r, r),
           rows' = [rows EXCEPT ![t] = r],
           short' \in [Tenancies -> Nat], UNCHANGED known, DOMAIN people' = Tenancies,
           DOMAIN home' = Desks, DOMAIN mine' = Desks, DOMAIN desk' = Desks
    PROVE  TablesSound' /\ RowsKept /\ Live' = Live \cup {t} /\ rows'[t] = r
<1>1. r # None /\ rows \in [Tenancies -> Row \cup {None}]
  BY NoRowAssumption DEF TablesSound
<1>2. /\ rows' \in [Tenancies -> Row \cup {None}] /\ rows'[t] = r
      /\ \A u \in Tenancies \ {t} : rows'[u] = rows[u]
  BY <1>1
<1>3. Live' = Live \cup {t}
  BY <1>1, <1>2 DEF Live
<1>4. \A u \in Live : u \in Tenancies \ {t} /\ Behind(rows[u], rows[u])
  BY DEF TablesSound, Live
<1>5. RowsKept /\ \A u \in Live' : Behind(rows'[u], rows'[u])
  BY <1>2, <1>3, <1>4 DEF RowsKept
<1>6. TablesSound'
  BY <1>2, <1>5 DEF TablesSound
<1> QED
  BY <1>2, <1>3, <1>5, <1>6

\* The page of a desk whose step writes the tables but does not load.
LEMMA StalePage ==
    ASSUME DesksSound, TablesSound', NEW a \in Desks, RowsKept, known' = known,
           home'[a] = home[a], mine'[a] = mine[a]
    PROVE  PageSound(a)'
<1>1. TablesSound /\ PageSound(a) /\ known \subseteq known'
  BY DEF DesksSound
<1> QED
  BY <1>1, OtherPage

LEMMA JoinSound ==
    ASSUME DesksSound, NEW a \in Desks, NEW heard \in BOOLEAN, Join(a, heard)
    PROVE  DesksSound'
<1> DEFINE t == desk[a].id
           r == [rows[t] EXCEPT !.tenant = home[a]]
           f == [desk[a] EXCEPT !.at = "reload", !.joined = TRUE]
<1>1. /\ Sits(a, "join") /\ rows' = [rows EXCEPT ![t] = r]
      /\ people' = [people EXCEPT ![t] = Pair(a)]
      /\ placed' = placed \cup ({desk[a].second} \ {None})
      /\ heard => GoTo(a, f) /\ Ended' = Ended
      /\ ~heard => GiveUp(a, Done(a))
      /\ UNCHANGED <<short, known, home, mine>>
      /\ UNCHANGED <<short, known>> /\ UNCHANGED <<home, mine>> /\ known' = known /\ short' = short
  BY DEF Join, Places, messages, Ended
<1>2. TablesSound /\ FormSound(a) /\ PageSound(a) /\ InChain(a)
  BY <1>1 DEF DesksSound, InChain, Sits
<1>3. desk[a] \in ChainForm /\ Found(a) /\ Seconded(a)
  BY <1>1, <1>2, ChainShape DEF ChainSound, Sits
<1>4. /\ t \in Live /\ rows[t].room = desk[a].draft.room /\ Open(rows[t])
      /\ desk[a].draft.second
  BY <1>3 DEF Found
<1>5. rows[t] \in Row /\ Behind(rows[t], rows[t]) /\ home[a] \in Tenants
  BY <1>2, <1>4, LiveRow DEF TablesSound, PageSound
<1>6. /\ r \in Row /\ r.room = rows[t].room /\ r.moveIn = rows[t].moveIn
      /\ r.moveOut = rows[t].moveOut /\ r.termination = rows[t].termination
      /\ r.actualOut = rows[t].actualOut /\ r.status = rows[t].status
  BY <1>5 DEF Row
<1>7. Behind(rows[t], r) /\ Behind(r, r)
  BY <1>5, <1>6 DEF Behind
<1> HIDE DEF r
<1>8. /\ \A x \in Tenants : Placing(a, x) => x \in placed'
      /\ \A u : ~Writing(a, u)
      /\ desk[a].second \in placed' \cup {None}
  BY <1>1, DraftAssumption DEF Placing, Writing, Sits
<1>9. /\ DOMAIN desk' = Desks /\ DOMAIN home' = Desks /\ DOMAIN mine' = Desks
      /\ OthersRest(a) /\ home'[a] = home[a] /\ mine'[a] = mine[a]
      /\ heard => desk'[a] = f
      /\ ~heard => FormSound(a)'
      /\ TakesFresh(a) /\ NewSecond(a) /\ Ended \subseteq Ended'
  <2>1. CASE heard
    <3>1. f.at = "reload" /\ f.second = desk[a].second
      BY <1>3 DEF ChainForm
    <3> HIDE DEF f
    <3>2. /\ DOMAIN desk' = Desks /\ DOMAIN home' = Desks /\ DOMAIN mine' = Desks
          /\ OthersRest(a) /\ home'[a] = home[a] /\ mine'[a] = mine[a] /\ desk'[a] = f
      BY <1>1, <1>2, <2>1, MovedAlone
    <3> QED
      BY <1>1, <1>2, <2>1, <3>1, <3>2 DEF TakesFresh, NewSecond, Sits
  <2>2. CASE ~heard
    BY <1>1, <1>2, <2>2, GivenUp
  <2> QED
    BY <2>1, <2>2
<1>10. /\ people'[t] = Pair(a) /\ DOMAIN people' = Tenancies
       /\ \A u \in Live \ {t} : people'[u] = people[u]
  BY <1>1, <1>2, <1>4 DEF TablesSound, Live
<1>11. TablesSound' /\ RowsKept /\ Live' = Live /\ rows'[t] = r
  BY <1>1, <1>2, <1>4, <1>6, <1>7, <1>9, <1>10, WrittenRow
<1>12. FormSound(a)'
  <2>1. CASE heard
    <3>1. f \in ChainForm /\ f.at = "reload" /\ f.id = t /\ f.second = desk[a].second
          /\ f.draft = desk[a].draft /\ f.joined
      BY <1>3 DEF ChainForm
    <3>2. desk'[a] = f
      BY <1>9, <2>1
    <3> HIDE DEF f
    <3>3. Found(a)' /\ Settled(a)' /\ Seconded(a)'
      BY <1>1, <1>3, <1>4, <1>6, <1>8, <1>11, <3>1, <3>2
         DEF Found, Settled, Seconded, Open
    <3>4. Peopled(a)'
      BY <1>1, <1>9, <1>10, <3>1, <3>2 DEF Peopled, Pair
    <3> QED
      BY <3>1, <3>2, <3>3, <3>4 DEF FormSound, ChainSound, Sits
  <2> QED
    BY <1>9, <2>1
<1>13. HandsOver(a)
  BY <1>1, <1>8, <1>11 DEF HandsOver
<1>14. DeskStep(a)
  BY <1>1, <1>9, <1>11, <1>13, <1>10 DEF DeskStep, Reports, WritesOwn, JoinsOwn
<1>15. PageSound(a)'
  BY <1>1, <1>9, <1>11, StalePage
<1> QED
  BY <1>11, <1>12, <1>14, <1>15, StepSound

LEMMA CreateContractSound ==
    ASSUME DesksSound, NEW a \in Desks, NEW t \in Tenancies, NEW heard \in BOOLEAN,
           CreateContract(a, t, heard)
    PROVE  DesksSound'
<1> DEFINE c == BodyOf(a)
           r == NewRow(c)
           n == desk[a].draft.revenue
           f == [desk[a] EXCEPT !.at = IF n = 0 THEN "reload" ELSE "revenue", !.id = t]
<1>1. /\ Sits(a, "contract") /\ Accepted(a, t) /\ rows' = [rows EXCEPT ![t] = r]
      /\ short' = [short EXCEPT ![t] = n] /\ people' = [people EXCEPT ![t] = Pair(a)]
      /\ placed' = placed \cup ({desk[a].second} \ {None})
      /\ heard => GoTo(a, f) /\ Ended' = Ended
      /\ ~heard => GiveUp(a, Done(a) \cup {t})
      /\ UNCHANGED <<home, mine>> /\ known' = known
  BY DEF CreateContract, Places, messages, Ended
<1>2. TablesSound /\ FormSound(a) /\ PageSound(a) /\ InChain(a)
  BY <1>1 DEF DesksSound, InChain, Sits
<1>3. /\ desk[a] \in ChainForm /\ desk[a].id = None /\ desk[a].draft \in Drafts
      /\ Seconded(a) /\ ~desk[a].joined
  BY <1>1, <1>2, ChainShape DEF ChainSound, Sits
<1>4. c \in Create /\ t \notin Live
  BY <1>1 DEF Accepted
<1>5. c.room = desk[a].draft.room /\ c.moveIn = desk[a].draft.moveIn
  BY DEF BodyOf
<1> HIDE DEF c
<1>6. r \in Row /\ r.room = c.room /\ r.moveIn = c.moveIn /\ Behind(r, r)
  BY <1>4, NewRowBooks
<1> HIDE DEF r
<1>7. n \in Nat
  BY <1>3, DraftAssumption DEF Draft
<1> HIDE DEF n
<1>8. short' \in [Tenancies -> Nat] /\ short'[t] = n /\ WritesOwn(a)
  BY <1>1, <1>2, <1>4, <1>7 DEF TablesSound, WritesOwn, Live
<1>9. /\ \A x \in Tenants : Placing(a, x) => x \in placed'
      /\ \A u : ~Writing(a, u)
      /\ desk[a].second \in placed' \cup {None}
  BY <1>1, DraftAssumption DEF Placing, Writing, Sits
<1>10. /\ f \in ChainForm /\ f.at = (IF n = 0 THEN "reload" ELSE "revenue") /\ f.id = t
       /\ f.second = desk[a].second /\ f.draft = desk[a].draft /\ f.joined = desk[a].joined
  BY <1>3 DEF ChainForm
<1> HIDE DEF f
<1>11. /\ DOMAIN desk' = Desks /\ DOMAIN home' = Desks /\ DOMAIN mine' = Desks
       /\ OthersRest(a) /\ home'[a] = home[a] /\ mine'[a] = mine[a]
       /\ heard => desk'[a] = f
       /\ ~heard => FormSound(a)' /\ t \in Ended'
       /\ TakesFresh(a) /\ NewSecond(a) /\ Ended \subseteq Ended'
  <2>1. CASE heard
    <3>1. /\ DOMAIN desk' = Desks /\ DOMAIN home' = Desks /\ DOMAIN mine' = Desks
          /\ OthersRest(a) /\ home'[a] = home[a] /\ mine'[a] = mine[a] /\ desk'[a] = f
      BY <1>1, <1>2, <2>1, MovedAlone
    <3> QED
      BY <1>1, <1>2, <1>4, <1>10, <2>1, <3>1 DEF TakesFresh, NewSecond
  <2>2. CASE ~heard
    <3>1. /\ DOMAIN desk' = Desks /\ DOMAIN home' = Desks /\ DOMAIN mine' = Desks
          /\ OthersRest(a) /\ home'[a] = home[a] /\ mine'[a] = mine[a]
          /\ Ended' = Ended \cup ((Done(a) \cup {t}) \ {None})
          /\ FormSound(a)' /\ TakesFresh(a) /\ NewSecond(a)
      BY <1>1, <1>2, <2>2, GivenUp
    <3> QED
      BY <2>2, <3>1, DraftAssumption
  <2> QED
    BY <2>1, <2>2
<1>12. TablesSound' /\ RowsKept /\ Live' = Live \cup {t} /\ rows'[t] = r
  <2>1. DOMAIN people' = Tenancies
    BY <1>1, <1>2 DEF TablesSound
  <2> QED
    BY <1>1, <1>2, <1>4, <1>6, <1>8, <1>11, <2>1, AddedRow
<1>13. heard => FormSound(a)'
  <2> SUFFICES ASSUME heard
               PROVE  FormSound(a)'
    OBVIOUS
  <2>1. desk'[a] = f
    BY <1>11
  <2> /\ Made(a)' /\ Settled(a)'
      /\ Seconded(a)' /\ ~desk'[a].joined
    BY <1>1, <1>3, <1>5, <1>6, <1>9, <1>10, <1>12, <2>1 DEF Made, Settled, Seconded
  <2>2. Peopled(a)'
    <3>1. people'[t] = Pair(a)
      BY <1>1, <1>2 DEF TablesSound
    <3> QED
      BY <1>10, <1>11, <2>1, <3>1 DEF Peopled, Pair
  <2>3. CASE n = 0
    BY <1>8, <1>10, <2>1, <2>2, <2>3 DEF FormSound, ChainSound, Sits
  <2>4. CASE n # 0
    BY <1>7, <1>8, <1>10, <2>1, <2>2, <2>4 DEF FormSound, ChainSound, Sits
  <2> QED
    BY <2>3, <2>4
<1>14. n > 0 => t \in Ended' \/ Writing(a, t)'
  <2> SUFFICES ASSUME n > 0, heard
               PROVE  Writing(a, t)'
    BY <1>11
  <2>1. desk'[a] = f /\ n # 0
    BY <1>11
  <2> QED
    BY <1>10, <2>1 DEF Writing, Sits
<1>15. HandsOver(a)
  BY <1>1, <1>4, <1>8, <1>9, <1>12, <1>14 DEF HandsOver
<1>16. DeskStep(a)
  <2>1. JoinsOwn(a)
    BY <1>1, <1>4 DEF JoinsOwn
  <2> QED
    BY <1>1, <1>8, <1>11, <1>12, <1>15, <2>1 DEF DeskStep, Reports
<1>17. PageSound(a)'
  BY <1>1, <1>11, <1>12, StalePage
<1> QED
  BY <1>11, <1>12, <1>13, <1>16, <1>17, StepSound

LEMMA CreateRevenueSound ==
    ASSUME DesksSound, NEW a \in Desks, NEW heard \in BOOLEAN, CreateRevenue(a, heard)
    PROVE  DesksSound'
<1> DEFINE t == desk[a].id
           f == [desk[a] EXCEPT !.at = IF short[t] = 1 THEN "reload" ELSE "revenue"]
<1>1. /\ Sits(a, "revenue") /\ short' = [short EXCEPT ![t] = short[t] - 1]
      /\ heard => GoTo(a, f) /\ Ended' = Ended
      /\ ~heard => GiveUp(a, Done(a))
      /\ UNCHANGED <<home, mine>> /\ known' = known /\ rows' = rows /\ placed' = placed
      /\ people' = people
  BY DEF CreateRevenue, Step, messages, Ended
<1>2. TablesSound /\ FormSound(a) /\ PageSound(a) /\ InChain(a)
  BY <1>1 DEF DesksSound, InChain, Sits
<1>3. /\ desk[a] \in ChainForm /\ Made(a) /\ short[t] > 0 /\ Settled(a)
      /\ Seconded(a) /\ Peopled(a) /\ ~desk[a].joined
  BY <1>1, <1>2, ChainShape DEF ChainSound, Sits
<1>4. t \in Live /\ t \in Tenancies /\ short[t] \in Nat \ {0} /\ t # None
  BY <1>2, <1>3, DraftAssumption DEF Made, TablesSound, Live
<1>5. /\ short' \in [Tenancies -> Nat] /\ short'[t] = short[t] - 1
      /\ \A u \in Tenancies \ {t} : short'[u] = short[u]
  BY <1>1, <1>2, <1>4 DEF TablesSound
<1>6. Live' = Live
  BY <1>1 DEF Live
<1>7. RowsKept /\ WritesOwn(a)
  BY <1>1, <1>2, <1>5, <1>6 DEF RowsKept, WritesOwn, Writing, TablesSound, Live
<1>8. /\ f \in ChainForm /\ f.at = (IF short[t] = 1 THEN "reload" ELSE "revenue") /\ f.id = t
      /\ f.second = desk[a].second /\ f.draft = desk[a].draft /\ f.joined = desk[a].joined
  BY <1>3 DEF ChainForm
<1> HIDE DEF f
<1>9. /\ DOMAIN desk' = Desks /\ DOMAIN home' = Desks /\ DOMAIN mine' = Desks
      /\ OthersRest(a) /\ home'[a] = home[a] /\ mine'[a] = mine[a]
      /\ heard => desk'[a] = f
      /\ ~heard => FormSound(a)' /\ t \in Ended'
      /\ TakesFresh(a) /\ NewSecond(a) /\ Ended \subseteq Ended'
  <2>1. CASE heard
    <3>1. /\ DOMAIN desk' = Desks /\ DOMAIN home' = Desks /\ DOMAIN mine' = Desks
          /\ OthersRest(a) /\ home'[a] = home[a] /\ mine'[a] = mine[a] /\ desk'[a] = f
      BY <1>1, <1>2, <2>1, MovedAlone
    <3> QED
      BY <1>1, <1>2, <1>8, <2>1, <3>1 DEF TakesFresh, NewSecond
  <2>2. CASE ~heard
    <3>1. /\ DOMAIN desk' = Desks /\ DOMAIN home' = Desks /\ DOMAIN mine' = Desks
          /\ OthersRest(a) /\ home'[a] = home[a] /\ mine'[a] = mine[a]
          /\ Ended' = Ended \cup (Done(a) \ {None})
          /\ FormSound(a)' /\ TakesFresh(a) /\ NewSecond(a)
      BY <1>1, <1>2, <2>2, GivenUp
    <3> QED
      BY <1>4, <2>2, <3>1 DEF Done
  <2> QED
    BY <2>1, <2>2
<1>10. TablesSound'
  BY <1>1, <1>2, <1>5, <1>6, <1>9 DEF TablesSound
<1>11. heard => FormSound(a)'
  <2> SUFFICES ASSUME heard
               PROVE  FormSound(a)'
    OBVIOUS
  <2>1. desk'[a] = f
    BY <1>9
  <2> Seconded(a)' /\ Peopled(a)' /\ ~desk'[a].joined
    BY <1>1, <1>3, <1>8, <1>9, <2>1 DEF Seconded, Peopled, Pair, TakenOver
  <2>2. Made(a)' /\ Settled(a)'
    BY <1>1, <1>3, <1>6, <1>8, <2>1 DEF Made, Settled
  <2>3. CASE short[t] = 1
    BY <1>5, <1>8, <2>1, <2>2, <2>3 DEF FormSound, ChainSound, Sits
  <2>4. CASE short[t] # 1
    BY <1>4, <1>5, <1>8, <2>1, <2>2, <2>4 DEF FormSound, ChainSound, Sits
  <2> QED
    BY <2>3, <2>4
<1>12. short'[t] > 0 => t \in Ended' \/ (Sits(a, "revenue")' /\ desk'[a].id = t)
  <2> SUFFICES ASSUME short'[t] > 0, heard
               PROVE  Sits(a, "revenue")' /\ desk'[a].id = t
    BY <1>9
  <2>1. desk'[a] = f /\ short[t] # 1
    BY <1>4, <1>5, <1>9
  <2> QED
    BY <1>8, <2>1 DEF Sits
<1>13. HandsOver(a)
  <2>1. (\A x : ~Placing(a, x)) /\ (\A u : Writing(a, u) => u = t)
    BY <1>1 DEF Placing, Writing, Sits
  <2>2. \A u : Writing(a, u) /\ short'[u] > 0 => u \in Ended' \/ Writing(a, u)'
    BY <1>12, <2>1 DEF Writing
  <2> QED
    BY <1>1, <1>6, <2>1, <2>2 DEF HandsOver
<1>14. DeskStep(a)
  BY <1>1, <1>7, <1>9, <1>13 DEF DeskStep, Reports, JoinsOwn
<1>15. PageSound(a)'
  BY <1>1, <1>7, <1>9, <1>10, StalePage
<1> QED
  BY <1>9, <1>10, <1>11, <1>14, <1>15, StepSound

\* The PATCH that ends a contract, of a row that some desk has read long ago.
LEMMA SubmitTenancyEditSound ==
    ASSUME DesksSound, NEW a \in Desks, NEW heard \in BOOLEAN, SubmitTenancyEdit(a, heard)
    PROVE  /\ DesksSound'
           /\ desk[a].untouched => BookingOf(rows'[desk[a].id]) = BookingOf(rows[desk[a].id])
<1> DEFINE t == desk[a].id
           p == Sent(a)
           r == PatchedRow(rows[t], p)
           f == [desk[a] EXCEPT !.at = "reloadEdit"]
<1>1. /\ Sits(a, "edit") /\ rows' = [rows EXCEPT ![t] = r]
      /\ heard => GoTo(a, f)
      /\ ~heard => desk' = desk
      /\ UNCHANGED <<short, placed, known>> /\ UNCHANGED <<home, mine>>
      /\ UNCHANGED <<short, known>> /\ known' = known /\ placed' = placed /\ Ended' = Ended
      /\ short' = short /\ people' = people
  BY DEF SubmitTenancyEdit, Step, messages, Ended
<1>2. TablesSound /\ FormSound(a) /\ PageSound(a)
  BY DEF DesksSound
<1>3. desk[a] \in EditForm /\ EditSound(a)
  BY <1>1, <1>2, EditShape DEF Sits
<1>4. t \in Live /\ rows[t] \in Row /\ Behind(rows[t], rows[t])
  BY <1>2, <1>3, LiveRow DEF EditSound
<1>5. /\ p \in Patch /\ p.moveIn = Keep /\ p.moveOut = Keep /\ p.status = Keep
      /\ p.termination = desk[a].termination /\ p.actualOut = desk[a].actualOut
  <2>1. desk[a].termination \in OptDate /\ desk[a].actualOut \in OptDate
    BY <1>3 DEF EditForm
  <2> QED
    BY <2>1 DEF Sent, Patch
<1> HIDE DEF p
<1>6. /\ r \in Row /\ Behind(rows[t], r) /\ Behind(r, r)
      /\ Within(p.termination, rows[t].moveOut) /\ Within(p.actualOut, rows[t].moveOut) =>
             BookingOf(r) = BookingOf(rows[t])
  BY <1>4, <1>5, EditedRow
<1> HIDE DEF r
<1>7. /\ f \in EditForm /\ f.at = "reloadEdit" /\ f.id = t
      /\ f.termination = desk[a].termination /\ f.actualOut = desk[a].actualOut
      /\ f.untouched = desk[a].untouched
  BY <1>3 DEF EditForm
<1> HIDE DEF f
<1>8. /\ DOMAIN desk' = Desks /\ DOMAIN home' = Desks /\ DOMAIN mine' = Desks
      /\ OthersRest(a) /\ home'[a] = home[a] /\ mine'[a] = mine[a]
      /\ desk'[a] \in {desk[a], f}
  <2>1. CASE heard
    BY <1>1, <1>2, <2>1, MovedAlone
  <2>2. CASE ~heard
    BY <1>1, <1>2, <2>2 DEF TablesSound, OthersRest
  <2> QED
    BY <2>1, <2>2
<1>9. TablesSound' /\ RowsKept /\ Live' = Live /\ rows'[t] = r
  <2>1. DOMAIN people' = Tenancies
    BY <1>1, <1>2 DEF TablesSound
  <2> QED
    BY <1>1, <1>2, <1>4, <1>6, <1>8, <2>1, WrittenRow
<1>10. FormSound(a)' /\ ~Sits(a, "revenue")' /\ NewSecond(a)
  <2>1. /\ desk'[a] \in EditForm
        /\ desk'[a].id = desk[a].id /\ desk'[a].untouched = desk[a].untouched
        /\ desk'[a].termination = desk[a].termination
        /\ desk'[a].actualOut = desk[a].actualOut
    BY <1>3, <1>7, <1>8
  <2>2. EditSound(a)'
    BY <1>2, <1>3, <1>9, <2>1, RestingEdit
  <2> QED
    BY <2>1, <2>2 DEF FormSound, EditForm, Sits, NewSecond, InChain
<1>11. HandsOver(a)
  <2>1. \A x : ~Placing(a, x) /\ ~Writing(a, x)
    BY <1>1 DEF Placing, Writing, Sits
  <2> QED
    BY <1>1, <1>9, <2>1 DEF HandsOver
<1>12. DeskStep(a)
  BY <1>1, <1>8, <1>9, <1>10, <1>11 DEF DeskStep, Reports, WritesOwn, JoinsOwn, TakesFresh
<1>13. PageSound(a)'
  BY <1>1, <1>8, <1>9, StalePage
<1>14. DesksSound'
  BY <1>9, <1>10, <1>12, <1>13, StepSound
<1>15. desk[a].untouched => BookingOf(rows'[t]) = BookingOf(rows[t])
  BY <1>3, <1>5, <1>6, <1>9 DEF EditSound
<1> QED
  BY <1>14, <1>15

-------------------------------------------------------------------------------
(***************************************************************************)
(* The contracts are fetched again, and the theorems.                      *)
(***************************************************************************)

LEMMA EmptyListing == <<>> \in Listing /\ DOMAIN <<>> = {}
<1>1. <<>> \in [{} -> Row]
  OBVIOUS
<1>2. {} \in SUBSET Tenancies
  OBVIOUS
<1> QED
  BY <1>1, <1>2 DEF Listing

\* Where a desk is after its reload.
LEMMA Reloaded ==
    ASSUME TablesSound, NEW a \in Desks, FormSound(a),
           NEW contracts \in BOOLEAN, NEW events \in BOOLEAN, Reload(a, contracts, events)
    PROVE  /\ DOMAIN desk' = Desks
           /\ \A b \in Desks \ {a} : desk'[b] = desk[b]
           /\ Ended \subseteq Ended'
           /\ \/ desk'[a] \in {Closed, Gone}
              \/ desk'[a] \in OpenForm
              \/ /\ desk[a] \in EditForm /\ EditSound(a) /\ desk'[a] \in EditForm
                 /\ desk'[a].id = desk[a].id /\ desk'[a].untouched = desk[a].untouched
                 /\ desk'[a].termination = desk[a].termination
                 /\ desk'[a].actualOut = desk[a].actualOut
<1> DEFINE g == [at |-> "form", list |-> desk[a].list]
           k == IF desk[a].watched THEN g ELSE Gone
           f == [desk[a] EXCEPT !.at = "edit"]
<1>1. desk[a].at \in {"reload", "reloadEdit"}
  BY DEF Reload
<1>2. CASE events
  <2> DEFINE h == Finished(a)
  <2>1. GoTo(a, h) /\ Ended' = Ended /\ h \in {Closed, Gone}
    BY <1>2 DEF Reload, Finished, messages, Ended
  <2> HIDE DEF h
  <2> QED
    BY <1>2, <2>1, Moved
<1>3. CASE ~events /\ Sits(a, "reload")
  <2>1. GoTo(a, k) /\ Ended \subseteq Ended'
    BY <1>3 DEF Reload, GiveUp, Sits, Ended
  <2>2. k = Gone \/ k \in OpenForm
    BY <1>3, ChainShape DEF InChain, Sits, OpenForm
  <2> HIDE DEF k
  <2> QED
    BY <2>1, <2>2, Moved
<1>4. CASE ~events /\ Sits(a, "reloadEdit")
  <2>1. GoTo(a, f) /\ Ended' = Ended
    BY <1>4 DEF Reload, Step, Sits, messages, Ended
  <2>2. desk[a] \in EditForm /\ EditSound(a)
    BY <1>4, EditShape DEF Sits
  <2>3. /\ f \in EditForm /\ f.id = desk[a].id /\ f.untouched = desk[a].untouched
        /\ f.termination = desk[a].termination /\ f.actualOut = desk[a].actualOut
    BY <2>2 DEF EditForm
  <2> HIDE DEF f
  <2>4. DOMAIN desk' = Desks /\ desk'[a] = f /\ \A b \in Desks \ {a} : desk'[b] = desk[b]
    BY <2>1, Moved
  <2> QED
    BY <2>1, <2>2, <2>3, <2>4
<1> QED
  BY <1>1, <1>2, <1>3, <1>4 DEF Sits

LEMMA ReloadSound ==
    ASSUME DesksSound, NEW a \in Desks, NEW contracts \in BOOLEAN, NEW events \in BOOLEAN,
           Reload(a, contracts, events)
    PROVE  DesksSound'
<1> DEFINE L == IF contracts THEN ContractsOf(home[a]) ELSE <<>>
<1>1. /\ desk[a].at \in {"reload", "reloadEdit"} /\ UNCHANGED <<stored, known>>
      /\ mine' = [mine EXCEPT ![a] = L] /\ home' = home /\ known' = known /\ UNCHANGED stored
  BY DEF Reload
<1>2. TablesSound /\ FormSound(a) /\ PageSound(a)
  BY DEF DesksSound
<1>3. L \in Listing /\ \A t \in DOMAIN L : t \in Live /\ Behind(L[t], rows[t])
  BY <1>2, LoadedPage, EmptyListing
<1> HIDE DEF L
<1>4. /\ DOMAIN desk' = Desks /\ Ended \subseteq Ended'
      /\ \A b \in Desks \ {a} : desk'[b] = desk[b]
  BY <1>2, Reloaded
<1>5. /\ DOMAIN home' = Desks /\ DOMAIN mine' = Desks /\ OthersRest(a)
      /\ mine'[a] = L /\ home'[a] = home[a]
  BY <1>1, <1>2, <1>4 DEF TablesSound, OthersRest
<1>6. TablesSound' /\ RowsKept /\ Live' = Live /\ rows' = rows
  <2>1. known \subseteq known' /\ known' \subseteq Tenants /\ rows' = rows
    BY <1>1, <1>2 DEF TablesSound, stored
  <2> QED
    BY <1>1, <1>2, <1>4, <1>5, <2>1, QuietTables
<1>7. PageSound(a)'
  BY <1>1, <1>2, <1>3, <1>5, <1>6 DEF PageSound
<1>8. FormSound(a)' /\ ~Sits(a, "revenue")' /\ NewSecond(a)
  <2>1. CASE desk'[a] \in {Closed, Gone} \/ desk'[a] \in OpenForm
    BY <2>1 DEF FormSound, Sits, Closed, Gone, OpenForm, NewSecond, InChain
  <2>2. CASE /\ desk[a] \in EditForm /\ EditSound(a) /\ desk'[a] \in EditForm
             /\ desk'[a].id = desk[a].id /\ desk'[a].untouched = desk[a].untouched
             /\ desk'[a].termination = desk[a].termination
             /\ desk'[a].actualOut = desk[a].actualOut
    <3>1. EditSound(a)'
      BY <1>2, <1>6, <2>2, RestingEdit
    <3> QED
      BY <2>2, <3>1 DEF FormSound, Sits, EditForm, NewSecond, InChain
  <2> QED
    BY <1>2, <2>1, <2>2, Reloaded
<1>9. ~Owes(a)
  BY <1>1 DEF Owes
<1> QED
  BY <1>1, <1>4, <1>5, <1>7, <1>8, <1>9, IdleStep

LEMMA BeginSound == Begin => DesksSound
<1> SUFFICES ASSUME Begin
             PROVE  DesksSound
  OBVIOUS
<1>1. /\ Live = {} /\ known = Residents /\ home \in [Desks -> Residents]
      /\ desk = [a \in Desks |-> Closed]
      /\ mine = [a \in Desks |-> ContractsOf(home[a])]
      /\ short = [t \in Tenancies |-> 0]
  BY DEF Begin, Init, Live
<1>2. TablesSound
  BY <1>1, DraftAssumption DEF TablesSound, Begin, Init
<1>3. ASSUME NEW a \in Desks
      PROVE  PageSound(a) /\ FormSound(a) /\ desk[a].at = "closed"
  <2>1. mine[a] = ContractsOf(home[a]) /\ desk[a] = Closed /\ home[a] \in known
    BY <1>1
  <2> QED
    BY <1>2, <2>1, LoadedPage DEF PageSound, FormSound, Closed
<1>4. OneWriter
  BY <1>3 DEF OneWriter, Sits
<1>5. OneSecond
  BY <1>3 DEF OneSecond, InChain
<1>6. Accounted
  BY <1>1 DEF Accounted
<1> QED
  BY <1>2, <1>3, <1>4, <1>5, <1>6 DEF DesksSound

\* The calendar alone changes nothing that a desk relies on.
LEMMA RestSound ==
    ASSUME DesksSound,
           UNCHANGED <<rows, people, short, placed, known, home, mine, desk, told, unseen>>
    PROVE  DesksSound'
<1>1. Live' = Live
  BY DEF Live
<1>2. TablesSound'
  BY <1>1 DEF DesksSound, TablesSound
<1>3. ASSUME NEW a \in Desks
      PROVE  PageSound(a)' /\ FormSound(a)'
  <2>1. PageSound(a)'
    BY <1>1 DEF DesksSound, PageSound
  <2>2. FormSound(a)'
    BY <1>1 DEF DesksSound, FormSound, EditSound, ChainSound, Made, Found, Settled, Seconded,
                Peopled, Pair, TakenOver, Sits
  <2> QED
    BY <2>1, <2>2
<1>4. OneWriter' /\ OneSecond' /\ Accounted'
  BY <1>1 DEF DesksSound, OneWriter, OneSecond, InChain, Accounted, Ended, Placing, Writing, Sits
<1> QED
  BY <1>2, <1>3, <1>4 DEF DesksSound

LEMMA NextSound == DesksSound /\ [DeskNext]_deskVars => DesksSound'
<1> SUFFICES ASSUME DesksSound, [DeskNext]_deskVars
             PROVE  DesksSound'
  OBVIOUS
<1>1. ASSUME NEW a \in Desks, Work(a)
      PROVE  DesksSound'
  <2>1. CASE \E x \in known : Visit(a, x)
    BY <2>1, VisitSound
  <2>2. CASE OpenAssignForm(a)
    BY <2>2, OpenAssignFormSound
  <2>3. CASE \E d \in Drafts : Submit(a, d)
    BY <2>3, SubmitSound
  <2>4. CASE \E x \in Tenants, heard \in BOOLEAN : CreateSecond(a, x, heard)
    BY <2>4, CreateSecondSound
  <2>5. CASE \E heard \in BOOLEAN : Join(a, heard)
    BY <2>5, JoinSound
  <2>6. CASE \E heard \in BOOLEAN : CreateRevenue(a, heard)
    BY <2>6, CreateRevenueSound
  <2>7. CASE \E heard \in BOOLEAN : SubmitTenancyEdit(a, heard)
    BY <2>7, SubmitTenancyEditSound
  <2>8. CASE \E heard \in BOOLEAN, t \in Tenancies : CreateContract(a, t, heard)
    BY <2>8, CreateContractSound
  <2>9. CASE ChainFails(a)
    BY <2>9, ChainFailsSound
  <2>10. CASE \E t \in Tenancies : StartTenancyEdit(a, t)
    BY <2>10, StartTenancyEditSound
  <2>11. CASE \E e \in EditDates : ChangeTenancyEdit(a, e[1], e[2])
    BY <2>11, ChangeTenancyEditSound
  <2>12. CASE \E contracts \in BOOLEAN, events \in BOOLEAN : Reload(a, contracts, events)
    BY <2>12, ReloadSound
  <2>13. CASE Cancel(a)
    BY <2>13, CancelSound
  <2>14. CASE Leave(a)
    BY <2>14, LeaveSound
  <2> QED
    BY <1>1, <2>1, <2>2, <2>3, <2>4, <2>5, <2>6, <2>7, <2>8, <2>9, <2>10, <2>11, <2>12, <2>13,
       <2>14 DEF Work
<1>2. CASE NextDay
  BY <1>2, RestSound DEF NextDay, stored, messages
<1>3. CASE UNCHANGED deskVars
  BY <1>3, RestSound DEF deskVars
<1> QED
  BY <1>1, <1>2, <1>3 DEF DeskNext

LEMMA DesksInvariance == DeskSpec => []DesksSound
BY BeginSound, NextSound, PTL DEF DeskSpec

\* What a chain of requests has left half done is reported or being worked on, or the
\* page had been left before the error came, whichever requests fail and whichever
\* answers are lost.
THEOREM HalfDoneReported == DeskSpec => []HalfDoneIsReported
<1>1. DesksSound => HalfDoneIsReported
  <2> SUFFICES ASSUME DesksSound
               PROVE  HalfDoneIsReported
    OBVIOUS
  <2> DEFINE underWay == UNION {Done(a) : a \in {b \in Desks : InChain(b)}}
  <2>1. \A a \in Desks : \A x : Placing(a, x) \/ Writing(a, x) => x \in underWay
    BY DEF Placing, Writing, Sits, InChain, Done
  <2>2. known \ Residents \subseteq placed \cup told \cup unseen \cup underWay
    BY <2>1 DEF DesksSound, Accounted, Ended
  <2>3. \A t \in Live : short[t] > 0 => t \in told \cup unseen \cup underWay
    BY <2>1 DEF DesksSound, Accounted, Ended
  <2> QED
    BY <2>2, <2>3 DEF HalfDoneIsReported
<1> QED
  BY <1>1, DesksInvariance, PTL

\* A step of one desk leaves the forms of the others alone.
LEMMA WorksAlone ==
    ASSUME TablesSound, NEW b \in Desks, Work(b), NEW a \in Desks \ {b}
    PROVE  desk'[a] = desk[a]
<1>1. ASSUME NEW f, GoTo(b, f)
      PROVE  desk'[a] = desk[a]
  BY <1>1, Moved
<1>2. ASSUME NEW made, GiveUp(b, made)
      PROVE  desk'[a] = desk[a]
  BY <1>1, <1>2 DEF GiveUp
<1>3. ASSUME NEW where, Step(b, where)
      PROVE  desk'[a] = desk[a]
  BY <1>1, <1>3 DEF Step
<1>4. CASE (\E x \in known : Visit(b, x)) \/ Leave(b)
  <2>1. PICK f : GoTo(b, f)
    BY <1>4 DEF Visit, Leave
  <2> QED
    BY <1>1, <2>1
<1>5. CASE OpenAssignForm(b) \/ ChainFails(b) \/ Cancel(b) \/ \E d \in Drafts : Submit(b, d)
  BY <1>1, <1>2, <1>5 DEF OpenAssignForm, Submit, ChainFails, Cancel
<1>6. CASE \E x \in Tenants, heard \in BOOLEAN : CreateSecond(b, x, heard)
  BY <1>1, <1>2, <1>6 DEF CreateSecond
<1>7. CASE \E heard \in BOOLEAN, t \in Tenancies : CreateContract(b, t, heard)
  BY <1>1, <1>2, <1>7 DEF CreateContract
<1>8. CASE \E heard \in BOOLEAN : Join(b, heard) \/ CreateRevenue(b, heard)
  BY <1>1, <1>2, <1>3, <1>8 DEF Join, CreateRevenue
<1>9. CASE \E heard \in BOOLEAN : SubmitTenancyEdit(b, heard)
  BY <1>3, <1>9 DEF SubmitTenancyEdit
<1>10. CASE \/ \E t \in Tenancies : StartTenancyEdit(b, t)
            \/ \E e \in EditDates : ChangeTenancyEdit(b, e[1], e[2])
  BY <1>1, <1>10 DEF StartTenancyEdit, ChangeTenancyEdit
<1>11. CASE \E contracts \in BOOLEAN, events \in BOOLEAN : Reload(b, contracts, events)
  BY <1>1, <1>2, <1>3, <1>11 DEF Reload, Sits
<1> QED
  BY <1>4, <1>5, <1>6, <1>7, <1>8, <1>9, <1>10, <1>11 DEF Work

\* A desk whose chain ends with the form closed comes from a reload with its events.
LEMMA ClosedByReload ==
    ASSUME DesksSound, NEW a \in Desks, InChain(a), [DeskNext]_deskVars, desk'[a] = Closed
    PROVE  Sits(a, "reload")
<1>1. TablesSound /\ FormSound(a) /\ desk[a] \in ChainForm
  BY ChainShape DEF DesksSound
<1>2. desk'[a].at = "closed" /\ desk[a].at # "closed"
  BY DEF Closed, InChain
<1>3. ASSUME NEW f, GoTo(a, f)
      PROVE  f.at = "closed"
  BY <1>1, <1>2, <1>3, Moved
<1>4. ~NextDay /\ ~UNCHANGED desk
  BY <1>2 DEF NextDay
<1>5. PICK b \in Desks : Work(b)
  BY <1>4 DEF DeskNext, deskVars
<1>6. ASSUME NEW where, Step(a, where)
      PROVE  where = "closed"
  <2>1. [desk[a] EXCEPT !.at = where].at = where
    BY <1>1 DEF ChainForm
  <2> QED
    BY <1>3, <1>6, <2>1 DEF Step
<1>7. ASSUME NEW made
      PROVE  ~GiveUp(a, made)
  BY <1>3 DEF GiveUp, Gone
<1>8. b = a
  BY <1>1, <1>2, <1>5, WorksAlone
<1>9. \A x, heard : ~CreateSecond(a, x, heard)
  <2> SUFFICES ASSUME NEW x, NEW heard, CreateSecond(a, x, heard)
               PROVE  FALSE
    OBVIOUS
  <2> DEFINE t == FindOpenPrimaryTenancyForRoom(desk[a].draft.room, mine[a])
             f == [desk[a] EXCEPT !.at = IF t = None THEN "contract" ELSE "join",
                                  !.second = x, !.id = t]
  <2>1. GoTo(a, f)
    BY <1>7 DEF CreateSecond
  <2>2. f.at \in {"contract", "join"}
    BY <1>1 DEF ChainForm
  <2> HIDE DEF f
  <2> QED
    BY <1>3, <2>1, <2>2
<1>10. \A t, heard : ~CreateContract(a, t, heard)
  <2> SUFFICES ASSUME NEW t, NEW heard, CreateContract(a, t, heard)
               PROVE  FALSE
    OBVIOUS
  <2> DEFINE f == [desk[a] EXCEPT !.at = IF desk[a].draft.revenue = 0 THEN "reload"
                                         ELSE "revenue", !.id = t]
  <2>1. GoTo(a, f)
    BY <1>7 DEF CreateContract
  <2>2. f.at \in {"reload", "revenue"}
    BY <1>1 DEF ChainForm
  <2> HIDE DEF f
  <2> QED
    BY <1>3, <2>1, <2>2
<1>11. (\A heard : ~Join(a, heard)) /\ ~Leave(a)
  <2> DEFINE f == [desk[a] EXCEPT !.at = "reload", !.joined = TRUE]
             g == [desk[a] EXCEPT !.watched = FALSE]
  <2>1. f.at # "closed" /\ g.at # "closed"
    BY <1>1, <1>2 DEF ChainForm
  <2>2. (\A heard : Join(a, heard) => GoTo(a, f)) /\ (Leave(a) => GoTo(a, g))
    BY <1>7 DEF Join, Leave
  <2> HIDE DEF f, g
  <2> QED
    BY <1>3, <2>1, <2>2
<1>12. \A heard : ~CreateRevenue(a, heard)
  BY <1>6, <1>7 DEF CreateRevenue
<1>13. ~ChainFails(a)
  BY <1>7 DEF ChainFails
<1>14. desk[a].at \notin {"closed", "gone", "form", "edit"}
  BY DEF InChain
<1>15. \A x : ~Visit(a, x)
  <2>1. desk[a] # Closed /\ desk[a] # Gone
    BY <1>14 DEF Closed, Gone
  <2> QED
    BY <2>1 DEF Visit
<1>16. /\ ~OpenAssignForm(a) /\ ~Cancel(a)
       /\ \A d : ~Submit(a, d)
       /\ \A heard : ~SubmitTenancyEdit(a, heard)
       /\ \A t : ~StartTenancyEdit(a, t)
       /\ \A e : ~ChangeTenancyEdit(a, e[1], e[2])
  BY <1>14 DEF Sits, OpenAssignForm, Cancel, Submit, SubmitTenancyEdit, StartTenancyEdit,
               ChangeTenancyEdit
<1>17. PICK contracts \in BOOLEAN, events \in BOOLEAN : Reload(a, contracts, events)
  BY <1>5, <1>8, <1>9, <1>10, <1>11, <1>12, <1>13, <1>15, <1>16 DEF Work
<1> QED
  BY <1>17 DEF Reload, InChain, Sits

\* A form that closes without a message has done what it was for: its contract has the
\* two tenants, unless another form has taken it over, and if the form made it, the day
\* and all the revenue rows of the form.
THEOREM AssignedIsBooked == DeskSpec => AssignedBooked
<1>1. DesksSound /\ [DeskNext]_deskVars => [ClosesBooked]_deskVars
  <2> SUFFICES ASSUME DesksSound, [DeskNext]_deskVars,
                      NEW a \in Desks, InChain(a), desk'[a] = Closed
               PROVE  LET t == desk[a].id
                          d == desk[a].draft
                      IN  /\ t \in Live /\ rows[t].room = d.room
                          /\ d.second => desk[a].second # None
                          /\ people[t] = Pair(a) \/ TakenOver(a)
                          /\ desk[a].joined => d.second
                          /\ ~desk[a].joined => rows[t].moveIn = d.moveIn /\ short[t] = 0
    BY DEF ClosesBooked
  <2>1. Sits(a, "reload") /\ ChainSound(a)
    BY ClosedByReload, ChainShape DEF DesksSound
  <2>2. /\ Seconded(a) /\ Peopled(a)
        /\ IF desk[a].joined THEN Found(a) ELSE Made(a) /\ short[desk[a].id] = 0
    BY <2>1 DEF ChainSound, Sits
  <2> QED
    BY <2>2 DEF Made, Found, Seconded, Peopled
<1> QED
  BY <1>1, DesksInvariance, PTL DEF DeskSpec, AssignedBooked

\* A contract opened for editing and saved as it was keeps its stay: the room, the first
\* day and the scheduling end, whatever other desks have done to it since.
THEOREM UntouchedIsKept == DeskSpec => UntouchedKept
<1>1. DesksSound /\ [DeskNext]_deskVars => [SavesAsItWas]_deskVars
  <2> SUFFICES ASSUME DesksSound, [DeskNext]_deskVars, NEW a \in Desks, Sits(a, "edit"),
                      desk[a].untouched, rows' # rows, desk'[a] # desk[a]
               PROVE  BookingOf(rows'[desk[a].id]) = BookingOf(rows[desk[a].id])
    BY DEF SavesAsItWas
  <2>1. TablesSound
    BY DEF DesksSound
  <2>2. PICK b \in Desks : Work(b)
    BY DEF DeskNext, NextDay, deskVars
  <2>3. b = a
    BY <2>1, <2>2, WorksAlone
  <2>4. \E heard \in BOOLEAN : SubmitTenancyEdit(a, heard)
    <3>1. ~UNCHANGED rows
      OBVIOUS
    <3>2. /\ \A x : ~Visit(a, x)
          /\ ~OpenAssignForm(a) /\ ~Cancel(a) /\ ~ChainFails(a) /\ ~Leave(a)
          /\ \A d : ~Submit(a, d)
          /\ \A t : ~StartTenancyEdit(a, t)
          /\ \A e : ~ChangeTenancyEdit(a, e[1], e[2])
          /\ \A contracts, events : ~Reload(a, contracts, events)
          /\ \A heard : ~CreateRevenue(a, heard)
          /\ \A x, heard : ~CreateSecond(a, x, heard)
      BY <3>1 DEF stored, Visit, Leave, OpenAssignForm, Cancel, ChainFails, Submit,
                  StartTenancyEdit, ChangeTenancyEdit, Reload, CreateRevenue, CreateSecond
    <3>3. (\A heard : ~Join(a, heard)) /\ (\A t, heard : ~CreateContract(a, t, heard))
      BY DEF Join, CreateContract, Sits
    <3> QED
      BY <2>2, <2>3, <3>2, <3>3 DEF Work
  <2> QED
    BY <2>4, SubmitTenancyEditSound
<1> QED
  BY <1>1, DesksInvariance, PTL DEF DeskSpec, UntouchedKept
===============================================================================
