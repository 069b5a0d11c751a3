------------------------------- MODULE TenantDesk -------------------------------
(***************************************************************************)
(* The pages on which administrators give a tenant a room and end a        *)
(* contract.  One click runs a chain of requests against the back end of   *)
(* Tenancy; the browser keeps no transaction over them.  Here each request *)
(* is one step (what two requests do to each other is Tenancy's subject);  *)
(* between two of them other desks work, and any answer may be an error or *)
(* be lost after the request took effect.                                  *)
(***************************************************************************)
EXTENDS UnitStatus

CONSTANTS
    Desks,      \* browser tabs, each on a tenant's page
    Residents,  \* tenants that exist at the start
    Drafts,     \* what is typed into the form that gives a tenant a room
    EditDates,  \* <<termination, actual move-out>> typed into the form that ends a contract
    MaxFaults   \* bound: requests that fail, or whose answer is lost

VARIABLES
    today,
    known,      \* tenants: those that exist
    home,       \* whose page a desk shows
    mine,       \* the contracts of that tenant, as the page last loaded them
    desk,       \* the form of each desk and how far its chain of requests is
    short,      \* revenue rows of the form that a contract still lacks
    placed,     \* second tenants that have had a contract
    told,       \* contracts and tenants of a chain that ended in an error message
    unseen,     \* history: those of one that ended so after its page had been left
    faults      \* requests that have failed so far

stored   == <<rows, people, logged, short, placed>>
unmoved  == <<billed, job>>
messages == <<told, unseen>>
deskVars == <<rows, people, billed, logged, job, today, known, home, mine, desk,
              short, placed, told, unseen, faults>>

Draft == [room: Rooms, moveIn: Date, termination: OptDate, actualOut: OptDate,
          second: BOOLEAN, revenue: Nat]

ASSUME DraftAssumption ==
    /\ Drafts \subseteq Draft /\ EditDates \subseteq OptDate \X OptDate
    /\ Residents \subseteq Tenants /\ Residents # {}
    /\ None \notin Tenants \cup Tenancies
    /\ MaxFaults \in Nat

\* The calendar has a last day.
ASSUME LastDayAssumption == \E last \in Date : \A day \in Date : day <= last

Closed == [at |-> "closed"]
Gone   == [at |-> "gone"]     \* no page of a tenant is shown
Sits(a, step) == desk[a].at = step

\* The chain behind the button: requests that are still to be answered.
InChain(a) == desk[a].at \in {"second", "join", "contract", "revenue", "reload"}

\* include_participant=true: every contract the tenant takes part in.
ContractsOf(x) ==
    [t \in {u \in Live : \E p \in people[u] : p.tenant = x} |-> rows[t]]

Begin ==
    /\ Init
    /\ today \in Date
    /\ known = Residents
    /\ home \in [Desks -> Residents]
    /\ mine = [a \in Desks |-> ContractsOf(home[a])]
    /\ desk = [a \in Desks |-> Closed]
    /\ short = [t \in Tenancies |-> 0]
    /\ placed = {}
    /\ told = {} /\ unseen = {}
    /\ faults = 0

NextDay ==
    /\ today + 1 \in Date
    /\ today' = today + 1
    /\ UNCHANGED <<stored, unmoved, known, home, mine, desk, messages, faults>>

GoTo(a, where) == desk' = [desk EXCEPT ![a] = where]

\* The page of a tenant is opened, and loads the tenant's contracts.
Visit(a, x) ==
    /\ desk[a] \in {Closed, Gone}
    /\ GoTo(a, Closed)
    /\ home' = [home EXCEPT ![a] = x]
    /\ mine' = [mine EXCEPT ![a] = ContractsOf(x)]
    /\ UNCHANGED <<stored, unmoved, today, known, messages, faults>>

\* An answer comes, or does not.
Fault == faults < MaxFaults /\ faults' = faults + 1
Answer(heard) == IF heard THEN UNCHANGED faults ELSE Fault

Step(a, at) == GoTo(a, [desk[a] EXCEPT !.at = at])

\* The page is left, which nothing prevents.  A chain goes on with nobody to tell; cut off
\* with its tab, it ends like one whose next request fails.
Leave(a) ==
    /\ desk[a] \notin {Closed, Gone}
    /\ InChain(a) => desk[a].watched
    /\ GoTo(a, IF InChain(a) THEN [desk[a] EXCEPT !.watched = FALSE] ELSE Gone)
    /\ UNCHANGED <<stored, unmoved, today, known, home, mine, messages, faults>>

-------------------------------------------------------------------------------
(***************************************************************************)
(* Giving the tenant a room.                                               *)
(***************************************************************************)

\* The form is opened and the unit chosen: its contracts are loaded, once.
OpenAssignForm(a) ==
    /\ Sits(a, "closed")
    /\ GoTo(a, [at |-> "form", list |-> Listed])
    /\ UNCHANGED <<stored, unmoved, today, known, home, mine, messages, faults>>

\* The stored status is settled here.  The second tenant's request comes first;
\* without one, the contract's.
Submit(a, d) ==
    /\ Sits(a, "form")
    /\ Offered(d.room, desk[a].list, d.moveIn, d.termination, d.actualOut, today)
    /\ GoTo(a, [at |-> IF d.second THEN "second" ELSE "contract",
                list |-> desk[a].list, draft |-> d, second |-> None, id |-> None,
                watched |-> TRUE, joined |-> FALSE,
                status |-> StoredTenancyStatusForApi(
                    DeriveTenancyLifecyclePreviewForAssign(
                        d.moveIn, d.termination, d.actualOut, today))])
    /\ UNCHANGED <<stored, unmoved, today, known, home, mine, messages, faults>>

\* An error: the message, and the form as it was, ready to be sent again; or, when the
\* page has been left, nothing.
GiveUp(a, made) ==
    IF desk[a].watched
    THEN /\ GoTo(a, [at |-> "form", list |-> desk[a].list])
         /\ told' = told \cup (made \ {None}) /\ UNCHANGED unseen
    ELSE /\ GoTo(a, Gone)
         /\ unseen' = unseen \cup (made \ {None}) /\ UNCHANGED told

Done(a) == {desk[a].second, desk[a].id}

\* An open contract that the page has for the room takes the second tenant;
\* failing that, a new contract takes both.
CreateSecond(a, x, heard) ==
    /\ Sits(a, "second")
    /\ x \in Tenants \ known
    /\ known' = known \cup {x}
    /\ LET t == FindOpenPrimaryTenancyForRoom(desk[a].draft.room, mine[a])
       IN  IF heard
           THEN /\ GoTo(a, [desk[a] EXCEPT !.at = IF t = None THEN "contract" ELSE "join",
                                           !.second = x, !.id = t])
                /\ UNCHANGED messages
           ELSE GiveUp(a, {x})
    /\ Answer(heard)
    /\ UNCHANGED <<stored, unmoved, today, home, mine>>

Pair(a) ==
    {[tenant |-> home[a], role |-> "primary_tenant"]}
    \cup (IF desk[a].second = None THEN {}
          ELSE {[tenant |-> desk[a].second, role |-> "co_tenant"]})

Places(a) == placed' = placed \cup ({desk[a].second} \ {None})

\* PATCH with the two participants and nothing else.
Join(a, heard) ==
    LET t == desk[a].id
        r == [rows[t] EXCEPT !.tenant = home[a]]
    IN  /\ Sits(a, "join")
        /\ rows' = [rows EXCEPT ![t] = r]
        /\ people' = [people EXCEPT ![t] = Pair(a)]
        /\ logged' = [logged EXCEPT ![t] = r]
        /\ Places(a)
        /\ IF heard THEN /\ GoTo(a, [desk[a] EXCEPT !.at = "reload", !.joined = TRUE])
                         /\ UNCHANGED messages
                    ELSE GiveUp(a, Done(a))
        /\ Answer(heard)
        /\ UNCHANGED <<short, unmoved, today, known, home, mine>>

\* The body of POST /tenancies; the form has no move-out.
BodyOf(a) ==
    LET d == desk[a].draft
    IN  [room |-> d.room, moveIn |-> d.moveIn, moveOut |-> None,
         termination |-> d.termination, actualOut |-> d.actualOut,
         status |-> desk[a].status, people |-> Pair(a)]

Accepted(a, t) ==
    LET c == BodyOf(a)
    IN  /\ c \in Create
        /\ ~Overlaps(c.room, c.moveIn, SchedulingEnd(None, c.termination, c.actualOut), {})
        /\ t \notin Live /\ TableAccepts(t, NewRow(c))

CreateContract(a, t, heard) ==
    LET r == NewRow(BodyOf(a))
        n == desk[a].draft.revenue
    IN  /\ Sits(a, "contract")
        /\ Accepted(a, t)
        /\ rows' = [rows EXCEPT ![t] = r]
        /\ people' = [people EXCEPT ![t] = Pair(a)]
        /\ logged' = [logged EXCEPT ![t] = r]
        /\ short' = [short EXCEPT ![t] = n]
        /\ Places(a)
        /\ IF heard
           THEN /\ GoTo(a, [desk[a] EXCEPT !.at = IF n = 0 THEN "reload" ELSE "revenue",
                                           !.id = t])
                /\ UNCHANGED messages
           ELSE GiveUp(a, Done(a) \cup {t})
        /\ Answer(heard)
        /\ UNCHANGED <<unmoved, today, known, home, mine>>

\* A plausible slip: a row that fails is passed over.
SkipFailedRow(a, heard) ==
    LET t == desk[a].id
    IN  /\ Sits(a, "revenue")
        /\ short' = [short EXCEPT ![t] = IF heard THEN @ - 1 ELSE @]
        /\ Step(a, "reload")
        /\ Answer(heard)
        /\ UNCHANGED <<rows, people, logged, placed, messages, unmoved, today, known, home, mine>>

\* The rows of the form one after the other, each waiting for the one before.
CreateRevenue(a, heard) ==
    LET t == desk[a].id
    IN  /\ Sits(a, "revenue")
        /\ short' = [short EXCEPT ![t] = @ - 1]
        /\ IF ~heard THEN GiveUp(a, Done(a))
           ELSE /\ Step(a, IF short[t] = 1 THEN "reload" ELSE "revenue")
                /\ UNCHANGED messages
        /\ Answer(heard)
        /\ UNCHANGED <<rows, people, logged, placed, unmoved, today, known, home, mine>>

\* A plausible slip: an error on the way closes the form like success.
CloseAnyway(a) ==
    /\ InChain(a)
    /\ GoTo(a, Closed)
    /\ UNCHANGED <<stored, unmoved, today, known, home, mine, messages, faults>>

\* A refusal, an error, or a request that never arrived.
Refuses(a) ==
    \/ Sits(a, "second") /\ Tenants = known
    \/ Sits(a, "contract") /\ \A t \in Tenancies : ~Accepted(a, t)

ChainFails(a) ==
    /\ InChain(a)
    /\ GiveUp(a, Done(a))
    /\ IF Refuses(a) THEN UNCHANGED faults ELSE Fault
    /\ UNCHANGED <<stored, unmoved, today, known, home, mine>>

-------------------------------------------------------------------------------
(***************************************************************************)
(* Ending a contract.                                                      *)
(***************************************************************************)

\* A contract without a termination opens with its move-out in that field.
StartTenancyEdit(a, t) ==
    /\ Sits(a, "closed")
    /\ t \in DOMAIN mine[a]
    /\ LET r == mine[a][t]
       IN  GoTo(a, [at |-> "edit", id |-> t,
                    termination |-> IF r.termination # None THEN r.termination ELSE r.moveOut,
                    actualOut |-> r.actualOut, untouched |-> TRUE])
    /\ UNCHANGED <<stored, unmoved, today, known, home, mine, messages, faults>>

ChangeTenancyEdit(a, termination, actualOut) ==
    /\ Sits(a, "edit")
    /\ GoTo(a, [desk[a] EXCEPT !.termination = termination, !.actualOut = actualOut,
                               !.untouched = FALSE])
    /\ UNCHANGED <<stored, unmoved, today, known, home, mine, messages, faults>>

\* A plausible slip: the end typed in is sent as the move-out too.
SentWithMoveOut(a) ==
    [moveIn |-> Keep, moveOut |-> desk[a].termination,
     termination |-> desk[a].termination, actualOut |-> desk[a].actualOut,
     status |-> Keep, people |-> Keep]

\* Both dates are always sent; move-in, move-out and status never.
Sent(a) ==
    [moveIn |-> Keep, moveOut |-> Keep,
     termination |-> desk[a].termination, actualOut |-> desk[a].actualOut,
     status |-> Keep, people |-> Keep]

SubmitTenancyEdit(a, heard) ==
    LET t == desk[a].id
        r == PatchedRow(rows[t], Sent(a))
    IN  /\ Sits(a, "edit")
        /\ OnOrAfter(r.moveOut, r.moveIn)
        /\ ~Overlaps(r.room, r.moveIn, r.moveOut, {t})
        /\ TableAccepts(t, r)
        /\ rows' = [rows EXCEPT ![t] = r]
        /\ logged' = [logged EXCEPT ![t] = IF r = rows[t] THEN @ ELSE r]
        /\ IF heard THEN Step(a, "reloadEdit") ELSE UNCHANGED desk
        /\ Answer(heard)
        /\ UNCHANGED <<people, short, placed, unmoved, today, known, home, mine, messages>>

-------------------------------------------------------------------------------
Finished(a) == IF InChain(a) /\ ~desk[a].watched THEN Gone ELSE Closed

\* The contracts are fetched again (an error there leaves the list empty); the form
\* closes when the events came too, and else stays open under a message.
Reload(a, contracts, events) ==
    /\ desk[a].at \in {"reload", "reloadEdit"}
    /\ mine' = [mine EXCEPT ![a] = IF contracts THEN ContractsOf(home[a]) ELSE <<>>]
    /\ CASE events                        -> GoTo(a, Finished(a)) /\ UNCHANGED messages
         [] ~events /\ Sits(a, "reload")     -> GiveUp(a, Done(a))
         [] ~events /\ Sits(a, "reloadEdit") -> Step(a, "edit") /\ UNCHANGED messages
    /\ Answer(contracts /\ events)
    /\ UNCHANGED <<stored, unmoved, today, known, home>>

Cancel(a) ==
    /\ desk[a].at \in {"form", "edit"}
    /\ GoTo(a, Closed)
    /\ UNCHANGED <<stored, unmoved, today, known, home, mine, messages, faults>>

Work(a) ==
    \/ \E x \in known : Visit(a, x)
    \/ Leave(a)
    \/ OpenAssignForm(a)
    \/ \E d \in Drafts : Submit(a, d)
    \/ \E x \in Tenants, heard \in BOOLEAN : CreateSecond(a, x, heard)
    \/ \E heard \in BOOLEAN :
          \/ Join(a, heard) \/ CreateRevenue(a, heard) \/ SubmitTenancyEdit(a, heard)
          \/ \E t \in Tenancies : CreateContract(a, t, heard)
    \/ ChainFails(a)
    \/ \E t \in Tenancies : StartTenancyEdit(a, t)
    \/ \E e \in EditDates : ChangeTenancyEdit(a, e[1], e[2])
    \/ \E contracts \in BOOLEAN, events \in BOOLEAN : Reload(a, contracts, events)
    \/ Cancel(a)

DeskNext == NextDay \/ \E a \in Desks : Work(a)

DeskSpec == Begin /\ [][DeskNext]_deskVars

-------------------------------------------------------------------------------
\* What a chain of requests has left half done - a second tenant without a contract, a
\* contract without the revenue rows of its form - somebody has been told of, or the
\* chain is still at work; unless it ended in an error after its page had been left.
HalfDoneIsReported ==
    LET underWay == UNION {Done(a) : a \in {b \in Desks : InChain(b)}}
    IN  /\ known \ Residents \subseteq placed \cup told \cup unseen \cup underWay
        /\ \A t \in Live : short[t] > 0 => t \in told \cup unseen \cup underWay

\* Another form has changed the participants of a contract since: one of them is a second
\* tenant, and not the one of this form.
TakenOver(a) ==
    \E p \in people[desk[a].id] : p.tenant \in known \ (Residents \cup {desk[a].second})

\* A form that closes without a message has done what it was for: there is a contract of
\* its room in which the tenant of the page and the second tenant take part, unless
\* another form has put in others since; and if it made that contract, with a second
\* tenant or without, it has the form's day and lacks none of its revenue rows.
ClosesBooked ==
    \A a \in Desks : InChain(a) /\ desk'[a] = Closed =>
        LET t == desk[a].id
            d == desk[a].draft
        IN  /\ t \in Live /\ rows[t].room = d.room
            /\ d.second => desk[a].second # None
            /\ people[t] = Pair(a) \/ TakenOver(a)
            /\ desk[a].joined => d.second
            /\ ~desk[a].joined => rows[t].moveIn = d.moveIn /\ short[t] = 0
AssignedBooked == [][ClosesBooked]_deskVars

\* A contract opened for editing and saved as it was keeps its stay - the room, the first
\* day and the scheduling end -, even when the page was old and another desk has moved the
\* end since.  The two ends in the body are the page's all the same: they put back a
\* termination or an actual move-out that another desk has changed.
SavesAsItWas ==
    \A a \in Desks :
        Sits(a, "edit") /\ desk[a].untouched /\ rows' # rows /\ desk'[a] # desk[a] =>
            BookingOf(rows'[desk[a].id]) = BookingOf(rows[desk[a].id])
UntouchedKept == [][SavesAsItWas]_deskVars

\* "Primary-tenant tenancies for this page": a contract that takes a second tenant
\* is one the tenant of the page is the primary tenant of.
JoinsOwnContract ==
    [][\A a \in Desks : Sits(a, "join") /\ rows' # rows /\ desk'[a] # desk[a] =>
          rows[desk[a].id].tenant = home[a]
      ]_deskVars
===============================================================================
