# A verification of Vantio / FeelAtHomeNow

TLA+ models of the back end (`src/backend`), where requests can get in each other's way, and of
what runs before it (the web app `src/frontend`, the second app `src/tenant-app`), where answers
come late, chains of requests break off and tabs share a session. TLC runs over small instances,
and TLAPS proves for every instance what matters most. The definitions are translated from the
Python and JavaScript sources and from the constraints in the Alembic migrations;
`PROJECT.json` gives the lines of each.

## 1. The system and its parts

A FastAPI process serves JSON over HTTPS. Endpoints are plain functions, run by a pool of
threads; each request has its own SQLAlchemy session (`db/database.py`, `get_session`) on one
PostgreSQL database at its default isolation, READ COMMITTED. No row is ever read
`FOR UPDATE`. So a request is: read rows, check them in Python, set attributes, `commit`. Between
any two of these another request may commit. What is left to protect the data is

* the constraints of the tables (exclusion, unique, foreign key, CHECK), decided at the write;
* SQLAlchemy's UPDATE, which sends only columns whose value differs from the one *loaded*;
* row locks between a flush and its commit.

The web app is a React application. A page fetches lists into its state, and what its buttons do
is a chain of requests that no transaction holds together; effects run again when the record in
the address changes, and answers of the older effects still arrive. The tabs of a browser share the
refresh cookie and nothing else. `tenant-app` is a second React application over a hosted
database, with server functions for its invoices.

| component | state | operations | interaction | hard part |
|---|---|---|---|---|
| Tenancies (`tenancy_admin_service`, `routes_admin_tenancies`) | `tenancies`, `tenancy_participants` | POST, PATCH, DELETE | rows of rooms, units, tenants; audit log | overlap check, then commit; column-wise updates of stale rows; the list is deleted and re-inserted under row locks |
| Tenancy lifecycle (`tenancy_lifecycle`) | none | end dates, display status | called by tenancies, KPIs, portals | three end columns and one that is synced from them |
| Occupancy (`occupancy_service`) | none | status and guest of a room on a day | reads tenancies | a scan in which the order of rows decides |
| Inventory (`inventory_service`, `routes_admin_inventory`) | `inventory_items`, `inventory_assignments` | POST, PATCH, DELETE of both | rows vanish or change with rooms and units | sum check, then commit; status in a second transaction |
| Units, rooms, properties | `unit`, `room`, `properties` | CRUD, short ids, geocoding | deletes cascade | checks before a delete; room moved between units |
| Invoices (`invoice_generation_service`, `invoice_service`) | `invoices` | monthly run, mark paid | reads tenancies, keeps them from deletion | a run against concurrent deletes and other runs |
| Audit (`db/audit.py`) | `audit_logs` | one row per change | same transaction as the change | snapshot of the row in memory |
| Auth sessions (`auth/`) | `users`, `refresh_tokens`, `password_reset_tokens` | login, refresh, logout, change, forgot, reset | RLS look-ups by token hash | single use, revocation against a rotation under way |
| Email verification, onboarding | `email_verification_tokens`, `organization` | verify, resend, onboard | mail | single pending token |
| Tenant context (`db/rls.py`) | `session.info`, a transaction-local setting | set per request, after each begin | every query | survives commit and rollback |
| Revenue, KPI, forecast | none | proration by days | reads tenancies | inclusive ends, months |
| Listings, CRM records, documents, platform, portals | one table each | CRUD, reads | foreign keys | little beyond one transaction |
| Import, contact, mail, map | mostly none | external calls | HTTP | I/O |
| Browser sessions (`AuthContext.js`, `authStore.js`, `api/auth.js`) | cookie of all tabs, tokens in memory of each | restore, login, logout | `auth/` | two tabs that rotate one cookie, lost answers, reload |
| Labels and planning (`unitOccupancyStatus.js`, `unitOperationalIntelligence.js`) | none | labels of rooms, units, tenants; planner; outlook | listed contracts | a second implementation of the back end's date rules |
| Tenant page (`AdminTenantDetailPage.js`) | forms, contracts as last fetched | give a room, add a second tenant, end a contract | up to six requests in a row | half-done chains, stale lists |
| Unit form (`AdminApartmentsPage.js`) | form with costs | save | PATCH, then delete and recreate each cost | a failure in the middle, two tabs |
| Pages of the web app | slots, flags, what each section draws, forms | loads, clicks, typing | the API | late answers of another record, spinners that stay, what is not fetched again, "none" before the answer, text lost or sent to another record |
| Pages of `tenant-app` | cache of queries | queries, mutations | the platform's tables | invalidation |
| Billing functions of `tenant-app` (`functions/`) | invoices, counter | generate, mark overdue, remind | each other, mail | no transaction at all |

What makes the parts right, in short. *Tenancies*: no day of a room is let twice; one primary
tenant, the one invoices go to; an invoiced contract stays; the audit stream ends in the row.
*Inventory*: no more is placed than there is; one row for each item and place; status agrees with
rows. *Invoices*: one for each contract and period. *Sessions*: a tab that is signed in can be
loaded again, and no session outlives the password it was begun with. *Labels*: what the browser
calls free is free by the engine. *Pages*: at rest, the record of the address with the user's own
changes; no spinner without a request; a failure message that is true; no "none" that is only
"not yet"; what is typed stays, and is sent for its own record, once. *Chains*: what is left half
done is said. *Numbering*: no number twice, and a bounded retry is enough unless as many
others were faster.

## 2. Modules

| module | what it is | source |
|---|---|---|
| `Absent` | the value of a NULL column or an unset variable, which is no number and no text | NULL, `None`, `null` |
| `TenancyDates` | the date rules as operators | `tenancy_lifecycle.py`, `overlaps`, migrations 017 and 060 |
| `RoomCalendar` | abstract specification: bookings that never share a day of a room | (the promise, not code) |
| `Tenancy` | contracts, participants, invoices of contracts, audit snapshot; requests as steps of workers | `tenancy_admin_service.py`, `routes_admin_tenancies.py`, `invoice_generation_service.py`, migrations 012, 059, 060, 061 |
| `Occupancy` | room status and guest, over the rows of `Tenancy` | `occupancy_service.py` |
| `UnitStatus` | the browser's labels, planner, outlook and months, over the same rows | `unitOccupancyStatus.js`, `unitOperationalIntelligence.js`, `AdminCoLivingDashboardPage.js`, the planner of `AdminTenantDetailPage.js` |
| `MCTenancy` | request bodies for the runs of these | |
| `TenancyProofs` | proofs for any number of workers, the refinement, and proofs for one worker | |
| `OccupancyProofs` | proofs about badges, labels, planner, outlook and months | |
| `Inventory` | items, assignments, deletion and moves of rooms and units | `inventory_service.py`, `unit_admin_service.delete_unit`, `routes_admin_rooms.py`, migration 066 |
| `MCInventory` | request bodies for its runs | |
| `InventoryProofs` | proofs for any number of requests on the stock | |
| `Numbering` | numbers given out as maximum plus one, with a bounded retry | `inventory_service.create_inventory_item`, `unit_short_id.py`, `unit_admin_service.create_unit`, `routes_landlord.py`, migrations 066 and 068 |
| `InvoiceRun` | the invoices of a month as one transaction | `invoice_generation_service.py`, `routes_invoices.py`, migrations 012 and 061 |
| `TenantDesk` | chains of requests of the tenant's page, over the rows of `Tenancy` | `AdminTenantDetailPage.js` |
| `MCTenantDesk` | what is typed into its forms | |
| `TenantDeskProofs` | proofs about it, on top of `TenancyProofs` | |
| `TenantBilling` | the invoice functions | `tenant-app/functions/*.ts`, `AdminInvoices.jsx` |
| `BillingProofs` | proofs about `Numbering`, `InvoiceRun` and `TenantBilling` | |
| `MCBackOffice` | the stock, the numbers and the two kinds of invoices in one run | |
| `UnitEditor` | the form of a unit and its costs | `AdminApartmentsPage.js` |
| `UnitEditorProofs` | proofs about it | |
| `Sessions` | refresh tokens, cookie, tabs | `auth/routes.py`, `AuthContext.js`, `authStore.js`, `api/auth.js` |
| `SessionsProofs` | proofs about it | |
| `Requests` | for each call of the API the kinds of data it reads and writes | `api/*.js`, the services of `tenant-app` |
| `PageTasks` | the words in which pages are written: steps, tasks, flags; parts, forms | (vocabulary) |
| `DetailPages`, `ListPages`, `ReadPages`, `TenantAppPages`, `AllPages` | every page as its tasks | `pages/**`, `tenant-app/src` |
| `DetailViews`, `ListViews`, `ReadViews`, `TenantAppViews` | every page as the parts it draws | the JSX of the same files |
| `PageRules` | the rules that the pages keep, each with its exceptions | (speaks of the pages' tasks and parts) |
| `RuledPages` | that the pages of `AllPages` keep them | |
| `Screens` | a tab that shows one of the pages | (React's rules, as the pages use them) |
| `ScreensProofs` | proofs about it, for any pages that keep the rules | |
| `MCFrontend` | the four models of the browser side in one run | |

### Tenancy

`rows`, `people`, `billed` and `logged` are *committed* state; `job[w]` is what worker `w` holds in
memory: the body of its request, the row as it loaded it (`seen`), and the participant rows its
DELETE statement has locked (`gone`).

* POST is `CheckCreate` (validate and run the overlap query) and `Insert` (flush and commit, where
  the CHECK and the exclusion constraint decide).
* PATCH is `Load`, `DropPeople` (only with participants), `CheckPatch` (set the fields, sync
  `move_out_date`, compare the dates, query overlaps) and `Update`. `Update` writes `Updated(seen,
  wanted, now)`: the columns whose wanted value differs from the loaded one. `Waits` is the row lock: a
  worker in "check" whose DELETE hits rows that a worker in "update" has deleted, waits.
* DELETE is `LoadForDelete` and `Delete`; the invoice run is `PickForInvoice` and `Invoice`.
* `Refuse` is any 4xx or constraint error, `RollBack` a lost connection or stopped process at any
  step.

Abstracted: rent, deposit and notes ride along (a PATCH of one of them behaves like one that names
`status` with its old value); unit and organisation follow from the room; an explicit null
`move_in_date` or `status` ends in an error and is not in `Patch`; the query's autoflush sends the
participants earlier than the commit, the outcome of the constraint is decided at the commit; of the
audit stream only the newest snapshot of each contract is kept; one month is billed. A deadlock of
a PATCH with a DELETE is resolved by PostgreSQL's aborting one of them, which is `RollBack`.

### Occupancy and UnitStatus

Pure operators over `rows`. In `Occupancy` the scan by descending move-in is `Latest` of the rows that
a rule matches (the exclusion constraint makes it unique), and `DisplayStatus` is the badge.
`UnitStatus` adds what the browser computes from the contracts it has listed: labels of rooms,
units and tenants, the dashboard's months, the planner that offers rooms, and the outlook of a
unit. Its properties put the two implementations of the date rules next to each other.

### Inventory

`items`, `placed`, `units` and `home` (room to unit, `None` when deleted) are committed state; `job`
as above. Each write request on an assignment is *load*, *check* (the sum is read now, the total was
loaded), *write* (commit; unique index and foreign keys), and then the second transaction: `SyncLoad`,
`SyncCount`, `SyncSave`. PATCH of an item is `Resize`, `Flush` (takes the row lock, counts) and
`CommitItem`. `DeleteRoom`, `MoveRoom` and `DeleteUnit` are the other components' handlers as single
steps, with ON DELETE SET NULL and CASCADE. Their checks on tenancies are left out, so the model allows
more deletions than the code. The status values `repair` and `disposed` cannot be set
by any request body and are left out, and so are descriptive columns.

### Numbering

One series of numbers: the items of a year, or the units of a type. `taken` are the numbers of committed
rows, `given` all that ever were, and `asking[c]` is the number a request has read and how often it has
collided. A request reads the maximum (`ReadNext`), flushes its row (`InsertRow`, which waits while another
transaction holds the number), and commits. A refusal by the index is a `Retry`, or at the last of the eight
attempts `GiveUp`. The two callers differ in one thing: a unit's body may name a `city_id` that nobody looks
up (`lost`), and its foreign key is taken for a collision. `beaten` counts the commits of others since a
request began.

### InvoiceRun

`Tenancy` has the invoice of one contract against its deletion; this module has the batch. A run picks the
active contracts once, asks for each whether there is an invoice (`Skip`, `Miss`), adds one (`Add`, which
waits while another run holds it) and commits when none is left (`CommitRun`). A refusal takes the whole
run back (`RefuseRun`); `run[r]` is what a run holds. `rows`, `active` and `billed` are committed; the
contracts change and disappear under the run (`Turn`, `Delete`). A contract stands for the row with the tenant, room and unit it names. Amounts and
PDFs are left out; the PDFs of a run that is taken back stay on disk.

### MCBackOffice

`Inventory`, `Numbering`, `InvoiceRun` and `TenantBilling` share nothing in this run, and the module extends
all four, and `RuledPages` with them; `part` says which one a behaviour follows, and the others stay as they
begin. A property of one part holds of the others because nothing has happened there.

### TenantDesk

Two desks, each a tab on a tenant's page. Giving a room is a chain: create the second tenant, then
PATCH an open contract of the page's list or POST a new one, then each row of revenue, then the
reloads. Each request is one step over the rows of `Tenancy` (what two requests do to each other
is that module's subject) and may take effect without its answer arriving. `Leave` is everything that takes the
page away: its back button, the browser's history, the sidebar, a tab that is closed. Nothing prevents it while a
chain is under way; the chain then goes on with nobody to tell (`watched`), and if it ends in an error, what it has
left half done is `unseen`. A change of the route to another tenant counts as leaving, although the same component
then shows the message under the wrong tenant. The second tenant's chain is one of two: `Join` PATCHes the
participants of an open contract and drops the form's dates and rows of revenue, as the code does (`joined`);
otherwise the new contract takes both tenants and every row. `told`, `unseen` and `placed` are history. Ending a contract opens its form with the dates of the page's list and PATCHes both end dates.
`LastDayAssumption`: the calendar has a last day (`datetime.date.max` in the back end). `DraftAssumption`: what
is typed names tenants, rooms and days, and no id is the absent one.

### UnitEditor

The form of a unit keeps the costs as rows without ids: a save PATCHes the unit, lists the costs,
deletes each and creates those of the form. Two tabs may do so at a time, forms are opened, filled in and
closed meanwhile, and requests and answers are lost. `meant` is the rows as the last good save has shown them,
`reported` the units whose save failed with a message in the form, `missed` those whose form had been closed,
and `savedTwice` those two tabs have saved at a time.

### TenantBilling

The three functions as steps over the platform's tables, which know no transaction: one call may be
at any place while another runs, and any call may break off. A day is a month here: only the order of
due dates matters. The counter of invoice numbers is read at the start of a run and stored at its end, but only
in the row of settings that was read: without one a run counts from the default, and what it has counted is lost
(`stored`, `unfinished`). The row is there from the start or made by `SaveSettings`, whose form has no counter.
An invoice made by hand has any number, or none, and no lease.

### Requests, PageTasks, the pages and Screens

A page is a record of tasks. A task is a load (started by the route or by another task) or a click,
and a list of steps; a step sends a change, fetches slots, or both, then shows them, guarded by the
effect's clean-up or not. `Requests` says which kinds of data each call reads and writes, so that a
change reaches a slot exactly if it writes what the slot reads.
A page's view is a set of parts, one for each section of its JSX: the slots it *shows* (draws, or
computes figures from), the flags it *waits* for (a spinner stands in its place), the clicks and forms it
*offers*, each with the flags that disable it, the slots it *needs* (a dash without them), and the slots
of which it *owns* only the rows of the page's record. A part may be a form: opened by a click, filled from a
slot or empty, open to typing unless its flags say otherwise. An answer may be put into a form (`fills`: the
canton that `CheckAddress` finds) or may empty and close forms besides its own (`shuts`: the save of a tenancy takes
the form of a revenue row with it). A flag that holds the id of one row disables that row alone: it is raised and
lowered like any other, and no part waits on it (the tenant's revenue rows, `saveRevenue`, `deleteRevenue`, and
`dropRevenue` for the row that is in the form). A click can be made only where a drawn part
offers it. `Behind` is an early return that puts a spinner in place of the whole page.

`Screens` watches one slot or one form of one page at a time, chosen at the start: `ver` counts the
changes behind the slot for each record, `shown` is the version that the page shows, and `draft` the record
for which the form was opened and whether it holds text that was not sent. The route moves to another
record (the component stays mounted, for instance when the browser's history skips the list in
between), answers come in any order, a request fails, `OpenForm`, `TypeIn` and `CloseForm` use the
form, `Change` is a click that stays in the browser. Tasks and parts that cannot affect the watched slot or
form, its flags or its reloads are left out of the scene. Not in the views: filters, sorting and paging of
lists already fetched, deep links into a tab, and names that a section looks up in a second list
(the unit page's landlord, manager and tenants). Nor is the fetch of a contract's revenue rows when its edit form is
opened and they are not there yet (`AdminTenantDetailPage.js` 1023–1036), or the look-up of an address in the dialog
that creates a tenant, which only sets a hint.

`PageRules` says, of what is written down about a page, why it behaves: who lowers a flag, which click a
flag disables, which load renews a slot when the address changes, which click fetches again what it has
changed. Each rule names its exceptions (`LeftUp`, `FreeClicks`, `Lingering`, `ShownEmpty` ...), and so do
the properties of `Screens`. `ScreensProofs` derives the properties from the rules; that the pages there are
keep them is the assumption `PagesKeepTheRules` of `RuledPages`, which TLC evaluates in `BackOffice`.

### Sessions

Refresh, login and logout as look-up, commit, answer and `GET /auth/me`; a change of the password as
the reading of the live rows and the commit. Tabs are loaded, loaded again (their requests go on without
them) and answers are lost. An access token is the version of the password it carries. Token rows only:
expiry, reset and verification tokens, impersonation and disabled users are left out.

### MCFrontend

`TenantDesk`, `Screens`, `UnitEditor` and `Sessions` share nothing, and the module extends all four; `part`,
chosen at the start, says which one a behaviour follows, and the others stay as they begin.

## 3. Runs

| run | expects | instance | shows |
|---|---|---|---|
| `TenancySerial` | pass | 1 worker, 2 contracts, 1 room, 3 days, all single-field date patches, an end, three parties | synced end, primary, audit, no shared day up to the scheduling end, badges, an end only moves earlier by `move_out_date`; and the browser's planner, labels, outlook and months against the engine |
| `TenancyRace` | pass | 2 workers, 2 contracts, 1 room, bodies chosen to collide | what constraints keep when checks are stale; refinement of `RoomCalendar` |
| `TenancyAnswered` | pass | 2 workers, 1 contract, replacements of its participants, strong fairness | each request is answered |
| `TenancyDoubleBooking` | violation | 2 workers, 4 days | two stale date patches, then a stay on a taken day |
| `TenancyPrimaryRace` | violation | 2 workers, 1 contract | `tenant_id` and the primary part |
| `TenancyEndBeforeStart` | violation | 1 worker | an actual move-out before the move-in |
| `RoomStatusMasked` | violation | 1 worker | a reservation hides today's guest |
| `BackOffice` | pass | 2 workers, 1 item, 2 assignments, 2 units, 1 room, quantities 1..2; 2 clerks, 3 attempts, numbers up to 4; 2 runs, 3 contracts; 2 leases, 2 months, 3 calls, 3 invoices, 1 typed number, 1 breakdown, settings there or not | slots, references, no reverts; stock and status spoiled only through stale reads; nobody turned away who was not overtaken each time; a run that answers has billed all; a lease is billed once a month and reminded of once (2.56 million states) |
| `InventoryOversold` | violation | the same stock | two POSTs oversell |
| `InventoryStatusStale` | violation | 1 worker | the deletion of a unit leaves an item active |
| `Frontend` | pass | every slot and every form of every page with 2 records, 2 moves or clicks, 1 error; 2 desks, 2 contracts, 3 days, 1 fault; 3 forms of 2 units, 2 saves, 1 fault; 2 tabs, 3 requests, 1 change, 1 loss | the fourteen properties of these parts in section 4 (2.88 million states) |
| `TenantDeskJoin` | violation | 1 contract of a couple | the page of a co-tenant rewrites somebody else's contract |

Bounds and why they are enough. The collisions are between *two* requests on *one* row or two rows
of a room, so two workers and two ids reach each of them; a third worker adds orders of commits but
no new kind of step. Three days tell a stay's first, last and next day apart (the run on double
booking needs a fourth for two ends and a start). `MaxQuantity` = 2 lets one assignment fit
where two do not. `Creates` and `Patches` are the bodies a run sends; in the proofs they are arbitrary
sets of bodies the request models accept. Ids are reused in the model only when no request in flight holds
them, which stands for fresh uuids; when they run out a POST is refused. Two moves or clicks let the
answers of one record or one click arrive in the middle of another's, and a third record adds nothing to
that. Two clerks suffice to lose every attempt: one of them creates a row each time the other is between
reading and inserting, and three attempts tell a first, a middle and a last one apart; the eight of the code
are `MaxAttempts` in the proofs. Two runs over three contracts can each hold one that the other needs.
Three requests of two tabs hold a refresh that crosses another, with a login or logout
after or between them. Symmetry is used over workers, ids and desks where neither a constant nor the
initial state tells them apart.

`TenancySerial`, `TenancyRace`, `BackOffice` and `Frontend` state no fairness. `TenancyAnswered` uses
`FairSpec`, strong fairness of each worker's `Proceed`: a thread runs its request to the end, and
PostgreSQL hands a row lock to waiters in their order, so a worker whose lock is free again and again
gets it. `RollBack` and new requests are not fair.

Deadlock is checked in every passing run. A page, a browser or a form at rest may stay as it is, which
`Rest` says; the violation runs stop at their counterexample.

## 4. Properties of the browser side, and what they leave out

They are stated for what the code does keep; the exceptions are named in the formulas, and each is
behaviour of the code.

* `PlannerMirrorsService`: the planner, given an up-to-date list, rules out a room exactly when the service
  would refuse. `BelegtIsOccupied`: a label that says a room, unit or tenant is free or occupied agrees with
  the engine, *except* that a reservation whose day has come is not activated by anybody, and that a
  contract ends on the page with its shown end, which may be earlier than the stored one.
  `OutlookMissesNothing` and `MonthAgreesWithEngine` likewise.
* `HalfDoneIsReported`: what a chain on the tenant's page has left half done is reported, *except* when its page
  was left before it ended in an error: `setAssignErr` (1670) then speaks to nobody.
* `AssignedBooked`: a form that closes as after a success has a contract of its room with the page's tenant and the
  second tenant as its participants, *unless* another form has put in others since (`TakenOver`); and if it made
  that contract, it has the form's day and all of its rows of revenue. A chain that joined an open contract drops
  them, which the code does without a word (section 6).
* `UntouchedKept`: an edit form saved untouched keeps the stay: room, first day and scheduling end. It does not keep
  the columns: the body always holds the termination and the actual move-out that the page has shown, and puts them
  back over what another desk has stored meanwhile (1052–1061); a contract without a termination gets its move-out
  as one (995–996).
* `OwnRecordShown`: a page at rest shows the record of its address, for the slots whose effects are guarded
  (`GuardedSlots`) and as long as no click was left behind; the others may show the older record when
  answers come out of order. `Lingering` slots keep the older record until their own answer.
* `SavedIsShown`: a page at rest shows the user's own changes, when nothing failed and nobody hurried;
  `LeftStale` are three slots that the code does not fetch again.
* `NoStuckSpinner`: a flag that is up belongs to a task that lowers it; two pages of `tenant-app`
  (`LeftUp`) lower theirs only on success. `FailedMeansNotSaved`: on `CarefulPages` a message of failure means that
  nothing was stored; elsewhere a failing reload is reported like a failing save.
* `EmptyMeansNone`: nothing is drawn as empty, and no figure computed without a slot, while its first answer is
  still under way. `HastyPages` compute figures from whatever has come, `ShownEmpty` are single sections
  that do so, and the lists of `tenant-app` say "none" until their cached query answers.
* `TypedIsKept`: no answer takes unsent text out of a form of `HeldForms`, unless the address changed: their fields
  are disabled while they are saved, and no other answer reaches them. `HeldForms` names forms, not pages. On
  the same pages the form of a revenue row stays open while another row is saved, whose answer resets it
  (1141, 1194), and the save of its contract empties it (1072); a canton is put into the forms of an owner and a
  landlord; and the rooms fetched for a new contract may take a chosen room back (1377–1399). Elsewhere fields stay
  editable, and the answer closes the form over what was typed meanwhile.
* `OwnDraft`: a form that is sent after a change of the address is of the new record, for the forms that
  their page's load closes or fills anew (`OwnForms`); others stay open over the change, and send the
  old record's text for the new one.
* `SentOnce`: a button that shows it is at work does not do its work twice for one record. `FreeClicks` can:
  their flag holds one row's id (an invoice, a listing, a tenant's revenue row: the answer for X frees Y's button
  while Y's request still runs), their dialog can be opened anew, or nothing disables them. The three clicks on
  a unit's costs (`SharedFlags`) share their flag with the load of the costs, which lowers it when the address
  changes under them (`AdminUnitDetailPage.js` 811, 899–908, 1728–1748, 1784–1799).
* `NoSilentLoss`: a save of a unit that breaks off is not taken for a save, unless two tabs save one
  unit or the form was closed meanwhile.
* `BilledOnce`: one invoice for each lease and month, unless runs overlap; one number each among the invoices of
  leases, unless, besides, a run has not stored its counter: it broke off, or it found no row of settings and
  its numbers will be given again (`generateMonthlyInvoices.ts` 14–19, 98). What is typed by hand may be any
  number. `RemindedOnce`: one reminder each, and so on.
* `SessionSurvives`: a tab at rest that is signed in can be loaded again, unless a logout has given the
  cookie up, the refusal of an old token has cleared a newer cookie, or an answer was lost.
  `OldSessionsEnd`: a live token goes back to the present password, unless its rotation or login
  was under way when the password changed.

## 5. Proofs

`TenancyProofs`, for any sets of contracts, rooms, tenants, days and workers and any bodies the
request models accept (`DateAssumption`, `RequestAssumption`, `NoRowAssumption`):

* The inductive invariant is `IInv == TypeOK /\ StaysDisjoint /\ PeopleSound /\ BilledIsLive`.
  `OneGuestPerDay` speaks of days and is not inductive as stated (two stays may meet on a day outside
  `Date`); `StaysDisjoint` speaks of the stored ranges, which is what the exclusion constraint compares.
  `PeopleSound` needs `TypeOK`'s fact that bodies hold a `Party`.
* `TypeCorrect`, `NoDoubleStay`, `ParticipantsSound`, `InvoicedKept`, and the action property
  `CommitsOwnFields`.
* `Refinement`: `Spec => Calendar!Spec`, each step mapped to Enter, Rebook, Cancel or a stutter.
* Lemmas on the dates: syncing twice is syncing once; the scheduling end covers every end;
  ranges meet exactly when a day is shared; `ServiceOverlapIsRefused`: what the service calls an overlap
  of synced rows, the constraint refuses as well.

The second half of the module assumes `Workers = {w0}` and proves the five serial properties from
`SInv == IInv /\ Fresh /\ SyncedMoveOut /\ PrimaryAgrees /\ AuditCurrent`. `Fresh` says that what the
worker has loaded is still what is stored: with one worker nothing commits in between, and exactly this
fails with two, as the violation runs show.

`OccupancyProofs` builds on both. `ActiveBadgesAreGuests`, `LabelsFollowGuests` and `OutlookComplete`
assume one worker (they need the synced ends), the second also that the set of rooms is finite, for it
counts them. `MonthsFollowGuests` holds for any number of workers: it needs only that no stored stay ends
before it starts (`StartsFirst`, the table's CHECK). `PlannerRefusesAlike` holds in every state. The lemmas
(`GuestIsShown`, `GuestIsCurrent`, `CurrentIsGuest` ...) say which contracts the two implementations
pick and when these are the same.

`SessionsProofs` proves, for any number of tabs, requests, losses and changes, `SessionsTypeCorrect` and
`ChangedPasswordEndsSessions` (`OldSessionsEnd`). The latter is inductive together with `SessionsTypeOK`: a
rotation hands the version of its chain on, and only what was inserted or found past a change
is `astray`. `SessionsSurvive` (`SessionSurvives`) needs two invariants more. `TabsSound` says, for each tab,
what its memory and the request it waits for may be. `CookieSound` says which rows can still be in the cookie:
the answer of a rotation that is under way brings the row that replaces the revoked one (`Unseen`), a request that
is refused holds a dead token (`RefusedDead`), and a cookie whose row is dead has such an answer on its way or one
of the excuses of the property has happened (`Restorable`).

`InventoryProofs` proves, for any sets of items, units, rooms and workers, everything about the stock. The
invariant is `Sound == TypeOK /\ LocksHeld /\ ReferencesLive`: a foreign key is only as good as
the row locks behind it, so that the item a worker has flushed is still there at its commit.
`OneRowPerSlot` (`SlotsDistinct`) rests on `SameSlot` being checked by every step that changes a row, the
deletion of a room included; `RowsNotReverted` and `StatusNeedsOldCount` are the two action properties.
It assumes a finite set of assignments, for the status is a count of them.
`OversoldNeedsOldRead` (`OversoldOnlyIfStale`) is about sums, that is folds over sets of rows. The lemmas under
"Sums of quantities" say what such a fold computes: that the table of its values exists (`TableExists`), that it
does not depend on the set it was begun with (`TablesAgree`) or on the row that is taken first (`AnyFirst`), and
that fewer rows have no larger sum (`MoreIsMore`). The library's induction theorems take an operator as a
parameter, so the induction on the size of a set is done with sets instead (`AllNaturals`, `AllSubsets`), from the
well-foundedness of the naturals. The invariant `StockChecked` says that of what a request holds the check has
held, and that the row it changes is of its item; if all of what it holds is still so when it commits, the
sum that it makes is the one it has checked.

`BillingProofs`, first part (`Numbering`), assumes at least one attempt. `RefusedOnlyIfBeaten`
(`GivesUpOnlyIfBeaten`) needs the invariant `Counted`: a request at its n-th attempt has seen n commits of
others, and one more if the number in its hand is gone; the last collision then makes it as many as there are attempts. `NumbersWithoutGaps` needs `Contiguous`:
a number in somebody's hand has its predecessor among those given, even when that row is deleted since.

Its second part (`InvoiceRun`) proves `AnsweredRunsBillAll` (`AnsweredBilled`) from `Sound`, whose core is
`NoneForgotten` (what was picked is still to do, added, or there) and `AddedOnce` (what the unique constraint
makes of two runs).

Its third part (`TenantBilling`) proves `LeasesBilledOnce` (`BilledOnce`) and `TenantsRemindedOnce`
(`RemindedOnce`) for any leases and any number of callers, calls and invoices. Neither property is inductive:
`BilledOnce` says of the invoices that there are no two, while a call that has looked and found none is about
to add one. `OnePerMonth` therefore speaks of that call too (as long as no two calls overlapped, the invoice
it is about to make is not there), `NumbersBelow` keeps the number of each lease's invoice below the
counter of the call under way, or of the settings as long as every run has stored its own, and `Alone` says that of a function without overlaps one call is under way. `RemindedSafe` says that an invoice that was
mailed of is marked, or its mark is the very next thing the one call does.

`UnitEditorProofs` proves `SavesNeverLoseRows` (`NoSilentLoss`) for any number of tabs, units, rows, forms and
losses. The invariant is `Unspoiled`: the rows of a unit have ids of their own (`OwnIds`); of a unit that no two
tabs have saved at a time one chain is under way (`OneSave`); and each chain is on its course (`ChainsOnCourse`):
it first has exactly the stored rows to delete, and then what is stored followed by what is left to create is
what was in the form. That makes the stored rows those of the form when the chain ends, and only then.

`TenantDeskProofs` stands on `TenancyProofs` and proves the three properties of the tenant's page for any number
of desks, contracts, rooms, days and faults: `HalfDoneReported`, `AssignedIsBooked` and `UntouchedIsKept`. The
invariant `DesksSound` relates what a desk has read to what is stored by now: each row of a page's list is
`Behind` the stored one (nothing that desks do not change differs, and the stay reaches as far as every end that
was read), a chain's contract is in its draft's room and still lacks what the chain has left (`ChainSound`), no two
chains write the revenue of one contract (`OneWriter`), and what is half done has a chain that answers for it or was
told, or its page was left (`Accounted`). For `AssignedIsBooked` a chain also answers for the participants: from
the step that wrote them on they are its pair, or hold a second tenant of another form (`Peopled`); for that, no
two chains have made the same second tenant (`OneSecond`). That a saved form moves no end it did not touch follows from `Behind`: the scheduling end of
the stored row covers the ends the form shows. The open contract for a second tenant is the latest one, which
exists because the calendar has a last day; the proof is by well-foundedness of the naturals.

`ScreensProofs` proves all nine properties of `Screens`, for any pages, views, records and tables of requests, and
any number of moves, clicks and errors. The pages are data, so a theorem names the rules of `PageRules` it rests
on as its hypotheses, and TLC evaluates these rules on every page of the two apps. Each rule is one the
proof needed: a page that breaks it is the counterexample.

* `ScreensStayTyped` has the types, and that what is watched is a part of one page (`SceneOK`). It needs
  `StepsInOrder`, and so does everything below.
* `FlagsComeDown` (`NoStuckSpinner`, from `FlagsAreLowered`) is inductive as it stands. `FailureIsTrue`
  (`FailedMeansNotSaved`, from `CarefulCatch`) needs `ErrorsAreCaught`: a careful task that has stored its
  change is past the step that sends it, and has not failed.
* `ClicksSendOnce` (`SentOnce`, from `ClicksAreHeld`): `RunsOnce` says that the flag of a click is up while it
  runs and that nothing else under way has raised it (`HeldOnce`); if a load shares the flag, of the present
  address and until something was left behind or came late (`SharedOnce`). `WhatIsTypedIsKept` (`TypedIsKept`, with `FormsAreHeld`):
  while a form is sent nothing in it was typed and not sent (`SavesQuiet`), and nothing else is put into it or closes
  it (`Apart`).
* `OwnRecordIsShown` (`OwnRecordShown`, from `LoadsAreCalled`, `SlotsAreRenewed`, `SlotsAreGuarded`): if the slot
  holds another record, a live load that will renew it is under way and the flag in front of the slot is up
  (`StaleIsRenewed`); a flag tells one load from its predecessors because a task's runs have keys
  (`RunsKeyed`). `OwnDraftIsSent` (`OwnDraft`, with `FormsAreOwn`) has the same of a form (`DraftIsOwn`).
* `NothingIsShownEmpty` (`EmptyMeansNone`, from `SlotsAreBrought`): a slot that was not yet brought has a load on
  its way to it behind a raised flag (`EmptyIsAwaited`), as long as nothing failed.
* `ChangesAreShown` (`SavedIsShown`, from `LoadsAreCalled` and `ChangesAreFetched`): `SavedOrComing` says how far
  the page is. Either loads alone are under way, and the slot is current or one of them will show what is
  stored; or one click is, and it has not yet changed what the slot is about, or has fetched it since, or will
  put its own change in front, or calls a load that fetches it, or leaves the page.

Only model-checked is `Answered`: liveness under fairness is out of the prover's reach. Every other property of
a passing run is stated by one of these theorems. The seven runs that expect a violation are TLC's
counterexamples, and nothing is proved about them. That the pages keep their rules is evaluated by TLC and not
proved, for it is a computation over the tables.

## 6. What the checks found

Seven places where code and its documentation part, each with a run (`findings` in `PROJECT.json`):
the double booking after two stale date patches; `tenant_id` against the primary; an end before the
start; the masked guest; overselling; the status after a unit's deletion; and the co-tenant's page that
PATCHes somebody else's contract, makes its own tenant the primary, drops dates and revenue of the form
and closes as after a success. The first, second and fifth need two requests at once, the others do not.

Met while modelling, and left without a run because no sentence of the repository is contradicted:

* a unit whose body names an unknown city is refused after eight attempts with "Could not allocate a unique
  unit code. Please retry." (`unit_admin_service.py` 439–488): the foreign key's error is taken for a
  collision;
* the highest number is given again after its row is deleted, while `audit_logs` still names the old row by it;
* no screen turns a reserved contract into an active one when its day comes;
* nothing asks for a new access token when a request is answered with 401;
* a user that is set while the token is not is sent from `/admin` to `/platform` and back;
* the dashboard's `dashboardDisplay` replaces figures of a chosen month by those of the current one;
* a function that generates invoices and breaks off never stores the counter, and a run that marks
  the overdue overwrites a `paid` that came in between;
* rooms that are added on the unit page go into React state and are stored nowhere
  (`AdminUnitDetailPage.js` 1562–1603), and `AdminApartmentsPage.handleDelete` (1525–1573) has no button;
* the co-living page fetches badges that it never draws (547–559) and invoices whose answer it drops
  (475–479);
* the settings form of `tenant-app` takes its first values before the settings have come, and a save then
  stores them over the settings (`AdminInvoiceSettings.jsx` 21–43); its form for a new expense keeps the
  values of the one edited before (`AdminExpenses.jsx` 101); its property form can be saved twice;
* on the list of invoices, and on the revenue rows of a tenant, the answer for one row frees the button of another
  (`AdminInvoicesPage.js` 151–172; `AdminTenantDetailPage.js` 891, 1184, 1198, 2860), and the answer for one
  contract's row empties the form being typed for another (1141, 1194);
* `AdminDamageReports.addNote` appends to the list of notes as it was when the page loaded.

`tenant-app/DECISION.md` calls that app deferred, "isolated and not integrated into the production
system"; its code is modelled as it stands.

## 7. Not modelled, and what comes next

Left out on purpose, because nothing of it can go wrong between steps: display formatting, charts, the
map, vendored components, translations and mock data; the CRUD of descriptive rows (landlords, owners,
managers, listings, documents, notes) beyond the pages that show them; the spreadsheet import, mail and
geocoding, which are I/O.

Left for later modules, in the order in which they would add most:

1. *Tokens*: password reset and email verification, which are read as unused and marked later; expiry and
   impersonation in `Sessions`.
2. *Tenant context*: the transaction-local setting of `db/rls.py` over commit, rollback and reuse of a
   connection.
3. *Proration* of an invoice by days, against a definition by counting.

The hazards of `PROJECT.json` that no property covers carry a note with the reason.
