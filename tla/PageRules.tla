-------------------------------- MODULE PageRules --------------------------------
(***************************************************************************)
(* Rules that the pages keep, each with the pages and the clicks that do    *)
(* not.  They speak of what is written down about a page, not of what       *)
(* happens on it: ScreensProofs shows what follows from them.              *)
(***************************************************************************)
EXTENDS PageTasks, Naturals

CONSTANTS
    Pages,      \* of each page its tasks, by name
    Views,      \* of each page the parts it draws
    Unrouted    \* the pages without a record of their own in the address

StepsOf(task) == {task.steps[n] : n \in DOMAIN task.steps}
SlotsOf(task) == UNION {DOMAIN s.gets \cup s.shows : s \in StepsOf(task)}

CalledIn(page) == UNION {page[t].calls : t \in DOMAIN page}

\* A task has a first and a last step, and a slot that it fetches has one of the three fates.
StepsInOrder ==
    \A p \in DOMAIN Pages : \A t \in DOMAIN Pages[p] :
        LET steps == Pages[p][t].steps
        IN  /\ Len(steps) \in Nat \ {0} /\ DOMAIN steps = 1 .. Len(steps)
            /\ \A n \in DOMAIN steps : \A s \in DOMAIN steps[n].gets :
                  steps[n].gets[s].else \in {"fail", "blank", "keep"}

\* Two pages lower the flag of a click in its success branch alone.
LeftUp == {"tenantAppInvoices", "tenantAppProfile"}

\* Elsewhere a task lowers its flag whatever becomes of it, or, if it is a load that begins
\* anew with the route, unless the route has moved on.
FlagsAreLowered ==
    \A p \in DOMAIN Pages \ LeftUp : \A t \in DOMAIN Pages[p] :
        LET task == Pages[p][t]
        IN  task.flag # Nil =>
                \/ task.lowers = "always"
                \/ task.lowers = "live" /\ task.start = "route" /\ t \notin CalledIn(Pages[p])

\* The clicks that catch the errors of the loads that follow their change.
CarefulPages ==
    {"item", "managers", "properties", "owners", "users", "landlords", "tenants",
     "listings", "invoices", "organizations", "landlordUnits"}

CarefulClicks ==
    {<<"tenant", t>> : t \in {"save", "saveRevenue", "deleteRevenue", "dropRevenue"}}
    \cup {<<"unit", t>> : t \in {"saveCost", "deleteCost", "dropCost", "uploadDoc"}}

Careful(p, t) == p \in CarefulPages \/ <<p, t>> \in CarefulClicks

\* After their change nothing they do can end in their error branch.
NothingFailsAfter(task) ==
    \A m, n \in DOMAIN task.steps :
        m < n /\ task.steps[m].sends # Nil =>
            /\ task.steps[n].sends = Nil
            /\ \A s \in DOMAIN task.steps[n].gets : task.steps[n].gets[s].else # "fail"

CarefulCatch ==
    \A p \in DOMAIN Pages : \A t \in DOMAIN Pages[p] :
        Careful(p, t) => NothingFailsAfter(Pages[p][t])

\* Clicks that raise a flag and can be made again before their answer: on another row, in
\* a dialog that has been opened anew, or because nothing disables the button.
FreeClicks ==
    {<<"invoices", "paid">>, <<"listings", "status">>, <<"tenantAppInvoices", "upload">>,
     <<"tenants", "create">>, <<"units", "geocode">>, <<"units", "checkAddress">>,
     <<"inventoryList", "preview">>, <<"propertiesTab", "save">>}
    \cup {<<"tenant", t>> : t \in {"saveRevenue", "deleteRevenue", "dropRevenue"}}

\* Three more raise a flag that a load of the page raises as well, and lowers: they can be
\* made again after the address has changed under one of them.
SharedFlags == {<<"unit", t>> : t \in {"saveCost", "deleteCost", "dropCost"}}

\* The click is disabled while its flag is up, and so are its fellows; opening a form does
\* not lower the flag.
Disabled(p, t, flag) ==
    \A part \in Views[p] :
        /\ t \in DOMAIN part.offers => flag \in part.offers[t] \cup part.waits
        /\ flag \notin part.frees

HeldClick(p, t, flag) ==
    Pages[p][t].start = "click" /\ t \notin CalledIn(Pages[p]) /\ Disabled(p, t, flag)

RaisedBy(p, flag) == {t \in DOMAIN Pages[p] : Pages[p][t].flag = flag}

Held(p, flag) == \A t \in RaisedBy(p, flag) : HeldClick(p, t, flag)

\* Of the tasks that share a flag one is a load of the route, which takes in whatever comes,
\* and the others are such clicks.
PlainLoad(p, t) ==
    /\ Pages[p][t].start = "route" /\ t \notin CalledIn(Pages[p])
    /\ \A n \in DOMAIN Pages[p][t].steps : ~Pages[p][t].steps[n].guarded

Shared(p, flag) ==
    /\ \A t \in RaisedBy(p, flag) : HeldClick(p, t, flag) \/ PlainLoad(p, t)
    /\ \A t, u \in RaisedBy(p, flag) :
          Pages[p][t].start = "route" /\ Pages[p][u].start = "route" => t = u
    /\ \A part \in Views[p] : flag \notin part.frees

ClicksAreHeld ==
    \A p \in DOMAIN Pages : \A t \in DOMAIN Pages[p] :
        LET task == Pages[p][t]
        IN  task.start = "click" /\ task.flag # Nil /\ <<p, t>> \notin FreeClicks =>
                IF <<p, t>> \in SharedFlags THEN Shared(p, task.flag) ELSE Held(p, task.flag)

\* The forms that cannot be typed into while they are saved, and that no other answer
\* reaches.  Of the same pages, the form of a revenue row stays open while another one is
\* saved, and is emptied by the save of its contract; the choices of a new contract hang on
\* lists that are fetched meanwhile; and a canton is put into the form of an owner and of a
\* landlord.
HeldForms ==
    {<<"tenant", f>> : f \in {"openEdit", "openTenancyEdit", "noteForm"}}
    \cup {<<"unit", f>> : f \in {"newCost", "editCost", "openRoom", "openEditRoom", "openLinks"}}
    \cup {<<"landlord", f>> : f \in {"noteForm", "noteEdit"}}
    \cup {<<"manager", f>> : f \in {"openEdit", "noteForm"}}

\* The clicks of the form that part belongs to.
ClicksOf(p, part) ==
    (UNION {DOMAIN x.offers : x \in {y \in Views[p] : y.form = part.form}}) \cap DOMAIN Pages[p]

\* No answer is put into the form or closes it, but those of its own clicks.
Apart(p, f) == \A t \in DOMAIN Pages[p] : f \notin Pages[p][t].fills \cup Pages[p][t].shuts

\* Only clicks send what is typed in this part of it, and its fields are disabled meanwhile.
HeldPart(p, part) ==
    \A t \in ClicksOf(p, part) :
        LET task == Pages[p][t]
        IN  /\ task.start \in {"click", "local"} /\ t \notin CalledIn(Pages[p])
            /\ task.start = "click" /\ "type" \in DOMAIN part.offers =>
                  /\ task.flag # Nil /\ <<p, t>> \notin FreeClicks
                  /\ task.flag \in part.offers["type"] \cup part.waits

FormsAreHeld ==
    \A held \in HeldForms : held[1] \in DOMAIN Pages =>
        /\ Apart(held[1], held[2])
        /\ \A part \in Views[held[1]] : part.form = held[2] => HeldPart(held[1], part)

-------------------------------------------------------------------------------
\* A task calls loads, not clicks.
LoadsAreCalled ==
    \A p \in DOMAIN Pages : \A t \in DOMAIN Pages[p] \cap CalledIn(Pages[p]) :
        Pages[p][t].start \in {"route", "called"}

\* Slots that stand under a new address, or figures under a new month, until their own
\* answer comes; a user, also when it does not.
Lingering ==
    {<<"owner", s>> : s \in {"audit", "docs", "units"}}
    \cup {<<"landlord", s>> : s \in {"audit", "managers", "notes", "units"}}
    \cup {<<"manager", "units">>} \cup {<<"unit", s>> : s \in {"costs", "kpi", "occupancy"}}
    \cup {<<p, "months">> : p \in {"businessCharts", "coLivingMonths"}}
    \cup {<<"user", "user">>}

SlotsOn(p) == UNION {SlotsOf(Pages[p][t]) : t \in DOMAIN Pages[p]}

\* Slots whose effects check that the route has not moved on.
GuardedSlots ==
    {<<"tenant", s>> : s \in {"tenant", "notes", "events", "invoices", "tenancies"}}
    \cup {<<p, s>> : p \in {"landlord", "manager"}, s \in {"rooms", "tenancies"}}
    \cup {<<"platformLog", "rows">>}

\* The slot is emptied when the address changes.
Empties(task, s) == task.start = "route" /\ s \in task.clears /\ s \in SlotsOf(task)

\* The task shows in the slot what it has fetched, or that there is nothing.
Fills(task, s) ==
    /\ \E n \in DOMAIN task.steps : s \in task.steps[n].shows
    /\ \A n \in DOMAIN task.steps :
          /\ s \in DOMAIN task.steps[n].gets => task.steps[n].gets[s].else # "keep"
          /\ s \in task.steps[n].shows => \E m \in 1 .. n : s \in DOMAIN task.steps[m].gets

\* The same of a task that may keep what the slot shows when its request fails.
Yields(task, s) ==
    /\ \E n \in DOMAIN task.steps : s \in task.steps[n].shows
    /\ \A n \in DOMAIN task.steps :
          s \in task.steps[n].shows => \E m \in 1 .. n : s \in DOMAIN task.steps[m].gets

\* A load that alone raises its flag, and lowers it for an older address not at all, or
\* never without a trace.
Alone(p, t) ==
    LET task == Pages[p][t]
    IN  /\ task.start \in {"route", "called"} /\ task.again = "beside"
        /\ task.flag # Nil /\ RaisedBy(p, task.flag) = {t}
        /\ task.lowers = "live" \/ \A n \in DOMAIN task.steps : ~task.steps[n].guarded
        /\ \A part \in Views[p] : task.flag \notin part.frees

\* Wherever the slot is drawn, but in rows of the page's own, something else stands in its
\* place while the load runs.
Hides(p, t, s) ==
    LET task == Pages[p][t]
    IN  /\ Alone(p, t)
        /\ s \in SlotsOf(task) \/ task.flag = "loading"
        /\ \A part \in Views[p] : s \in part.shows \ part.owns => task.flag \in part.waits

\* Such a load fills the slot, or empties it at its end, or calls one that fills it.
Carries(p, t, s) ==
    /\ Hides(p, t, s)
    /\ \/ Fills(Pages[p][t], s)
       \/ \E u \in Pages[p][t].calls :
             /\ u \in DOMAIN Pages[p] /\ s \in SlotsOf(Pages[p][u]) /\ Pages[p][u].again # "cached"
             /\ s \in Pages[p][u].clears \/ (Hides(p, u, s) /\ Fills(Pages[p][u], s))

Renewed(p, s) ==
    \/ p \in Unrouted
    \/ \E t \in DOMAIN Pages[p] : Empties(Pages[p][t], s)
    \/ \E t \in DOMAIN Pages[p] : Pages[p][t].start = "route" /\ Carries(p, t, s)

OnlyOwnRows(p, s) == \A part \in Views[p] : s \in part.shows => s \in part.owns

\* Whatever a page draws is renewed when its address changes, or lingers.
SlotsAreRenewed ==
    \A p \in DOMAIN Pages : \A part \in Views[p] : \A s \in part.shows :
        <<p, s>> \in Lingering \/ Renewed(p, s) \/ OnlyOwnRows(p, s)

\* No load shows a guarded slot, or lowers the flag behind which it is renewed, for an older one.
SlotsAreGuarded ==
    \A p \in DOMAIN Pages : \A s \in SlotsOn(p) : \A t \in DOMAIN Pages[p] :
        LET task == Pages[p][t]
        IN  <<p, s>> \in GuardedSlots /\ task.start \in {"route", "called"} =>
                /\ \A n \in DOMAIN task.steps :
                      s \in task.steps[n].shows => task.steps[n].guarded
                /\ Carries(p, t, s) => task.lowers = "live"

-------------------------------------------------------------------------------
\* The forms that are closed, emptied or filled anew when the address changes under them.
OwnForms ==
    {<<"tenant", f>> : f \in {"openEdit", "openTenancyEdit", "openRevenue"}}
    \cup {<<"item", "notesForm">>, <<"landlord", "noteForm">>}

\* The form is closed when the address changes, and opened from what the page then shows.
Closes(p, f, s) ==
    /\ \E t \in DOMAIN Pages[p] : Pages[p][t].start = "route" /\ f \in Pages[p][t].clears
    /\ s = Nil
       \/ /\ <<p, s>> \notin Lingering
          /\ \A part \in Views[p] : f \in DOMAIN part.offers => s \in part.shows \ part.owns

\* A load fills it anew, and until then something else stands in its place.
Refills(p, t, f) ==
    /\ Alone(p, t) /\ f \in Pages[p][t].fills
    /\ \A part \in Views[p] :
          /\ part.form = f => Pages[p][t].flag \in part.waits
          /\ f \notin DOMAIN part.offers

\* It stands in a row of the page's record, which is drawn after the slot was renewed.
InOwnRow(p, f, s) ==
    /\ Renewed(p, s)
    /\ \A part \in Views[p] : part.form = f =>
          /\ part.fills = s /\ s \in part.owns
          /\ \A t \in DOMAIN Pages[p] : Carries(p, t, s) => Pages[p][t].flag \in part.waits

FormsAreOwn ==
    \A p \in DOMAIN Pages : \A part \in Views[p] :
        <<p, part.form>> \in OwnForms /\ DOMAIN part.offers # {"type"} =>
            \/ Closes(p, part.form, part.fills)
            \/ \E t \in DOMAIN Pages[p] :
                  Pages[p][t].start = "route" /\ Refills(p, t, part.form)
            \/ InOwnRow(p, part.form, part.fills)

-------------------------------------------------------------------------------
\* Pages that compute their figures from whatever has come, and the slots of other pages
\* that are drawn as empty before the first answer.
HastyPages ==
    {"breakEven", "businessApartments", "businessCharts", "coLiving", "coLivingMonths",
     "expenses", "invoices", "occupancy", "revenue", "rooms"}

ShownEmpty ==
    {<<"owner", s>> : s \in {"audit", "docs", "units"}}
    \cup {<<"landlord", s>> : s \in {"audit", "managers", "notes", "units"}}
    \cup {<<"manager", "units">>}
    \cup {<<"unit", s>> : s \in {"costs", "kpi", "occupancy", "rooms", "tenancies"}}
    \cup {<<"units", s>> : s \in {"costs", "landlords", "managers", "properties"}}
    \cup {<<"forecast", s>> : s \in {"forecast", "units"}}
    \cup {<<"overview", s>> :
              s \in {"costs", "invoices", "occupancy", "profit", "rooms", "units"}}

\* The loads that show the slot, or call one that does.
Loaders(p, s) ==
    {t \in DOMAIN Pages[p] :
        /\ Pages[p][t].start # "click"
        /\ \E u \in {t} \cup (Pages[p][t].calls \cap DOMAIN Pages[p]) : s \in SlotsOf(Pages[p][u])}

IsCached(p, s) ==
    \E t \in DOMAIN Pages[p] : Pages[p][t].again = "cached" /\ s \in SlotsOf(Pages[p][t])

\* Wherever an empty slot would be drawn, something else stands in its place while the load
\* runs.
Veils(p, t, s) ==
    LET task == Pages[p][t]
    IN  /\ Alone(p, t)
        /\ s \in SlotsOf(task) \/ task.flag = "loading"
        /\ \A part \in Views[p] : s \in part.shows \ part.needs => task.flag \in part.waits

\* Such a load shows what the slot is fetched for, or calls one that does.
Brings(p, t, s) ==
    /\ Veils(p, t, s)
    /\ \/ Yields(Pages[p][t], s)
       \/ \E u \in Pages[p][t].calls \cap DOMAIN Pages[p] :
             /\ Veils(p, u, s) /\ Yields(Pages[p][u], s)
             /\ Pages[p][u].lowers = "live" => Pages[p][t].lowers = "live"

\* Every slot that is loaded is brought by a load that begins with the page, and never emptied.
SlotsAreBrought ==
    \A p \in DOMAIN Pages \ HastyPages : \A part \in Views[p] : \A s \in part.shows \ part.needs :
        <<p, s>> \in ShownEmpty \/ IsCached(p, s) \/ Loaders(p, s) = {}
        \/ /\ \A t \in DOMAIN Pages[p] : s \notin Pages[p][t].clears
           /\ \E t \in DOMAIN Pages[p] : Pages[p][t].start = "route" /\ Brings(p, t, s)

-------------------------------------------------------------------------------
\* The kinds of data behind a slot, and the changes that reach it.
KindsOf(page, slot) ==
    UNION {UNION {Requests[s.gets[slot].api].reads :
                     s \in {x \in StepsOf(page[t]) : slot \in DOMAIN x.gets}} : t \in DOMAIN page}

Reaches(step, kinds) == step.sends # Nil /\ Requests[step.sends].writes \cap kinds # {}

\* What three chains of requests change and do not fetch again: the audit log of a
\* landlord after a document, the figures and the badges of a unit after a room.
LeftStale ==
    {<<"landlord", "audit">>, <<"unit", "kpi">>, <<"unit", "occupancy">>}

\* A room that is added to a unit is shown, and stored nowhere.
NeverStored == {<<"unit", "rooms">>}

\* The steps of a task that change what the slot is about, and those that put it in front.
Changes(p, t, s) ==
    {n \in DOMAIN Pages[p][t].steps : Reaches(Pages[p][t].steps[n], KindsOf(Pages[p], s))}

Adds(p, t, s) ==
    {n \in DOMAIN Pages[p][t].steps :
        s \in Pages[p][t].steps[n].shows /\ Pages[p][t].steps[n].adds}

\* A task shows the slot, or calls one that does.
Delivers(p, t, s) ==
    \/ Yields(Pages[p][t], s)
    \/ \E u \in Pages[p][t].calls \cap DOMAIN Pages[p] : Yields(Pages[p][u], s)

\* A load changes nothing, and empties only a slot that it shows, outside of a cache.
OnlyLoads(p, t, s) ==
    /\ Changes(p, t, s) = {} /\ Adds(p, t, s) = {}
    /\ s \in Pages[p][t].clears => Yields(Pages[p][t], s) /\ ~IsCached(p, s)

\* With its last change, or after it, the click fetches the slot, and then shows it.
RefetchedAt(p, t, s, m, n) ==
    LET steps == Pages[p][t].steps
    IN  /\ m \in DOMAIN steps /\ n \in DOMAIN steps /\ m <= n
        /\ s \in DOMAIN steps[m].gets /\ s \in steps[n].shows
        /\ Adds(p, t, s) = {} /\ \A k \in Changes(p, t, s) : k <= m

\* It makes one change, and its answer is put in front of what the slot shows.
AddedAt(p, t, s, k) ==
    LET steps == Pages[p][t].steps
    IN  /\ k \in DOMAIN steps /\ Changes(p, t, s) = {k} /\ Adds(p, t, s) = {k}
        /\ s \in DOMAIN steps[k].gets
        /\ \A n \in DOMAIN steps : s \in steps[n].shows => n = k

\* What a click has changed is fetched again, or its success leaves the page.
Completes(p, t, s) ==
    \/ Changes(p, t, s) \cup Adds(p, t, s) = {}
    \/ \E m, n \in DOMAIN Pages[p][t].steps : RefetchedAt(p, t, s, m, n)
    \/ \E k \in DOMAIN Pages[p][t].steps : AddedAt(p, t, s, k)
    \/ \E u \in Pages[p][t].calls \cap DOMAIN Pages[p] : Delivers(p, u, s)
    \/ Pages[p][t].leaves

\* The slots of a page, and those from which its forms are filled.
WatchedOn(p) == SlotsOn(p) \cup {part.fills : part \in Views[p]}

\* Each is loaded with the page, and again by every click that changes what it is about.
ChangesAreFetched ==
    \A p \in DOMAIN Pages : \A s \in WatchedOn(p) \ {Nil} : <<p, s>> \notin LeftStale =>
        /\ \E t \in DOMAIN Pages[p] : Pages[p][t].start = "route" /\ Delivers(p, t, s)
        /\ \A t \in DOMAIN Pages[p] :
              /\ Pages[p][t].start = "click" => Completes(p, t, s)
              /\ Pages[p][t].start = "local" => <<p, s>> \in NeverStored \/ Adds(p, t, s) = {}
              /\ Pages[p][t].start \in {"route", "called"} => OnlyLoads(p, t, s)

PageRulesHold ==
    /\ StepsInOrder /\ FlagsAreLowered /\ CarefulCatch /\ ClicksAreHeld /\ FormsAreHeld
    /\ LoadsAreCalled /\ SlotsAreRenewed /\ SlotsAreGuarded /\ FormsAreOwn
    /\ SlotsAreBrought /\ ChangesAreFetched
===============================================================================
