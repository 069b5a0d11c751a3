-------------------------------- MODULE ReadPages --------------------------------
(***************************************************************************)
(* The pages that only read: dashboards, figures, the portals.  They have   *)
(* no record in the address, and a slot for each list behind their figures. *)
(***************************************************************************)
EXTENDS PageTasks

\* The lists nearly every one of them begins with; an error empties them.
UnitsSlot     == [units |-> Blank("fetchAdminUnits")]
RoomsSlot     == [rooms |-> Blank("fetchAdminRooms")]
TenanciesSlot == [tenancies |-> Blank("fetchAdminTenanciesAll")]

\* The costs of each unit listed, fetched when the list of units has come.
CostsOfUnits ==
    Replacing(Called(Nil, <<Guarded(Fetch([costs |-> Blank("fetchAdminUnitCosts")]))>>))

ExpensesPage ==
    [load |-> Calling({"costs"}, PageLoad(Nil, <<Fetch(UnitsSlot)>>)), costs |-> CostsOfUnits]

BreakEvenPage == ExpensesPage

ForecastPage ==
    [load     |-> PageLoad(Nil, <<Fetch(UnitsSlot)>>),
     forecast |-> PageLoad(Nil, <<Fetch([forecast |-> Blank("fetchAdminRevenueForecast")])>>),
     profit   |-> PageLoad(Nil, <<Fetch([profit |-> Blank("fetchAdminProfit")])>>)]

RoomsPage ==
    [units     |-> PageLoad(Nil, <<Fetch(UnitsSlot)>>),
     rooms     |-> PageLoad(Nil, <<Fetch(RoomsSlot)>>),
     tenancies |-> PageLoad(Nil, <<Fetch(TenanciesSlot)>>)]

\* The badges of a unit whose request fails stay as they are.
OccupancyPage ==
    [load      |-> Calling({"badges"}, PageLoad(Nil, <<Fetch(UnitsSlot)>>)),
     rooms     |-> PageLoad(Nil, <<Fetch(RoomsSlot)>>),
     tenancies |-> PageLoad(Nil, <<Fetch(TenanciesSlot)>>),
     occupancy |-> PageLoad(Nil, <<Fetch([occupancy |-> Blank("fetchAdminOccupancy")])>>),
     badges    |-> Replacing(Called(Nil,
                       <<Guarded(Fetch([badges |-> Hold("fetchAdminOccupancyRooms")]))>>))]

PerformancePage ==
    [load |-> LiveFlag(PageLoad("loading",
                  <<Guarded(Fetch(UnitsSlot @@ RoomsSlot @@ TenanciesSlot
                                  @@ [profit |-> Blank("fetchAdminProfit")]))>>))]

\* The overview: an error of one of its first lists leaves them all.
OverviewPage ==
    [load     |-> Calling({"costs"}, PageLoad(Nil,
                      <<Fetch([units     |-> Hold("fetchAdminUnits"),
                               rooms     |-> Hold("fetchAdminRooms"),
                               occupancy |-> Hold("fetchAdminOccupancy"),
                               profit    |-> Hold("fetchAdminProfit"),
                               tenancies |-> Blank("fetchAdminTenanciesAll")])>>)),
     costs    |-> CostsOfUnits,
     charts   |-> LiveFlag(PageLoad("charts",
                      <<Guarded(Fetch([finance   |-> Blank("fetchAdminProfit"),
                                       belegung  |-> Blank("fetchAdminOccupancy")]))>>)),
     invoices |-> PageLoad("invoices", <<Fetch([invoices |-> Hold("fetchAdminInvoices")])>>)]

\* Besides the panels of profit by month.
BusinessApartmentsPage ==
    [load |-> PageLoad(Nil, <<Fetch(UnitsSlot @@ RoomsSlot @@ TenanciesSlot)>>)]

CoLivingPage ==
    RoomsPage @@ [occupancy |-> PageLoad(Nil, <<Fetch([occupancy |-> Blank("fetchAdminOccupancy")])>>)]

RevenuePage == [load |-> PageLoad("loading", <<Fetch([invoices |-> Hold("fetchAdminInvoices")])>>)]

PortfolioMap == [load |-> PageLoad("loading", <<Fetch([map |-> Blank("fetchAdminPortfolioMap")])>>)]

-------------------------------------------------------------------------------
\* The portals.  An error takes the page's place.

PortalPage(gets) == [load |-> PageLoad("loading", <<Fetch(gets)>>)]

LandlordOverviewPage ==
    PortalPage([profile    |-> Get("fetchLandlordMe"),
                properties |-> Get("fetchLandlordProperties"),
                units      |-> Get("fetchLandlordUnits"),
                tenancies  |-> Get("fetchLandlordTenancies"),
                invoices   |-> Get("fetchLandlordInvoices")])
LandlordPropertiesPage == PortalPage([list |-> Get("fetchLandlordProperties")])
LandlordTenanciesPage  == PortalPage([list |-> Get("fetchLandlordTenancies")])
LandlordInvoicesPage   == PortalPage([list |-> Get("fetchLandlordInvoices")])

TenantOverviewPage ==
    PortalPage([profile   |-> Get("fetchTenantMe"),
                tenancies |-> Get("fetchTenantTenancies"),
                invoices  |-> Get("fetchTenantInvoices")])
TenantTenanciesPage == PortalPage([list |-> Get("fetchTenantTenancies")])
TenantInvoicesPage  == PortalPage([list |-> Get("fetchTenantInvoices")])

ReadPages ==
    [expenses |-> ExpensesPage, breakEven |-> BreakEvenPage, forecast |-> ForecastPage,
     rooms |-> RoomsPage, occupancy |-> OccupancyPage, performance |-> PerformancePage,
     overview |-> OverviewPage, businessApartments |-> BusinessApartmentsPage,
     coLiving |-> CoLivingPage, revenue |-> RevenuePage, portfolioMap |-> PortfolioMap,
     landlordOverview |-> LandlordOverviewPage, landlordProperties |-> LandlordPropertiesPage,
     landlordTenancies |-> LandlordTenanciesPage, landlordInvoices |-> LandlordInvoicesPage,
     tenantOverview |-> TenantOverviewPage, tenantTenancies |-> TenantTenanciesPage,
     tenantInvoices |-> TenantInvoicesPage]
===============================================================================
