-------------------------------- MODULE ReadViews --------------------------------
(***************************************************************************)
(* What the dashboards, the pages of figures and the portals draw.  Most of  *)
(* them compute their figures from whatever lists have come so far.         *)
(***************************************************************************)
EXTENDS PageTasks

-------------------------------------------------------------------------------
\* AdminUebersichtPage

OverviewFigures == {"units", "occupancy", "profit"}

\* Of the portfolio nothing is shown before the contracts have come.
OverviewPortfolio ==
    Dashed({"tenancies"}, Shows({"units", "rooms", "tenancies", "costs"}))

OverviewMap          == Shows({"units", "occupancy"})
OverviewTiles        == Shows(OverviewFigures)
OverviewFinanceChart == Awaits({"charts"}, {"finance"})
OverviewRoomChart    == Awaits({"charts"}, {"belegung"})
OverviewInvoiceSums  == Shows({"invoices"} \cup OverviewFigures)
OverviewLatest       == Awaits({"invoices"}, {"invoices"})

OverviewView ==
    {OverviewPortfolio, OverviewMap, OverviewTiles, OverviewFinanceChart, OverviewRoomChart,
     OverviewInvoiceSums, OverviewLatest}

\* The figures of the month chosen.
KpiPeriod      == Awaits({"kpis"}, {"kpis"})
KpiStrip       == Awaits({"kpis"}, {"kpis"})
KpiWarnings    == Awaits({"kpis"}, {"kpis"})
KpiAssumptions == Awaits({"kpis"}, {"kpis"})

KpiView == {KpiPeriod, KpiStrip, KpiWarnings, KpiAssumptions}

-------------------------------------------------------------------------------
\* AdminCoLivingDashboardPage, whose every figure is computed from the three lists

CoLivingFilters  == Shows({"units"})
CoLivingFigures  == {"units", "rooms", "tenancies"}
CoLivingRate     == {"occupancy"}
CoLivingForecast == CoLivingFigures
CoLivingByMonth  == CoLivingFigures

CoLivingHero       == Shows(CoLivingFigures \cup CoLivingRate)
CoLivingCards      == Shows(CoLivingForecast)
CoLivingRoomStates == Shows(CoLivingFigures)
CoLivingWarnings   == Shows(CoLivingFigures)
CoLivingLoad       == Shows(CoLivingFigures \cup CoLivingRate)
CoLivingStock      == Shows(CoLivingFigures)
CoLivingPotential  == Shows(CoLivingFigures)
CoLivingOutlook    == Shows(CoLivingByMonth)
CoLivingRoomChart  == Shows(CoLivingFigures)

CoLivingView ==
    {CoLivingFilters, CoLivingHero, CoLivingCards, CoLivingRoomStates, CoLivingWarnings,
     CoLivingLoad, CoLivingStock, CoLivingPotential, CoLivingOutlook, CoLivingRoomChart}

\* Its profit by month: of all figures only the revenue at the top waits for the months.
MonthsRevenue == Awaits({"charts"}, {"months"})
MonthsChart   == Shows({"months"})

CoLivingMonthsView == {MonthsRevenue, MonthsChart}

-------------------------------------------------------------------------------
\* AdminBusinessApartmentsDashboardPage

BusinessFigures == {"units", "rooms", "tenancies"}
BusinessFilters == Shows({"units"})
BusinessCounts  == Shows(BusinessFigures)
BusinessTable   == Shows(BusinessFigures)

BusinessApartmentsView == {BusinessFilters, BusinessCounts, BusinessTable}

\* Its profit by month: the trends, the ranking and the table do not wait for it.
BusinessHero      == Awaits({"charts"}, {"months"})
BusinessTrends    == Shows({"months"})
BusinessFinance   == Awaits({"charts"}, {"months"})
BusinessOccupancy == Awaits({"charts"}, {"months"})
BusinessBestUnits == Shows({"months"})
BusinessProfits   == Shows({"months"})

BusinessChartsView ==
    {BusinessHero, BusinessTrends, BusinessFinance, BusinessOccupancy, BusinessBestUnits,
     BusinessProfits}

-------------------------------------------------------------------------------
\* AdminOccupancyPage, AdminBreakEvenPage, AdminPerformancePage, AdminRevenuePage,
\* AdminExpensesPage, AdminForecastPage, AdminRoomsPage

OccupancyFigures == {"units", "rooms", "tenancies", "occupancy"}
OccupancySums    == Shows(OccupancyFigures)
OccupancyTable   == Shows(OccupancyFigures)
OccupancyMaps    == Shows({"units", "rooms", "badges"})
OccupancyWeakest == Shows(OccupancyFigures)
OccupancyView    == {OccupancySums, OccupancyTable, OccupancyMaps, OccupancyWeakest}

BreakEvenFigures == {"units", "costs"}
BreakEvenTable   == Shows(BreakEvenFigures)
BreakEvenChart   == Shows(BreakEvenFigures)
BreakEvenView    == {BreakEvenTable, BreakEvenChart}

PerformanceFigures == {"units", "rooms", "tenancies", "profit"}
PerformanceSums    == Shows(PerformanceFigures)
PerformanceTable   == Shows(PerformanceFigures)
PerformanceView    == Behind({"loading"}, {PerformanceSums, PerformanceTable})

RevenueSums  == Shows({"invoices"})
RevenueTable == Awaits({"loading"}, {"invoices"})
RevenueView  == {RevenueSums, RevenueTable}

ExpensesFigures == {"units", "costs"}
ExpensesCards   == Shows(ExpensesFigures)
ExpensesTable   == Shows(ExpensesFigures)
ExpensesView    == {ExpensesCards, ExpensesTable}

ForecastCards == Dashed({"forecast", "profit"}, Shows({"forecast", "profit"}))
ForecastTable == Dashed({"profit"}, Shows({"units", "forecast", "profit"}))
ForecastView  == {ForecastCards, ForecastTable}

RoomsFigures  == {"units", "rooms", "tenancies"}
RoomsCards    == Shows(RoomsFigures)
RoomsMaps     == Shows(RoomsFigures)
RoomsCalendar == Shows(RoomsFigures)
RoomsView     == {RoomsCards, RoomsMaps, RoomsCalendar}

-------------------------------------------------------------------------------
\* Panels: PlatformAuditLogsPage, AdminUserDetailPage, PlatformOrganizationDetailPage,
\* InventorySection, the rooms in the tenant's form for a contract, the public pages

PlatformLogRows   == Awaits({"rows"}, {"rows"})
PlatformLogPaging == Awaits({"rows"}, {"rows"})
PlatformLogView   == {PlatformLogRows, PlatformLogPaging}

UserView         == {Awaits({"loading"}, {"user"})}
OrganizationHead == Awaits({"loading"}, {"organization"})
OrganizationData == Awaits({"loading"}, {"organization"})
OrganizationView == {OrganizationHead, OrganizationData}

UnitInventoryView == {Awaits({"rows"}, {"rows"})}
AssignRoomsView   == {Awaits({"rooms"}, {"rooms", "tenancies"})}

ApartmentsView      == {Awaits({"loading"}, {"apartments"})}
ApartmentPictures   == Awaits({"loading"}, {"apartment"})
ApartmentData       == Awaits({"loading"}, {"apartment"})
ApartmentLocation   == Awaits({"loading"}, {"apartment"})
ApartmentSummary    == Awaits({"loading"}, {"apartment"})
ApartmentView       == {ApartmentPictures, ApartmentData, ApartmentLocation, ApartmentSummary}

-------------------------------------------------------------------------------
\* PortfolioMapSection

MapMarkers   == Shows({"map"})
MapPopups    == Shows({"map"})
MapFiltered  == Shows({"map"})
MapFigures   == Shows({"map"})
MapFilters   == Shows({"map"})
MapBody      == Shows({"map"})

PortfolioMapView ==
    Behind({"loading"}, {MapMarkers, MapPopups, MapFiltered, MapFigures, MapFilters, MapBody})

-------------------------------------------------------------------------------
\* The portals: nothing but the load until it is over.

LandlordOverviewView   ==
    {Awaits({"loading"}, {"profile", "properties", "units", "tenancies", "invoices"})}
LandlordPropertiesView == {Awaits({"loading"}, {"list"})}
LandlordTenanciesView  == {Awaits({"loading"}, {"list"})}
LandlordInvoicesView   == {Awaits({"loading"}, {"list"})}
TenantOverviewView     == {Awaits({"loading"}, {"profile", "tenancies", "invoices"})}
TenantTenanciesView    == {Awaits({"loading"}, {"list"})}
TenantInvoicesView     == {Awaits({"loading"}, {"list"})}
===============================================================================
