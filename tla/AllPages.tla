--------------------------------- MODULE AllPages ---------------------------------
(***************************************************************************)
(* The pages of the admin area, of the portals and of tenant-app, by name,  *)
(* with what they do and what they draw.                                   *)
(***************************************************************************)
EXTENDS DetailPages, ListPages, ReadPages, TenantAppPages,
        DetailViews, ListViews, ReadViews, TenantAppViews

\* Pages without a record of their own in the address.
PagesWithoutRecord == DOMAIN Lists \cup DOMAIN ReadPages \cup DOMAIN TenantAppPages

AllPages ==
    Panels @@ Lists @@ ReadPages @@ TenantAppPages @@
    [tenant |-> TenantPage, unit |-> UnitPage, landlord |-> LandlordPage,
     manager |-> ManagerPage, owner |-> OwnerPage, item |-> ItemPage]

DetailPageViews ==
    [tenant |-> TenantView, unit |-> UnitView, landlord |-> LandlordView,
     manager |-> ManagerView, owner |-> OwnerView, item |-> ItemView]

ListPageViews ==
    [managers |-> ManagersView, properties |-> PropertiesView, owners |-> OwnersView,
     users |-> UsersView, landlords |-> LandlordsView, tenants |-> TenantsView,
     listings |-> ListingsView, invoices |-> InvoicesView,
     organizations |-> OrganizationsView, landlordUnits |-> LandlordUnitsView,
     units |-> UnitsView]

PanelViews ==
    [kpis |-> KpiView, businessCharts |-> BusinessChartsView,
     coLivingMonths |-> CoLivingMonthsView, platformLog |-> PlatformLogView,
     user |-> UserView, organization |-> OrganizationView,
     unitInventory |-> UnitInventoryView, listingRooms |-> ListingRoomsView,
     assignRooms |-> AssignRoomsView, inventoryList |-> InventoryView,
     apartments |-> ApartmentsView, apartment |-> ApartmentView]

ReadPageViews ==
    [expenses |-> ExpensesView, breakEven |-> BreakEvenView, forecast |-> ForecastView,
     rooms |-> RoomsView, occupancy |-> OccupancyView, performance |-> PerformanceView,
     overview |-> OverviewView, businessApartments |-> BusinessApartmentsView,
     coLiving |-> CoLivingView, revenue |-> RevenueView, portfolioMap |-> PortfolioMapView,
     landlordOverview |-> LandlordOverviewView,
     landlordProperties |-> LandlordPropertiesView,
     landlordTenancies |-> LandlordTenanciesView, landlordInvoices |-> LandlordInvoicesView,
     tenantOverview |-> TenantOverviewView, tenantTenancies |-> TenantTenanciesView,
     tenantInvoices |-> TenantInvoicesView]

TenantAppPageViews ==
    [tenantAppDashboard |-> DashboardView, tenantAppInvoices |-> TenantAppInvoicesView,
     tenantAppServices |-> ServicesView, tenantAppReports |-> DamageReportsView,
     tenantAppProtocols |-> HandoverProtocolsView, tenantAppHome |-> MyAccommodationView,
     tenantAppNews |-> AnnouncementsView, tenantAppContacts |-> ContactsView,
     tenantAppDocuments |-> DocumentsView, tenantAppEmergency |-> EmergencyView,
     tenantAppProfile |-> ProfileView]

TabViews ==
    [protocolsTab |-> ProtocolsTabView, leasesTab |-> LeasesTabView,
     occupancyTab |-> OccupancyTabView, expensesTab |-> ExpensesTabView,
     invoicesTab |-> InvoicesTabView, serviceTypesTab |-> ServiceTypesTabView,
     reportsTab |-> ReportsTabView, calendarTab |-> CalendarTabView,
     documentsTab |-> DocumentsTabView, propertiesTab |-> PropertiesTabView,
     announcementsTab |-> AnnouncementsTabView, contactsTab |-> ContactsTabView,
     settingsTab |-> SettingsTabView, financeTab |-> FinanceTabView,
     tenantsTab |-> TenantsTabView]

AllViews ==
    DetailPageViews @@ ListPageViews @@ PanelViews @@ ReadPageViews @@ TenantAppPageViews
    @@ TabViews
===============================================================================
