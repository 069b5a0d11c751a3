-------------------------------- MODULE ListPages --------------------------------
(***************************************************************************)
(* The pages that list records, and the panels of dashboards.  A panel has  *)
(* a key as a page of one record has: the month, the unit or the filter     *)
(* chosen on it.  A list has none.                                         *)
(***************************************************************************)
EXTENDS PageTasks

-------------------------------------------------------------------------------
\* Panels

KpiPanel == [load |-> PageLoad("kpis", <<Fetch([kpis |-> Blank("fetchAdminDashboardKpis")])>>)]

\* Profit by month, of the months or the units chosen.
BusinessChartsPanel ==
    [load |-> LiveFlag(PageLoad("charts", <<Guarded(Fetch([months |-> Blank("fetchAdminProfit")]))>>))]

CoLivingMonthsPanel ==
    [load |-> LiveFlag(PageLoad("charts", <<Guarded(Fetch([months |-> Blank("fetchAdminProfit")]))>>))]

\* The log of the platform by page and filter; an error leaves the rows.
PlatformLogPanel ==
    [load |-> LiveFlag(PageLoad("rows", <<Guarded(Fetch([rows |-> Get("fetchPlatformAuditLogs")]))>>))]

UserPanel == [load |-> PageLoad("loading", <<Fetch([user |-> Hold("fetchAdminUser")])>>)]

OrganizationPanel ==
    [load |-> PageLoad("loading", <<Fetch([organization |-> Blank("fetchPlatformOrganization")])>>)]

UnitInventoryPanel ==
    [load |-> PageLoad("rows", <<Fetch([rows |-> Blank("fetchUnitInventoryAssignments")])>>)]

\* The rooms offered for the unit chosen in a form.
ListingRoomsPanel == [load |-> PageLoad("rooms", <<Fetch([rooms |-> Blank("fetchUnitRooms")])>>)]

AssignRoomsPanel ==
    [load |-> PageLoad("rooms", <<Fetch([rooms     |-> Blank("fetchAdminRooms"),
                                      tenancies |-> Blank("fetchAdminTenancies")])>>)]

InventoryListPanel ==
    [load   |-> PageLoad("list", <<Fetch([summary |-> Blank("fetchAdminInventorySummary"),
                                       items   |-> Blank("fetchAdminInventory")])>>),
     create |-> Calling({"load"}, Click("saving", <<Send("createInventoryItem")>>)),
     preview |-> Filling({"openImport"}, Click("preview", <<Send("inventoryImportPreview")>>)),
     import |-> Calling({"load"}, Click("importing", <<Send("createInventoryItem")>>))]

ApartmentsPanel == [load |-> PageLoad("loading", <<Fetch([apartments |-> Get("fetchApartments")])>>)]
ApartmentPanel  == [load |-> PageLoad("loading", <<Fetch([apartment |-> Get("fetchApartment")])>>)]

Panels ==
    [kpis |-> KpiPanel, businessCharts |-> BusinessChartsPanel, coLivingMonths |-> CoLivingMonthsPanel,
     platformLog |-> PlatformLogPanel, user |-> UserPanel,
     organization |-> OrganizationPanel, unitInventory |-> UnitInventoryPanel,
     listingRooms |-> ListingRoomsPanel, assignRooms |-> AssignRoomsPanel,
     inventoryList |-> InventoryListPanel, apartments |-> ApartmentsPanel,
     apartment |-> ApartmentPanel]

-------------------------------------------------------------------------------
\* Lists: a change is followed by a load that nobody waits for, without a spinner
\* on the pages whose load takes an argument for it.

ManagerList ==
    LET all == Fetch([managers  |-> Blank("fetchAdminPropertyManagers"),
                      landlords |-> Blank("fetchAdminLandlords")])
    IN  [load   |-> PageLoad("loading", <<all>>),
         reload |-> Called(Nil, <<all>>),
         create |-> Calling({"reload"}, Click("saving", <<Send("createAdminPropertyManager")>>)),
         patch  |-> Calling({"reload"}, Click("saving", <<Send("patchAdminPropertyManager")>>))]

PropertyList ==
    [load    |-> PageLoad("loading", <<Fetch([properties |-> Hold("fetchAdminProperties"),
                                           landlords  |-> Hold("fetchAdminLandlords")])>>),
     create  |-> Calling({"load"}, Click("saving", <<Send("createAdminProperty")>>)),
     update  |-> Calling({"load"}, Click("saving", <<Send("updateAdminProperty")>>)),
     geocode |-> Calling({"load"}, Click("geocoding", <<Send("geocodeAdminProperty")>>))]

OwnerList ==
    LET all == Fetch([owners |-> Blank("fetchAdminOwners")])
    IN  [load   |-> PageLoad("loading", <<all>>),
         reload |-> Called(Nil, <<all>>),
         create |-> Calling({"reload"}, Click("saving", <<Send("createAdminOwner")>>)),
         checkAddress |-> CheckAddress({"openCreate"})]

UserList ==
    [load   |-> PageLoad("list", <<Fetch([users |-> Hold("fetchAdminUsers")])>>),
     create |-> Calling({"load"}, Click("submitting", <<Send("createAdminUser")>>))]

LandlordList ==
    [load   |-> PageLoad("loading", <<Fetch([landlords |-> Hold("fetchAdminLandlords")])>>),
     create |-> Calling({"load"}, Click("saving", <<Send("createAdminLandlord")>>)),
     update |-> Calling({"load"}, Click("saving", <<Send("updateAdminLandlord")>>)),
     checkAddress |-> CheckAddress({"openCreate", "openEdit"})]

\* The error of the load takes the page's place.  A deletion waits for the load, but
\* no flag is up meanwhile.
TenantList ==
    LET all == Fetch([tenants   |-> Get("fetchAdminTenants"),
                      tenancies |-> Get("fetchAdminTenancies"),
                      units     |-> Get("fetchAdminUnits"),
                      rooms     |-> Get("fetchAdminRooms"),
                      invoices  |-> Get("fetchAdminInvoices")])
    IN  [load   |-> PageLoad("loading", <<all>>),
         reload |-> Called(Nil, <<all>>),
         create |-> Calling({"reload"}, Click("submitting", <<Send("createAdminTenant")>>)),
         delete |-> Calling({"reload"}, Click(Nil, <<Send("deleteAdminTenant")>>))]

ListingList ==
    [load   |-> PageLoad("list", <<Fetch([listings |-> Hold("fetchListings")])>>),
     units  |-> PageLoad("units", <<Fetch([units |-> Hold("fetchAdminUnits")])>>),
     create |-> Calling({"load"}, Click("submitting", <<Send("createListing")>>)),
     status |-> Click("status", <<SendAndShow("patchListingStatus", "listings")>>)]

InvoiceList ==
    [load     |-> PageLoad("list", <<Fetch([invoices |-> Hold("fetchAdminInvoices")])>>),
     generate |-> Click("generating", <<Send("generateInvoices"),
                                        Fetch([invoices |-> Hold("fetchAdminInvoices")])>>),
     paid     |-> Click("paid", <<SendAndShow("markInvoicePaid", "invoices")>>)]

OrganizationList ==
    LET all == Fetch([organizations |-> Blank("fetchPlatformOrganizations")])
    IN  [load   |-> PageLoad("loading", <<all>>),
         reload |-> Called(Nil, <<all>>),
         create |-> Calling({"reload"}, Click("saving",
                        <<SendAndAdd("createPlatformOrganization", "organizations")>>))]

\* The landlord's own units, and the units a landlord creates.
LandlordUnitList ==
    [load   |-> PageLoad("loading", <<Fetch([units |-> Hold("fetchLandlordUnits")])>>),
     create |-> Click("submitting", <<Send("createLandlordUnit"),
                                      Fetch([units |-> Hold("fetchLandlordUnits")])>>)]

\* The list of the units: every change ends with the same three lists, and a new list
\* of units fetches the costs of each anew, the fetch under way being dropped.
AfterUnit ==
    Fetch([units     |-> Get("fetchAdminUnits"),
           rooms     |-> Get("fetchAdminRooms"),
           tenancies |-> Get("fetchAdminTenanciesAll")])

UnitListCosts == Replacing(Called(Nil, <<Fetch([costs |-> Blank("fetchAdminUnitCosts")])>>))

UnitList ==
    [load   |-> Calling({"costs"}, LiveFlag(PageLoad("loading",
                    <<Guarded(Fetch([units      |-> Blank("fetchAdminUnits"),
                                     rooms      |-> Blank("fetchAdminRooms"),
                                     properties |-> Blank("fetchAdminProperties"),
                                     landlords  |-> Blank("fetchAdminLandlords"),
                                     managers   |-> Blank("fetchAdminPropertyManagers"),
                                     tenancies  |-> Blank("fetchAdminTenanciesAll")]))>>))),
     costs  |-> UnitListCosts,
     edit   |-> Calling({"costs"}, Click("saving",
                    <<Send("updateAdminUnit"), Send("deleteAdminUnitCost"),
                      Send("createAdminUnitCost"), AfterUnit>>)),
     create |-> Calling({"costs"}, Click("saving",
                    <<Send("createAdminUnit"), Send("createAdminUnitCost"), AfterUnit>>)),
     geocode |-> Calling({"costs"}, Click("geocoding", <<Send("geocodeAdminUnit"), AfterUnit>>)),
     checkAddress |-> CheckAddress({"openCreate", "openEdit"})]

Lists ==
    [managers |-> ManagerList, properties |-> PropertyList, owners |-> OwnerList,
     users |-> UserList, landlords |-> LandlordList, tenants |-> TenantList,
     listings |-> ListingList, invoices |-> InvoiceList, organizations |-> OrganizationList,
     landlordUnits |-> LandlordUnitList, units |-> UnitList]
===============================================================================
