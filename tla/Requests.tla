-------------------------------- MODULE Requests --------------------------------
(***************************************************************************)
(* The requests of the browser's API modules, each with the kinds of data  *)
(* its answer depends on or that it changes.  A write to a record also      *)
(* appends to the audit trail of the record where the back end logs it, and *)
(* notes and tenant fields append to the tenant's events.                   *)
(***************************************************************************)
EXTENDS TLC

Read(kinds)  == [reads |-> kinds, writes |-> {}]
Write(kinds) == [reads |-> {}, writes |-> kinds]

UnitRequests ==
    [fetchAdminUnits     |-> Read({"unit"}),
     fetchAdminUnit      |-> Read({"unit"}),
     fetchAdminUnitCosts |-> Read({"cost"}),
     createAdminUnitCost |-> Write({"cost", "unit", "unitAudit"}),
     updateAdminUnitCost |-> Write({"cost", "unit", "unitAudit"}),
     deleteAdminUnitCost |-> Write({"cost", "unit", "unitAudit"})]

InventoryRequests ==
    [fetchAdminInventoryItem         |-> Read({"item", "assignment"}),
     fetchAdminInventory             |-> Read({"item", "assignment"}),
     fetchAdminInventorySummary      |-> Read({"item", "assignment"}),
     inventoryImportPreview          |-> Read({}),
     createInventoryItem             |-> Write({"item", "itemAudit"}),
     updateInventoryItem             |-> Write({"item", "itemAudit"}),
     deleteInventoryItem             |-> Write({"item", "assignment", "itemAudit"}),
     fetchUnitInventoryAssignments   |-> Read({"assignment"}),
     fetchInventoryItemAssignments   |-> Read({"assignment"}),
     createInventoryAssignment       |-> Write({"assignment", "itemAudit"}),
     updateInventoryAssignment       |-> Write({"assignment", "itemAudit"}),
     deleteInventoryAssignment       |-> Write({"assignment", "itemAudit"})]

\* A log is asked for by the type and the id of its record.
AuditRequests ==
    [tenantAuditLogs   |-> Read({"tenantAudit"}),
     unitAuditLogs     |-> Read({"unitAudit"}),
     landlordAuditLogs |-> Read({"landlordAudit"}),
     managerAuditLogs  |-> Read({"managerAudit"}),
     ownerAuditLogs    |-> Read({"ownerAudit"}),
     itemAuditLogs     |-> Read({"itemAudit"})]

UnitAndRoomWrites ==
    [createAdminUnit |-> Write({"unit", "room", "unitAudit"}),
     updateAdminUnit |-> Write({"unit", "unitAudit"}),
     deleteAdminUnit |-> Write({"unit", "assignment"}),
     fetchAdminRooms |-> Read({"room"}),
     deleteAdminRoom |-> Write({"room", "unitAudit"})]

TenantRequests ==
    [fetchAdminTenants      |-> Read({"tenant"}),
     fetchAdminTenant       |-> Read({"tenant"}),
     createAdminTenant      |-> Write({"tenant", "event", "tenantAudit"}),
     updateAdminTenant      |-> Write({"tenant", "event", "tenantAudit"}),
     deleteAdminTenant      |-> Write({"tenant"}),
     fetchAdminTenantNotes  |-> Read({"tenantNote"}),
     createAdminTenantNote  |-> Write({"tenantNote", "event"}),
     fetchAdminTenantEvents |-> Read({"event"})]

TenancyRequests ==
    [fetchAdminTenancies       |-> Read({"tenancy"}),
     fetchAdminTenanciesAll    |-> Read({"tenancy"}),
     createAdminTenancy        |-> Write({"tenancy", "tenantAudit", "unitAudit"}),
     patchAdminTenancy         |-> Write({"tenancy", "tenantAudit", "unitAudit"}),
     fetchAdminTenancyRevenue  |-> Read({"revenue"}),
     createAdminTenancyRevenue |-> Write({"revenue", "tenantAudit", "unitAudit"}),
     patchAdminTenancyRevenue  |-> Write({"revenue", "tenantAudit", "unitAudit"}),
     deleteAdminTenancyRevenue |-> Write({"revenue", "tenantAudit", "unitAudit"}),
     fetchAdminInvoices        |-> Read({"invoice"})]

\* Figures the back end computes from the rows of others; unitKpi stands for the
\* profit and the occupancy of a unit, which are asked for and shown together.
FigureRequests ==
    [fetchAdminOccupancy      |-> Read({"room", "tenancy"}),
     fetchAdminOccupancyRooms |-> Read({"room", "tenancy"}),
     fetchAdminProfit         |-> Read({"revenue", "cost", "tenancy"}),
     fetchAdminDashboardKpis  |-> Read({"revenue", "cost", "room", "tenancy"}),
     unitKpi                  |-> Read({"revenue", "cost", "room", "tenancy"})]

LandlordRequests ==
    [fetchAdminLandlords                |-> Read({"landlord"}),
     fetchAdminLandlord                 |-> Read({"landlord"}),
     fetchAdminLandlordUnits            |-> Read({"unit"}),
     fetchAdminLandlordPropertyManagers |-> Read({"manager"}),
     fetchAdminLandlordNotes            |-> Read({"landlordNote"}),
     createAdminLandlordNote            |-> Write({"landlordNote"}),
     updateAdminLandlordNote            |-> Write({"landlordNote"})]

LandlordWrites ==
    [createAdminLandlord  |-> Write({"landlord", "landlordAudit"}),
     updateAdminLandlord  |-> Write({"landlord", "landlordAudit"}),
     deleteAdminLandlord  |-> Write({"landlord", "landlordAudit"}),
     restoreAdminLandlord |-> Write({"landlord", "landlordAudit"})]

ManagerRequests ==
    [fetchAdminPropertyManagers       |-> Read({"manager"}),
     fetchAdminPropertyManager        |-> Read({"manager"}),
     fetchAdminPropertyManagerUnits   |-> Read({"unit"}),
     fetchAdminPropertyManagerNotes   |-> Read({"managerNote"}),
     createAdminPropertyManagerNote   |-> Write({"managerNote"}),
     createAdminPropertyManager       |-> Write({"manager", "managerAudit"}),
     patchAdminPropertyManager        |-> Write({"manager", "managerAudit"})]

OwnerRequests ==
    [fetchAdminOwners     |-> Read({"owner"}),
     fetchAdminOwner      |-> Read({"owner"}),
     fetchAdminOwnerUnits |-> Read({"unit"}),
     createAdminOwner     |-> Write({"owner", "ownerAudit"}),
     patchAdminOwner      |-> Write({"owner", "ownerAudit"})]

\* Uploading and deleting a document is logged with the record it belongs to.
UnitDocuments ==
    [fetchAdminUnitDocuments     |-> Read({"unitDoc"}),
     uploadAdminUnitDocument     |-> Write({"unitDoc", "unitAudit"}),
     deleteAdminUnitDocument     |-> Write({"unitDoc", "unitAudit"})]

TenantDocuments ==
    [fetchAdminTenantDocuments   |-> Read({"tenantDoc"}),
     uploadAdminTenantDocument   |-> Write({"tenantDoc", "tenantAudit"}),
     deleteAdminTenantDocument   |-> Write({"tenantDoc", "tenantAudit"})]

LandlordDocuments ==
    [fetchAdminLandlordDocuments |-> Read({"landlordDoc"}),
     uploadAdminLandlordDocument |-> Write({"landlordDoc", "landlordAudit"}),
     deleteAdminLandlordDocument |-> Write({"landlordDoc", "landlordAudit"})]

OwnerDocuments ==
    [fetchAdminOwnerDocuments    |-> Read({"ownerDoc"}),
     uploadAdminOwnerDocument    |-> Write({"ownerDoc", "ownerAudit"}),
     deleteAdminOwnerDocument    |-> Write({"ownerDoc", "ownerAudit"})]

PropertyRequests ==
    [fetchAdminProperties |-> Read({"property"}),
     createAdminProperty  |-> Write({"property"}),
     updateAdminProperty  |-> Write({"property"}),
     geocodeAdminProperty |-> Write({"property"})]

UserRequests ==
    [fetchAdminUsers |-> Read({"user"}), fetchAdminUser |-> Read({"user"})]

PlatformRequests ==
    [fetchPlatformOrganizations |-> Read({"organization"}),
     fetchPlatformOrganization  |-> Read({"organization"}),
     createPlatformOrganization |-> Write({"organization"}),
     fetchPlatformAuditLogs     |-> Read({"platformAudit"})]

\* Requests that pages make without an API module.
CreateUserRequest == [createAdminUser |-> Write({"user"})]

ListingRequests ==
    [fetchListings      |-> Read({"listing"}),
     createListing      |-> Write({"listing"}),
     patchListingStatus |-> Write({"listing"}),
     fetchUnitRooms     |-> Read({"room"})]

InvoiceWrites ==
    [generateInvoices |-> Write({"invoice"}), markInvoicePaid |-> Write({"invoice"})]

ApartmentRequests ==
    [fetchApartments |-> Read({"listing"}), fetchApartment |-> Read({"listing"})]

\* The portals of the landlords and of the tenants.
LandlordPortalRequests ==
    [fetchLandlordMe         |-> Read({"landlord"}),
     fetchLandlordProperties |-> Read({"property"}),
     fetchLandlordUnits      |-> Read({"unit"}),
     createLandlordUnit      |-> Write({"unit"}),
     fetchLandlordTenancies  |-> Read({"tenancy"}),
     fetchLandlordInvoices   |-> Read({"invoice"})]

TenantPortalRequests ==
    [fetchTenantMe        |-> Read({"tenant"}),
     fetchTenantTenancies |-> Read({"tenancy"}),
     fetchTenantInvoices  |-> Read({"invoice"})]

\* Forecast and map.
OtherFigures ==
    [fetchAdminRevenueForecast |-> Read({"revenue", "tenancy"}),
     fetchAdminPortfolioMap    |-> Read({"unit", "room", "tenancy", "property"})]

\* The search for the coordinates of a unit, and for the canton of an address.
AddressRequests ==
    [geocodeAdminUnit |-> Write({"unit"}), verifyAdminAddress |-> Read({})]

\* The entities of the app of the tenants.
TenantAppRequests ==
    [listLeases        |-> Read({"lease"}),
     saveLease         |-> Write({"lease"}),
     deleteLease       |-> Write({"lease"}),
     generateContract  |-> Write({"document"}),
     listRentInvoices  |-> Read({"rentInvoice"}),
     saveRentInvoice   |-> Write({"rentInvoice"}),
     generateMonthly   |-> Write({"rentInvoice", "invoiceSettings"}),
     generatePDF       |-> Write({"rentInvoice", "document"}),
     listProperties    |-> Read({"home"}),
     saveProperty      |-> Write({"home"}),
     listBookings      |-> Read({"booking"}),
     saveBooking       |-> Write({"booking"}),
     listServiceTypes  |-> Read({"serviceType"}),
     saveServiceType   |-> Write({"serviceType"}),
     listReports       |-> Read({"report"}),
     saveReport        |-> Write({"report"}),
     listProtocols     |-> Read({"protocol"}),
     saveProtocol      |-> Write({"protocol"}),
     listAnnouncements |-> Read({"announcement"}),
     saveAnnouncement  |-> Write({"announcement"}),
     listContacts      |-> Read({"contact"}),
     saveContact       |-> Write({"contact"}),
     listDocuments     |-> Read({"document"}),
     saveDocument      |-> Write({"document"}),
     listExpenses      |-> Read({"expense"}),
     saveExpense       |-> Write({"expense"}),
     listEmergency     |-> Read({"emergency"}),
     listUsers         |-> Read({"me"}),
     updateMe          |-> Write({"me"}),
     listSettings      |-> Read({"invoiceSettings"}),
     saveSettings      |-> Write({"invoiceSettings"})]

Requests ==
    UnitRequests @@ InventoryRequests @@ AuditRequests @@ UnitAndRoomWrites
    @@ TenantRequests @@ TenancyRequests @@ FigureRequests @@ LandlordRequests
    @@ LandlordWrites @@ ManagerRequests @@ OwnerRequests @@ UnitDocuments
    @@ TenantDocuments @@ LandlordDocuments @@ OwnerDocuments @@ PropertyRequests
    @@ UserRequests @@ PlatformRequests @@ CreateUserRequest @@ ListingRequests
    @@ InvoiceWrites @@ ApartmentRequests @@ LandlordPortalRequests @@ TenantPortalRequests
    @@ OtherFigures @@ AddressRequests @@ TenantAppRequests
===============================================================================
