-------------------------------- MODULE ListViews --------------------------------
(***************************************************************************)
(* What the pages that list records draw, section by section, and the       *)
(* forms in which a record is created or changed.                          *)
(***************************************************************************)
EXTENDS PageTasks

\* The buttons of a form, most of them at its foot: closing it, and its clicks.
Foot(name, slot, closing, saving) ==
    Dialog(name, slot, [close |-> closing] @@ saving)

-------------------------------------------------------------------------------
\* AdminOwnersPage

OwnersHead == Offers([openCreate |-> {}])
OwnersSums == Shows({"owners"})
OwnersRows == Shows({"owners"})
OwnersForm ==
    Dialog("openCreate", Nil,
           [type |-> {}, close |-> {"saving"}, create |-> {"saving"},
            checkAddress |-> {"saving", "address"}])

OwnersView ==
    Behind({"loading"},
        {OwnersHead, OwnersSums, OwnersRows, OwnersForm})

-------------------------------------------------------------------------------
\* AdminPropertiesPage: one form, in which a record is created or changed.

PropertiesHead   == Part({"properties"}, {}, [openCreate |-> {}])
PropertiesRows   == Part({"properties", "landlords"}, {}, [openEdit |-> {}])
PropertiesFields(form) == Fields(form, {})
PropertiesCreate == Foot("openCreate", Nil, {"saving"}, [create |-> {"saving"}])
PropertiesEdit   == Foot("openEdit", "properties", {"saving"}, [update |-> {"saving"}])

\* A button in the form that asks for the coordinates anew.
PropertiesGeocode == Offers([geocode |-> {"saving", "geocoding"}])

PropertiesView ==
    Behind({"loading"},
        {PropertiesHead, PropertiesRows, PropertiesFields("openCreate"), PropertiesCreate,
         PropertiesFields("openEdit"), PropertiesEdit, PropertiesGeocode})

-------------------------------------------------------------------------------
\* AdminPropertyManagersPage: the address may name the manager to be edited.

ManagersHead == Offers([openCreate |-> {}])
ManagersSums == Shows({"managers"})
ManagersRows == Shows({"managers", "landlords"})
ManagersLink == Offers([openEdit |-> {}])
ManagersForm ==
    Dialog("openCreate", Nil, [type |-> {}, close |-> {"saving"}, create |-> {"saving"}])
ManagersEdit ==
    Dialog("openEdit", "managers", [type |-> {}, close |-> {"saving"}, patch |-> {"saving"}])

ManagersView ==
    Behind({"loading"},
        {ManagersHead, ManagersSums, ManagersRows, ManagersLink, ManagersForm,
         ManagersEdit})

-------------------------------------------------------------------------------
\* AdminUsersPage: the form stands under the rows.

UsersRows  == Awaits({"list"}, {"users"})
UsersField == Offers([userForm |-> {}])
UsersForm  ==
    Dialog("userForm", Nil,
           [type |-> {}, close |-> {"submitting"}, create |-> {"submitting"}])

UsersView == {UsersRows, UsersField, UsersForm}

-------------------------------------------------------------------------------
\* AdminLandlordsPage: only the address names the landlord to be edited.

LandlordsSums   == Part({"landlords"}, {}, [openCreate |-> {}])
LandlordsRows   == Shows({"landlords"})
LandlordsLink   == Offers([openEdit |-> {}])
LandlordsFields(form) == Fields(form, {})
LandlordsCreate ==
    Foot("openCreate", Nil, {"saving"},
         [create |-> {"saving"}, checkAddress |-> {"saving", "address"}])
LandlordsEdit ==
    Foot("openEdit", "landlords", {"saving"},
         [update |-> {"saving"}, checkAddress |-> {"saving", "address"}])

LandlordsView ==
    Behind({"loading"},
        {LandlordsSums, LandlordsRows, LandlordsLink, LandlordsFields("openCreate"),
         LandlordsCreate, LandlordsFields("openEdit"), LandlordsEdit})

-------------------------------------------------------------------------------
\* AdminTenantsPage, and TenantCreateModal, which is begun anew whenever it is opened.

TenantsHead   == Offers([openCreate |-> {}])
TenantsSums   == Shows({"tenants", "tenancies", "units", "rooms", "invoices"})
TenantsRows   ==
    Part({"tenants", "tenancies", "units", "rooms", "invoices"}, {}, [delete |-> {}])
TenantsFields == Fields("openCreate", {"submitting"})
TenantsForm   ==
    Freeing({"submitting"},
        Foot("openCreate", Nil, {}, [create |-> {"submitting"}]))

TenantsView ==
    Behind({"loading"},
        {TenantsHead, TenantsSums, TenantsRows, TenantsFields, TenantsForm})

-------------------------------------------------------------------------------
\* AdminListingsPage: the form is folded in and out, and keeps what was typed.

ListingsToggle == Offers([openCreate |-> {}])
ListingsUnits  == Awaits({"units"}, {"units"})
ListingsForm   == Dialog("openCreate", Nil, [type |-> {}, create |-> {"submitting"}])

\* A row's button is disabled while its own request runs.
ListingsRows   == Part({"listings"}, {"list"}, [status |-> {}])

ListingsView == {ListingsToggle, ListingsUnits, ListingsForm, ListingsRows}

\* The choice of a room of the unit chosen.
ListingRoomsView == {Awaits({"rooms"}, {"rooms"})}

-------------------------------------------------------------------------------
\* AdminInvoicesPage: sums of what has come so far, over rows that are awaited.

InvoicesSums     == Shows({"invoices"})
InvoicesGenerate == Offers([generate |-> {"generating"}])
InvoicesFiltered == Awaits({"list"}, {"invoices"})
InvoicesRows     == Part({"invoices"}, {"list"}, [paid |-> {}])

InvoicesView == {InvoicesSums, InvoicesGenerate, InvoicesFiltered, InvoicesRows}

-------------------------------------------------------------------------------
\* PlatformOrganizationsPage

OrganizationsHead == Offers([openCreate |-> {}])
OrganizationsRows == Shows({"organizations"})
OrganizationsForm ==
    Dialog("openCreate", Nil, [type |-> {}, close |-> {"saving"}, create |-> {"saving"}])

OrganizationsView ==
    Behind({"loading"},
        {OrganizationsHead, OrganizationsRows, OrganizationsForm})

-------------------------------------------------------------------------------
\* LandlordUnitsPage: the form is folded in and out.

LandlordUnitsHead == Offers([openCreate |-> {}])
LandlordUnitsForm == Dialog("openCreate", Nil, [type |-> {}, create |-> {"submitting"}])
LandlordUnitsRows == Shows({"units"})

LandlordUnitsView ==
    Behind({"loading"},
        {LandlordUnitsHead, LandlordUnitsForm, LandlordUnitsRows})

-------------------------------------------------------------------------------
\* AdminApartmentsPage: one form of many sections, for a new unit and for the one that
\* the page was called for.

UnitsHead == Offers([openCreate |-> {}])
UnitsLink == Offers([openEdit |-> {}])

UnitsFigures    == {"units", "rooms", "tenancies", "costs"}
UnitsSums       == Awaits({"loading"}, UnitsFigures)
UnitsFilters    == Awaits({"loading"}, {"units", "properties"})
UnitsApartments == Dashed({"tenancies"}, Awaits({"loading"}, UnitsFigures))
UnitsCoLivings  == Dashed({"tenancies"}, Awaits({"loading"}, UnitsFigures))

UnitFormAddress(form)   == Fields(form, {})
UnitFormRelations(form) ==
    [Fields(form, {}) EXCEPT !.shows = {"properties", "landlords", "managers"}]
UnitFormRooms(form)     == Fields(form, {})
UnitFormFigures(form)   == Fields(form, {})
UnitFormCosts(form)     == Fields(form, {"saving"})
UnitFormDeposit(form)   == Fields(form, {})
UnitFormLease(form)     == Fields(form, {})

UnitFormGeocode == Offers([geocode |-> {"saving", "geocoding"}])

UnitFormCreate ==
    Freeing({"geocoding", "address"},
        Foot("openCreate", Nil, {},
             [create |-> {"saving"}, checkAddress |-> {"saving", "address"}]))
UnitFormEdit ==
    Freeing({"geocoding", "address"},
        Foot("openEdit", "units", {},
             [edit |-> {"saving"}, checkAddress |-> {"saving", "address"}]))

UnitForm(form, foot) ==
    {UnitFormAddress(form), UnitFormRelations(form), UnitFormRooms(form), UnitFormFigures(form),
     UnitFormCosts(form), UnitFormDeposit(form), UnitFormLease(form), foot}

UnitsView ==
    {UnitsHead, UnitsLink, UnitsSums, UnitsFilters, UnitsApartments, UnitsCoLivings,
     UnitFormGeocode}
    \cup UnitForm("openCreate", UnitFormCreate) \cup UnitForm("openEdit", UnitFormEdit)

-------------------------------------------------------------------------------
\* AdminInventoryPage: a new article is typed in, or imported: a draft of it is asked
\* for, and put into the form.

InventoryHead == Offers([openCreate |-> {}, openImport |-> {}])
InventorySums == Awaits({"list"}, {"summary"})
InventoryRows == Awaits({"list"}, {"items"})
InventoryFields(form) == Fields(form, {})
InventoryCreate == Foot("openCreate", Nil, {}, [create |-> {"saving"}])
InventoryImport ==
    Freeing({"preview"},
        Foot("openImport", Nil, {},
             [preview |-> {"preview"}, import |-> {"importing"}, openCreate |-> {}]))

InventoryView ==
    {InventoryHead, InventorySums, InventoryRows, InventoryFields("openCreate"),
     InventoryCreate, InventoryFields("openImport"), InventoryImport}
===============================================================================
