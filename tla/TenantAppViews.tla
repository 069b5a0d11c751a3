----------------------------- MODULE TenantAppViews -----------------------------
(***************************************************************************)
(* What the pages of tenant-app draw.  They draw a list as empty until the  *)
(* query of it has been answered, and a dialog can be closed, and typed     *)
(* into, while it is being saved.                                          *)
(***************************************************************************)
EXTENDS PageTasks

\* A dialog of which only the saving button is disabled, by the flags given.
OpenDialog(name, slot, saving) ==
    Dialog(name, slot, [type |-> {}, close |-> {}] @@ saving)

-------------------------------------------------------------------------------
\* The tenant's pages

DashboardStats         == Shows({"leases", "invoices", "announcements"})
DashboardProperty      == Shows({"leases", "properties"})
DashboardInvoices      == Shows({"invoices"})
DashboardAnnouncements == Shows({"announcements"})
DashboardView ==
    {DashboardStats, DashboardProperty, DashboardInvoices, DashboardAnnouncements}

InvoicesStats == Shows({"invoices"})

\* The file of any row can be chosen while another is uploaded.
InvoicesList  == Part({"invoices"}, {}, [upload |-> {}])
TenantAppInvoicesView == {InvoicesStats, InvoicesList}

ServiceCards    == Part({"services"}, {}, [openBook |-> {}])
ServiceBookings == Shows({"bookings"})
ServiceDialog   == OpenDialog("openBook", Nil, [book |-> {"booking"}])
ServicesView    == {ServiceCards, ServiceBookings, ServiceDialog}

DamageOpener      == Offers([openReport |-> {}])
DamageForm        == OpenDialog("openReport", Nil, [create |-> {"create"}])
DamageDetail      == Shows({"reports"})
DamageRows        == Shows({"reports"})
DamageReportsView == {DamageOpener, DamageForm, DamageDetail, DamageRows}

ProtocolsPending   == Part({"protocols"}, {}, [openProtocol |-> {}])
ProtocolsCompleted == Shows({"protocols"})
ProtocolSignDialog == OpenDialog("openProtocol", "protocols", [sign |-> {"sign"}])
HandoverProtocolsView == {ProtocolsPending, ProtocolsCompleted, ProtocolSignDialog}

\* Without a contract, "no accommodation"; with one, a skeleton until it has come.
MyAccommodationView == {Dashed({"property"}, Shows({"leases", "property"}))}
AnnouncementsView   == {Shows({"announcements"})}
ContactsView        == {Shows({"contacts"})}
DocumentsView       == {Shows({"documents"})}
EmergencyView       == {Shows({"infos"})}

\* The form is there when the user is known, and stays as it is when it is saved.
ProfileForm == Dashed({"user"}, Part({"user"}, {}, [save |-> {"saving"}]))
ProfileView == {ProfileForm}

-------------------------------------------------------------------------------
\* The tabs of the administration

ProtocolsHead   == Offers([openNew |-> {}])
ProtocolsDialog(form, slot) == OpenDialog(form, slot, [save |-> {"save"}])
ProtocolsRows   ==
    Part({"protocols", "leases", "properties"}, {},
         [openEdit |-> {}, send |-> {}, delete |-> {}])
ProtocolsReader == Shows({"protocols"})
ProtocolsTabView ==
    {ProtocolsHead, ProtocolsDialog("openNew", Nil), ProtocolsDialog("openEdit", "protocols"),
     ProtocolsRows, ProtocolsReader}

LeasesHead == Offers([openNew |-> {}])
LeasesDialog(form, slot) == OpenDialog(form, slot, [save |-> {"save"}])
LeasesRows ==
    Part({"leases", "properties"}, {},
         [openEdit |-> {}, contract |-> {"contract"}, delete |-> {}])
LeasesTabView ==
    {LeasesHead, LeasesDialog("openNew", Nil), LeasesDialog("openEdit", "leases"), LeasesRows}

OccupancyTabFigures == Shows({"properties", "leases"})
OccupancyTabCards   == Shows({"properties", "leases"})
OccupancyTabRooms   == Part({"properties", "leases"}, {}, [openAssign |-> {}])
OccupancyTabDialog  ==
    [OpenDialog("openAssign", Nil, [assign |-> {"assign"}]) EXCEPT !.shows = {"users"}]
OccupancyTabView    ==
    {OccupancyTabFigures, OccupancyTabCards, OccupancyTabRooms, OccupancyTabDialog}

ExpensesHead == Offers([openNew |-> {}])
ExpensesDialog(form, slot) == OpenDialog(form, slot, [save |-> {"save"}])
ExpensesRows == Part({"expenses", "properties"}, {}, [openEdit |-> {}, delete |-> {}])
ExpensesTabView ==
    {ExpensesHead, ExpensesDialog("openNew", Nil), ExpensesDialog("openEdit", "expenses"),
     ExpensesRows}

\* A new invoice can be sent again while it is created.
InvoicesTabHead   == Offers([openNew |-> {}, generate |-> {"generate"}])
InvoicesTabDialog == OpenDialog("openNew", Nil, [create |-> {}])
InvoicesTabRows   == Part({"invoices"}, {}, [pdf |-> {"pdf"}, status |-> {}])
InvoicesTabView   == {InvoicesTabHead, InvoicesTabDialog, InvoicesTabRows}

ServiceTypesHead == Offers([openNew |-> {}])
ServiceTypesDialog(form, slot) == OpenDialog(form, slot, [save |-> {"save"}])
ServiceTypesRows == Part({"services"}, {}, [openEdit |-> {}, delete |-> {}])
ServiceTypesTabView ==
    {ServiceTypesHead, ServiceTypesDialog("openNew", Nil),
     ServiceTypesDialog("openEdit", "services"), ServiceTypesRows}

\* The dialog of a report stays open when a status or a note is saved.
ReportsDialog  == Offers([update |-> {}])
ReportsRows    == Shows({"reports"})
ReportsTabView == {ReportsDialog, ReportsRows}

CalendarMonth   == Shows({"bookings"})
CalendarRows    == Part({"bookings"}, {}, [status |-> {}])
CalendarTabView == {CalendarMonth, CalendarRows}

DocumentsHead    == Offers([openNew |-> {}])
DocumentsDialog  == OpenDialog("openNew", Nil, [create |-> {}])
DocumentsRows    == Part({"documents"}, {}, [delete |-> {}])
DocumentsTabView == {DocumentsHead, DocumentsDialog, DocumentsRows}

PropertiesTabHead == Offers([openNew |-> {}])
PropertiesDialog(form, slot) == OpenDialog(form, slot, [save |-> {}])
PropertiesTabRows == Part({"properties", "leases"}, {}, [openEdit |-> {}])
PropertiesTabView ==
    {PropertiesTabHead, PropertiesDialog("openNew", Nil),
     PropertiesDialog("openEdit", "properties"), PropertiesTabRows}

AnnouncementsHead    == Offers([openNew |-> {}])
AnnouncementsDialog  == OpenDialog("openNew", Nil, [create |-> {}])
AnnouncementsRows    == Part({"announcements"}, {}, [delete |-> {}])
AnnouncementsTabView == {AnnouncementsHead, AnnouncementsDialog, AnnouncementsRows}

ContactsHead == Offers([openNew |-> {}])
ContactsDialog(form, slot) == OpenDialog(form, slot, [save |-> {}])
ContactsRows == Part({"contacts"}, {}, [openEdit |-> {}, delete |-> {}])
ContactsTabView ==
    {ContactsHead, ContactsDialog("openNew", Nil), ContactsDialog("openEdit", "contacts"),
     ContactsRows}

\* The form begins with what is known of the settings when the tab is opened, which need
\* not have come, and is never filled again.
SettingsForm    == Offers([save |-> {"save"}])
SettingsTabView == {SettingsForm}

FinanceFigures == {"invoices", "expenses", "bookings"}
FinanceCards   == Shows(FinanceFigures)
FinanceLoad    == Shows({"properties", "leases"})
FinanceRevenue == Shows({"invoices"})
FinanceByHouse == Shows({"properties", "leases", "invoices", "expenses"})
FinanceTabView == {FinanceCards, FinanceLoad, FinanceRevenue, FinanceByHouse}

TenantsTabView == {Shows({"users", "leases"})}
===============================================================================
