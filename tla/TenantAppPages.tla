------------------------------ MODULE TenantAppPages ------------------------------
(***************************************************************************)
(* The pages of the app of the tenants and of its administration.  A page   *)
(* keeps its lists in a cache of queries; a mutation invalidates the        *)
(* queries of the lists it knows to have changed.  A query that fails twice *)
(* leaves what it had.  Queries of the tenant's own rows begin when the     *)
(* user is known.                                                          *)
(***************************************************************************)
EXTENDS PageTasks

Query(slot, api) == Cached(PageLoad(Nil, <<Fetch(slot :> Hold(api))>>))
Mutation(flag, api, queries) == Calling(queries, Click(flag, <<Send(api)>>))

-------------------------------------------------------------------------------
\* The tenant's pages

DashboardPage ==
    [leases        |-> Query("leases", "listLeases"),
     invoices      |-> Query("invoices", "listRentInvoices"),
     announcements |-> Query("announcements", "listAnnouncements"),
     properties    |-> Query("properties", "listProperties")]

\* The row's button is free again when the upload has succeeded.
InvoicesPage ==
    [invoices |-> Query("invoices", "listRentInvoices"),
     upload   |-> AnswerFlag(Mutation("uploadingId", "saveRentInvoice", {"invoices"}))]

\* A booking with a price is followed by an invoice of its own.
ServicesPage ==
    [services |-> Query("services", "listServiceTypes"),
     bookings |-> Query("bookings", "listBookings"),
     leases   |-> Query("leases", "listLeases"),
     book     |-> Calling({"bookings"}, Click("booking", <<Send("saveBooking"), Send("saveRentInvoice")>>))]

DamageReportsPage ==
    [leases  |-> Query("leases", "listLeases"),
     reports |-> Query("reports", "listReports"),
     create  |-> Mutation("create", "saveReport", {"reports"})]

HandoverProtocolsPage ==
    [protocols |-> Query("protocols", "listProtocols"),
     sign      |-> Mutation("sign", "saveProtocol", {"protocols"})]

MyAccommodationPage ==
    [leases   |-> Query("leases", "listLeases"),
     property |-> Query("property", "listProperties")]

AnnouncementsPage == [announcements |-> Query("announcements", "listAnnouncements")]
ContactsPage      == [contacts |-> Query("contacts", "listContacts")]
DocumentsPage     == [documents |-> Query("documents", "listDocuments")]
EmergencyPage     == [infos |-> Query("infos", "listEmergency")]

\* The form is what the page shows of the user; saving does not ask for it again, and
\* an error leaves the button as it is.
ProfilePage ==
    [user |-> PageLoad(Nil, <<Fetch([user |-> Hold("listUsers")])>>),
     save |-> AnswerFlag(Click("saving", <<SendAndShow("updateMe", "user")>>))]

-------------------------------------------------------------------------------
\* The tabs of the administration

ProtocolsTab ==
    [protocols  |-> Query("protocols", "listProtocols"),
     leases     |-> Query("leases", "listLeases"),
     properties |-> Query("properties", "listProperties"),
     save       |-> Mutation("save", "saveProtocol", {"protocols"}),
     send       |-> Mutation(Nil, "saveProtocol", {"protocols"}),
     delete     |-> Mutation(Nil, "saveProtocol", {"protocols"})]

LeasesTab ==
    [leases     |-> Query("leases", "listLeases"),
     properties |-> Query("properties", "listProperties"),
     users      |-> Query("users", "listUsers"),
     save       |-> Mutation("save", "saveLease", {"leases"}),
     delete     |-> Mutation(Nil, "deleteLease", {"leases"}),
     contract   |-> Mutation("contract", "generateContract", {})]

OccupancyTab ==
    [properties |-> Query("properties", "listProperties"),
     leases     |-> Query("leases", "listLeases"),
     users      |-> Query("users", "listUsers"),
     assign     |-> Mutation("assign", "saveLease", {"leases"})]

ExpensesTab ==
    [expenses   |-> Query("expenses", "listExpenses"),
     properties |-> Query("properties", "listProperties"),
     save       |-> Mutation("save", "saveExpense", {"expenses"}),
     delete     |-> Mutation(Nil, "saveExpense", {"expenses"})]

InvoicesTab ==
    [invoices |-> Query("invoices", "listRentInvoices"),
     create   |-> Mutation(Nil, "saveRentInvoice", {"invoices"}),
     generate |-> Mutation("generate", "generateMonthly", {"invoices"}),
     pdf      |-> Mutation("pdf", "generatePDF", {"invoices"}),
     status   |-> Mutation(Nil, "saveRentInvoice", {"invoices"})]

ServiceTypesTab ==
    [services |-> Query("services", "listServiceTypes"),
     save     |-> Mutation("save", "saveServiceType", {"services"}),
     delete   |-> Mutation(Nil, "saveServiceType", {"services"})]

ReportsTab ==
    [reports |-> Query("reports", "listReports"),
     update  |-> Mutation(Nil, "saveReport", {"reports"})]

CalendarTab ==
    [bookings |-> Query("bookings", "listBookings"),
     status   |-> Mutation(Nil, "saveBooking", {"bookings"})]

DocumentsTab ==
    [documents |-> Query("documents", "listDocuments"),
     create    |-> Mutation(Nil, "saveDocument", {"documents"}),
     delete    |-> Mutation(Nil, "saveDocument", {"documents"})]

PropertiesTab ==
    [properties |-> Query("properties", "listProperties"),
     leases     |-> Query("leases", "listLeases"),
     save       |-> Mutation("save", "saveProperty", {"properties"})]

AnnouncementsTab ==
    [announcements |-> Query("announcements", "listAnnouncements"),
     create        |-> Mutation(Nil, "saveAnnouncement", {"announcements"}),
     delete        |-> Mutation(Nil, "saveAnnouncement", {"announcements"})]

ContactsTab ==
    [contacts |-> Query("contacts", "listContacts"),
     save     |-> Mutation(Nil, "saveContact", {"contacts"}),
     delete   |-> Mutation(Nil, "saveContact", {"contacts"})]

SettingsTab ==
    [settings |-> Query("settings", "listSettings"),
     save     |-> Mutation("save", "saveSettings", {"settings"})]

FinanceTab ==
    [invoices   |-> Query("invoices", "listRentInvoices"),
     leases     |-> Query("leases", "listLeases"),
     properties |-> Query("properties", "listProperties"),
     expenses   |-> Query("expenses", "listExpenses"),
     bookings   |-> Query("bookings", "listBookings")]

TenantsTab ==
    [users  |-> Query("users", "listUsers"),
     leases |-> Query("leases", "listLeases")]

TenantAppPages ==
    [tenantAppDashboard |-> DashboardPage, tenantAppInvoices |-> InvoicesPage,
     tenantAppServices |-> ServicesPage, tenantAppReports |-> DamageReportsPage,
     tenantAppProtocols |-> HandoverProtocolsPage, tenantAppHome |-> MyAccommodationPage,
     tenantAppNews |-> AnnouncementsPage, tenantAppContacts |-> ContactsPage,
     tenantAppDocuments |-> DocumentsPage, tenantAppEmergency |-> EmergencyPage,
     tenantAppProfile |-> ProfilePage, protocolsTab |-> ProtocolsTab, leasesTab |-> LeasesTab,
     occupancyTab |-> OccupancyTab, expensesTab |-> ExpensesTab, invoicesTab |-> InvoicesTab,
     serviceTypesTab |-> ServiceTypesTab, reportsTab |-> ReportsTab, calendarTab |-> CalendarTab,
     documentsTab |-> DocumentsTab, propertiesTab |-> PropertiesTab,
     announcementsTab |-> AnnouncementsTab, contactsTab |-> ContactsTab,
     settingsTab |-> SettingsTab, financeTab |-> FinanceTab, tenantsTab |-> TenantsTab]
===============================================================================
