------------------------------- MODULE DetailPages -------------------------------
(***************************************************************************)
(* The pages of one record each.  While the flag "loading" is up a page     *)
(* shows nothing but that.                                                  *)
(***************************************************************************)
EXTENDS PageTasks

-------------------------------------------------------------------------------
\* AdminTenantDetailPage

\* reloadTenanciesForTenant, with the revenue rows of each contract after it.
TenantTenancies ==
    <<Fetch([tenancies |-> Blank("fetchAdminTenancies")]),
      Fetch([revenue |-> Blank("fetchAdminTenancyRevenue")])>>

TenantAudit == Fetch([audit |-> Blank("tenantAuditLogs")])

\* Two of the answers of the second step are only shown after the third.
TenantLoads ==
    LiveFlag(PageLoad("loading",
        <<Guarded(Fetch([tenant |-> Get("fetchAdminTenant")])),
          Guarded(Only({"notes", "events", "invoices", "tenancies"}, Fetch(
              [notes     |-> Get("fetchAdminTenantNotes"),
               events    |-> Get("fetchAdminTenantEvents"),
               invoices  |-> Blank("fetchAdminInvoices"),
               tenancies |-> Blank("fetchAdminTenancies"),
               audit     |-> Blank("tenantAuditLogs"),
               docs      |-> Blank("fetchAdminTenantDocuments")]))),
          Fetch([revenue |-> Blank("fetchAdminTenancyRevenue")]),
          SetHeld({"audit", "docs"})>>))

\* The form of the tenant is closed when they begin.
TenantLoad == Clearing({"openEdit"}, TenantLoads)

\* Of a Promise.all of reloads that each show their own answer, the one whose error
\* is not caught stands last.
TenantEvents == Fetch([events |-> Get("fetchAdminTenantEvents")])

\* cancelTenancyEdit, at the end, empties the form of a revenue row as well.
TenantEditTenancy ==
    Shutting({"openRevenue"},
        Click("tenancyEdit", <<Send("patchAdminTenancy")>> \o TenantTenancies
                             \o <<TenantAudit, TenantEvents>>))

TenantAssign ==
    Click("assign", <<Send("createAdminTenancy")>> \o TenantTenancies
                    \o <<TenantAudit, TenantEvents>>)

\* The flag holds the id of the one contract whose rows are changed, and is lowered by the
\* first answer, whatever it holds then.
TenantSaveRevenue ==
    Click("revenue", <<Send("createAdminTenancyRevenue")>> \o TenantTenancies \o <<TenantAudit>>)

TenantDeleteRevenue ==
    Click("revenue", <<Send("deleteAdminTenancyRevenue")>> \o TenantTenancies \o <<TenantAudit>>)

TenantSaveNote ==
    Click("note", <<Send("createAdminTenantNote"),
                    Fetch([notes  |-> Get("fetchAdminTenantNotes"),
                           events |-> Get("fetchAdminTenantEvents")])>>)

TenantUploadDoc ==
    Click("upload", <<Send("uploadAdminTenantDocument"),
                      Fetch([docs |-> Get("fetchAdminTenantDocuments")]), TenantAudit>>)

TenantDeleteDoc ==
    Click(Nil, <<Send("deleteAdminTenantDocument"),
                  Fetch([docs |-> Get("fetchAdminTenantDocuments")]), TenantAudit>>)

TenantSave ==
    Click("saving", <<SendAndShow("updateAdminTenant", "tenant"),
                      Fetch([events |-> Hold("fetchAdminTenantEvents")]), TenantAudit>>)

\* dropRevenue: the row that is deleted is the one in the form, which is emptied with it.
TenantPage ==
    [load |-> TenantLoad, editTenancy |-> TenantEditTenancy, assign |-> TenantAssign,
     saveRevenue |-> TenantSaveRevenue, deleteRevenue |-> TenantDeleteRevenue,
     dropRevenue |-> TenantDeleteRevenue,
     saveNote |-> TenantSaveNote, uploadDoc |-> TenantUploadDoc,
     deleteDoc |-> TenantDeleteDoc, save |-> TenantSave]

-------------------------------------------------------------------------------
\* AdminUnitDetailPage: every slot by an effect of its own, none of them guarded.

UnitAudit == Fetch([audit |-> Blank("unitAuditLogs")])
UnitKpi   == Fetch([kpi |-> Blank("unitKpi")])

UnitLoads ==
    [load        |-> PageLoad("loading", <<Fetch([unit |-> Blank("fetchAdminUnit")])>>),
     loadCosts   |-> PageLoad("cost", <<Fetch([costs |-> Blank("fetchAdminUnitCosts")])>>),
     loadRooms   |-> PageLoad(Nil, <<Fetch([rooms |-> Blank("fetchAdminRooms")])>>),
     loadAudit   |-> PageLoad("audit", <<UnitAudit>>),
     loadDocs    |-> PageLoad("docs", <<Fetch([docs |-> Blank("fetchAdminUnitDocuments")])>>),
     loadKpi     |-> PageLoad("kpi", <<UnitKpi>>)]

UnitOccupancyLoads ==
    [loadOccupancy |-> PageLoad(Nil, <<Fetch([occupancy |-> Blank("fetchAdminOccupancyRooms")])>>),
     loadTenancies |-> Clearing({"tenancies"},
                           PageLoad(Nil, <<Fetch([tenancies |-> Blank("fetchAdminTenancies")])>>))]

UnitSaveLinks ==
    Click("links", <<Send("updateAdminUnit"), Fetch([unit |-> Get("fetchAdminUnit")]), UnitAudit>>)

\* What a change of the costs reloads; an error leaves the old rows.
UnitAfterCost ==
    <<Fetch([costs |-> Hold("fetchAdminUnitCosts")]), Fetch([unit |-> Hold("fetchAdminUnit")]),
      UnitKpi, UnitAudit>>

\* A plausible slip: the rows are fetched again as in the load, errors uncaught.
UnitSaveCostUncaught ==
    Click("cost", <<Send("createAdminUnitCost"),
                    Fetch([costs |-> Get("fetchAdminUnitCosts")])>> \o UnitAfterCost)

UnitSaveCost   == Click("cost", <<Send("createAdminUnitCost")>> \o UnitAfterCost)
UnitDeleteCost == Click("cost", <<Send("deleteAdminUnitCost")>> \o UnitAfterCost)

UnitDeleteRoom ==
    Click(Nil, <<Send("deleteAdminRoom"), Fetch([rooms |-> Get("fetchAdminRooms")]), UnitAudit>>)

\* A room that is added or changed is changed on the page alone.
UnitSaveRoom == Locally({"rooms"})

UnitDelete == Leaving(Click(Nil, <<Send("deleteAdminUnit")>>))

UnitUploadDoc ==
    Click("upload", <<SendAndAdd("uploadAdminUnitDocument", "docs"), UnitAudit>>)

UnitDeleteDoc ==
    Click(Nil, <<Send("deleteAdminUnitDocument"),
                  Fetch([docs |-> Get("fetchAdminUnitDocuments")]), UnitAudit>>)

\* dropCost: the row that is deleted is the one in the form, which is emptied with it.
UnitPage ==
    UnitLoads @@ UnitOccupancyLoads @@
    [saveLinks |-> UnitSaveLinks, saveCost |-> UnitSaveCost, deleteCost |-> UnitDeleteCost,
     dropCost |-> UnitDeleteCost,
     saveRoom |-> UnitSaveRoom, deleteRoom |-> UnitDeleteRoom, uploadDoc |-> UnitUploadDoc,
     deleteDoc |-> UnitDeleteDoc, delete |-> UnitDelete]

-------------------------------------------------------------------------------
\* AdminLandlordDetailPage

LandlordLoads ==
    [load         |-> PageLoad("loading", <<Fetch([landlord |-> Get("fetchAdminLandlord")])>>),
     loadAudit    |-> PageLoad("audit", <<Fetch([audit |-> Blank("landlordAuditLogs")])>>),
     loadUnits    |-> PageLoad("units", <<Fetch([units |-> Blank("fetchAdminLandlordUnits")])>>),
     loadManagers |-> PageLoad("managers",
                          <<Fetch([managers |-> Blank("fetchAdminLandlordPropertyManagers")])>>),
     loadNotes    |-> Clearing({"noteForm", "noteEdit"},
                          PageLoad(Nil, <<Fetch([notes |-> Blank("fetchAdminLandlordNotes")])>>)),
     loadDocs     |-> PageLoad("docs", <<Fetch([docs |-> Blank("fetchAdminLandlordDocuments")])>>)]

\* A plausible slip: the effect is not cleaned up.
OccupancyLoadUnguarded ==
    Clearing({"rooms", "tenancies"},
        PageLoad(Nil, <<Fetch([rooms     |-> Blank("fetchAdminRooms"),
                            tenancies |-> Blank("fetchAdminTenancies")])>>))

\* The rooms and contracts for the badges; the page of a manager has the same effect.
OccupancyLoad ==
    Clearing({"rooms", "tenancies"},
        PageLoad(Nil, <<Guarded(Fetch([rooms     |-> Blank("fetchAdminRooms"),
                                    tenancies |-> Blank("fetchAdminTenancies")]))>>))

LandlordAudit == Fetch([audit |-> Hold("landlordAuditLogs")])

LandlordNotes ==
    LET after == Fetch([notes |-> Get("fetchAdminLandlordNotes")])
    IN  [newNote  |-> Click("newNote", <<Send("createAdminLandlordNote"), after>>),
         editNote |-> Click("editNote", <<Send("updateAdminLandlordNote"), after>>)]

LandlordDocs ==
    LET after == Fetch([docs |-> Get("fetchAdminLandlordDocuments")])
    IN  [uploadDoc |-> Click("upload", <<Send("uploadAdminLandlordDocument"), after>>),
         deleteDoc |-> Click(Nil, <<Send("deleteAdminLandlordDocument"), after>>)]

LandlordEdit ==
    Click("edit", <<Send("updateAdminLandlord"),
                    Fetch([landlord |-> Get("fetchAdminLandlord")]), LandlordAudit>>)

LandlordRestore ==
    Click("restoring", <<Send("restoreAdminLandlord"),
                         Fetch([landlord |-> Get("fetchAdminLandlord")]), LandlordAudit>>)

LandlordArchive == Leaving(Click("archiving", <<Send("deleteAdminLandlord")>>))

LandlordPage ==
    LandlordLoads @@ LandlordNotes @@ LandlordDocs @@
    [loadOccupancy |-> OccupancyLoad, edit |-> LandlordEdit, restore |-> LandlordRestore,
     archive |-> LandlordArchive, checkAddress |-> CheckAddress({"openEdit"})]

-------------------------------------------------------------------------------
\* AdminPropertyManagerDetailPage

\* The landlord of the manager is fetched after it, and not awaited.
ManagerLoads ==
    [load         |-> Calling({"loadLandlord"},
                          PageLoad("loading", <<Fetch([manager |-> Blank("fetchAdminPropertyManager")])>>)),
     loadLandlord |-> Clearing({"landlord"},
                          Called(Nil, <<Fetch([landlord |-> Blank("fetchAdminLandlord")])>>)),
     loadAudit    |-> PageLoad("audit", <<Fetch([audit |-> Blank("managerAuditLogs")])>>),
     loadUnits    |-> PageLoad("units", <<Fetch([units |-> Blank("fetchAdminPropertyManagerUnits")])>>),
     loadNotes    |-> PageLoad("notes", <<Fetch([notes |-> Blank("fetchAdminPropertyManagerNotes")])>>)]

ManagerAudit == Fetch([audit |-> Hold("managerAuditLogs")])

ManagerNewNote ==
    Click("newNote", <<Send("createAdminPropertyManagerNote"),
                       Fetch([notes |-> Get("fetchAdminPropertyManagerNotes")])>>)

ManagerEdit ==
    Click("edit", <<Send("patchAdminPropertyManager"),
                    Fetch([manager |-> Get("fetchAdminPropertyManager")]),
                    Fetch([landlord |-> Get("fetchAdminLandlord")]), ManagerAudit>>)

ManagerToggle ==
    Click("status", <<Send("patchAdminPropertyManager"),
                      Fetch([manager |-> Get("fetchAdminPropertyManager")]), ManagerAudit>>)

ManagerPage ==
    ManagerLoads @@
    [loadOccupancy |-> OccupancyLoad, newNote |-> ManagerNewNote, edit |-> ManagerEdit,
     toggle |-> ManagerToggle]

-------------------------------------------------------------------------------
\* AdminOwnerDetailPage

OwnerLoads ==
    [load      |-> PageLoad("loading", <<Fetch([owner |-> Blank("fetchAdminOwner")])>>),
     loadAudit |-> PageLoad("audit", <<Fetch([audit |-> Blank("ownerAuditLogs")])>>),
     loadDocs  |-> PageLoad("docs", <<Fetch([docs |-> Blank("fetchAdminOwnerDocuments")])>>),
     loadUnits |-> PageLoad("units", <<Fetch([units |-> Blank("fetchAdminOwnerUnits")])>>)]

OwnerAudit == Fetch([audit |-> Hold("ownerAuditLogs")])
AfterOwner == <<Fetch([owner |-> Get("fetchAdminOwner")]), OwnerAudit>>
AfterOwnerDoc == <<Fetch([docs |-> Get("fetchAdminOwnerDocuments")]), OwnerAudit>>

\* A plausible slip: the form is released only if the route has not moved on.
OwnerEditWhileLive == LiveFlag(Click("edit", <<Send("patchAdminOwner")>> \o AfterOwner))

OwnerEdit      == Click("edit", <<Send("patchAdminOwner")>> \o AfterOwner)
OwnerToggle    == Click("status", <<Send("patchAdminOwner")>> \o AfterOwner)
OwnerUploadDoc == Click("upload", <<Send("uploadAdminOwnerDocument")>> \o AfterOwnerDoc)
OwnerDeleteDoc == Click(Nil, <<Send("deleteAdminOwnerDocument")>> \o AfterOwnerDoc)

OwnerPage ==
    OwnerLoads @@
    [edit |-> OwnerEdit, toggle |-> OwnerToggle, uploadDoc |-> OwnerUploadDoc,
     deleteDoc |-> OwnerDeleteDoc, checkAddress |-> CheckAddress({"openEdit"})]

-------------------------------------------------------------------------------
\* AdminInventoryDetailPage: after a change of the assignments everything is loaded
\* anew, which nobody waits for.

\* The text of the notes is filled in from the item.
ItemLoad ==
    Filling({"notesForm"}, Calling({"loadAudit"}, PageLoad("loading",
        <<Fetch([item        |-> Get("fetchAdminInventoryItem"),
                 assignments |-> Blank("fetchInventoryItemAssignments"),
                 units       |-> Blank("fetchAdminUnits")])>>)))

ItemAudit == Called("audit", <<Fetch([audit |-> Blank("itemAuditLogs")])>>)

ItemEdit ==
    Calling({"loadAudit"}, Click("saving", <<SendAndShow("updateInventoryItem", "item")>>))

ItemSaveNotes ==
    Filling({"notesForm"},
        Calling({"loadAudit"}, Click("notes", <<SendAndShow("updateInventoryItem", "item")>>)))

\* A plausible slip: the audit log alone is loaded anew.
ItemAssignNoReload ==
    Calling({"loadAudit"}, Click("assign", <<Send("createInventoryAssignment")>>))

ItemAssign == Calling({"load"}, Click("assign", <<Send("createInventoryAssignment")>>))

ItemEditAssignment == Calling({"load"}, Click("assign", <<Send("updateInventoryAssignment")>>))

ItemDeleteAssignment == Calling({"load"}, Click(Nil, <<Send("deleteInventoryAssignment")>>))

ItemDelete == Leaving(Click(Nil, <<Send("deleteInventoryItem")>>))

ItemPage ==
    [load |-> ItemLoad, loadAudit |-> ItemAudit, edit |-> ItemEdit, saveNotes |-> ItemSaveNotes,
     assign |-> ItemAssign, editAssignment |-> ItemEditAssignment,
     deleteAssignment |-> ItemDeleteAssignment, delete |-> ItemDelete]
===============================================================================
