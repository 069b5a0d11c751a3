------------------------------- MODULE DetailViews -------------------------------
(***************************************************************************)
(* What the pages of one record each draw, section by section: the slots a  *)
(* section shows, the flags that put a spinner in its place, and the clicks *)
(* and forms that can be had from it.                                      *)
(***************************************************************************)
EXTENDS PageTasks

-------------------------------------------------------------------------------
\* AdminOwnerDetailPage

OwnerHead      == Part({"owner"}, {}, [openEdit |-> {}, toggle |-> {"status"}])
OwnerData      == Shows({"owner"})

\* A plausible slip: another document can be chosen while one is uploaded.
OwnerUploadFree == Offers([uploadDoc |-> {}])

OwnerUpload    == Offers([uploadDoc |-> {"upload"}])
OwnerDocRows   == Part({"docs"}, {"docs"}, [deleteDoc |-> {}])
OwnerAuditRows == Awaits({"audit"}, {"audit"})
OwnerUnitRows  == Awaits({"units"}, {"units"})
OwnerInfo      == Shows({"owner", "units", "docs", "audit"})

OwnerEditForm ==
    Dialog("openEdit", "owner",
           [type |-> {"edit"}, close |-> {"edit"}, edit |-> {"edit"},
            checkAddress |-> {"edit", "address"}])

OwnerView ==
    Behind({"loading"},
        {OwnerHead, OwnerData, OwnerUpload, OwnerDocRows, OwnerAuditRows, OwnerUnitRows,
         OwnerInfo, OwnerEditForm})

-------------------------------------------------------------------------------
\* AdminLandlordDetailPage

LandlordHead ==
    Part({"landlord"}, {}, [openEdit |-> {}, openRestore |-> {}, openArchive |-> {}])

LandlordData       == Shows({"landlord"})
LandlordUpload     == Offers([uploadDoc |-> {"upload"}])
LandlordDocRows    == Part({"docs"}, {"docs"}, [deleteDoc |-> {}])
LandlordNoteField  == Offers([noteForm |-> {"newNote"}])
LandlordNoteForm ==
    Dialog("noteForm", Nil,
           [type |-> {"newNote"}, close |-> {"newNote"}, newNote |-> {"newNote"}])
LandlordNoteRows   == Part({"notes"}, {}, [noteEdit |-> {}])
LandlordNoteEdit ==
    Dialog("noteEdit", "notes",
           [type |-> {"editNote"}, close |-> {"editNote"}, editNote |-> {"editNote"}])
LandlordAuditCount == Shows({"audit"})
LandlordAuditRows  == Awaits({"audit"}, {"audit"})
LandlordUnitCount  == Shows({"units"})

\* The badges of the units, a dash until both lists have come.
LandlordUnitRows ==
    Dashed({"rooms", "tenancies"}, Awaits({"units"}, {"units", "rooms", "tenancies"}))

LandlordManagerCount == Shows({"managers"})
LandlordManagerRows  == Awaits({"managers"}, {"managers"})
LandlordInfo         == Shows({"landlord"})
LandlordEditForm ==
    Dialog("openEdit", "landlord",
           [type |-> {"edit"}, close |-> {"edit"}, edit |-> {"edit"},
            checkAddress |-> {"edit", "address"}])
LandlordRestoreForm ==
    Dialog("openRestore", Nil, [close |-> {"restoring"}, restore |-> {"restoring"}])
LandlordArchiveForm ==
    Dialog("openArchive", Nil, [close |-> {"archiving"}, archive |-> {"archiving"}])

LandlordView ==
    Behind({"loading"},
        {LandlordHead, LandlordData, LandlordUpload, LandlordDocRows, LandlordNoteField,
         LandlordNoteForm, LandlordNoteRows, LandlordNoteEdit, LandlordAuditCount,
         LandlordAuditRows, LandlordUnitCount, LandlordUnitRows, LandlordManagerCount,
         LandlordManagerRows, LandlordInfo, LandlordEditForm, LandlordRestoreForm,
         LandlordArchiveForm})

-------------------------------------------------------------------------------
\* AdminPropertyManagerDetailPage

ManagerHead      == Part({"manager"}, {}, [openEdit |-> {}, toggle |-> {"status"}])
ManagerData      == Shows({"manager"})
ManagerNoteField == Offers([noteForm |-> {"newNote"}])
ManagerNoteForm ==
    Dialog("noteForm", Nil,
           [type |-> {"newNote"}, close |-> {"newNote"}, newNote |-> {"newNote"}])

\* A plausible slip: the list is drawn, as empty, while it is fetched.
ManagerNotesAtOnce == Shows({"notes"})

ManagerNoteRows  == Awaits({"notes"}, {"notes"})
ManagerAuditRows == Awaits({"audit"}, {"audit"})
ManagerLandlord  == Dashed({"landlord"}, Shows({"landlord"}))
ManagerUnitCount == Shows({"units"})

ManagerUnitRows ==
    Dashed({"rooms", "tenancies"}, Awaits({"units"}, {"units", "rooms", "tenancies"}))

ManagerInfo     == Shows({"manager"})

\* A plausible slip: only the buttons of the form are disabled while it is saved.
ManagerEditFree ==
    Dialog("openEdit", "manager", [type |-> {}, close |-> {"edit"}, edit |-> {"edit"}])

ManagerEditForm ==
    Dialog("openEdit", "manager",
           [type |-> {"edit"}, close |-> {"edit"}, edit |-> {"edit"}])

ManagerView ==
    Behind({"loading"},
        {ManagerHead, ManagerData, ManagerNoteField, ManagerNoteForm, ManagerNoteRows,
         ManagerAuditRows, ManagerLandlord, ManagerUnitCount, ManagerUnitRows, ManagerInfo,
         ManagerEditForm})

-------------------------------------------------------------------------------
\* AdminInventoryDetailPage

ItemHead == Part({"item"}, {}, [openEdit |-> {}, delete |-> {}])
ItemData == Shows({"item"})

ItemAssignments ==
    Part({"assignments", "units"}, {},
         [openAssign |-> {}, openEditAssignment |-> {}, deleteAssignment |-> {}])

ItemNotes     == Dialog("notesForm", "item", [type |-> {}, saveNotes |-> {"notes"}])
ItemAuditRows == Awaits({"audit"}, {"audit"})
ItemEditForm ==
    Dialog("openEdit", "item", [type |-> {}, close |-> {}, edit |-> {"saving"}])
ItemAssignForm ==
    Dialog("openAssign", Nil, [type |-> {}, close |-> {}, assign |-> {"assign"}])

ItemEditAssignForm ==
    Dialog("openEditAssignment", "assignments",
           [type |-> {}, close |-> {}, editAssignment |-> {"assign"}])

ItemView ==
    Behind({"loading"},
        {ItemHead, ItemData, ItemAssignments, ItemNotes, ItemAuditRows, ItemEditForm,
         ItemAssignForm, ItemEditAssignForm})

-------------------------------------------------------------------------------
\* AdminUnitDetailPage: of the lists of rooms and of contracts it draws what is of the
\* unit, whatever else they hold.

UnitOwn(part) == Own({"rooms", "tenancies"}, part)

\* The slots behind the counts and amounts of the unit, and behind its warnings.
UnitFigures == {"unit", "rooms", "tenancies", "kpi"}
UnitWarned  == UnitFigures

UnitHead ==
    UnitOwn(Dashed({"tenancies"}, Part({"unit", "rooms", "tenancies"}, {}, [delete |-> {}])))

UnitData    == Part({"unit"}, {}, [openLinks |-> {}])
UnitFinance == UnitOwn(Shows(UnitFigures))

\* While the contracts have not come, "no active contracts".
UnitIncome      == UnitOwn(Shows({"tenancies"}))
UnitCostFigures == Shows({"unit", "costs"})

\* The recurring costs; without any, a spinner or "none".
UnitCostRows ==
    Dashed({"costs"}, Part({"costs"}, {}, [editCost |-> {"cost"}, deleteCost |-> {"cost"}]))

UnitCostFields   == Offers([newCost |-> {"cost"}])
UnitNewCost ==
    Dialog("newCost", Nil, [type |-> {"cost"}, close |-> {"cost"}, saveCost |-> {"cost"}])
UnitEditCost ==
    Dialog("editCost", "costs",
           [type |-> {"cost"}, close |-> {"cost"}, saveCost |-> {"cost"}, dropCost |-> {"cost"}])
UnitOneTimeCosts == Part({"costs"}, {}, [deleteCost |-> {"cost"}])
UnitDeposit      == Shows({"unit"})
UnitUpload       == Offers([uploadDoc |-> {"upload"}])
UnitDocRows      == Part({"docs"}, {"docs"}, [deleteDoc |-> {}])
UnitTenants      == UnitOwn(Dashed({"tenancies"}, Shows({"tenancies"})))
UnitKpis         == UnitOwn(Shows(UnitFigures))
UnitWarnings     == UnitOwn(Shows(UnitWarned))
UnitForecast     == UnitOwn(Shows({"unit", "rooms", "kpi"}))
UnitRoomStatus   == UnitOwn(Dashed({"tenancies"}, Shows({"rooms", "tenancies"})))
UnitBreakEven    == Shows({"kpi"})

UnitRooms ==
    UnitOwn(Dashed({"tenancies"},
        Part({"rooms", "tenancies"}, {},
             [openRoom |-> {}, openEditRoom |-> {}, deleteRoom |-> {}])))

UnitOccupancyMap == UnitOwn(Shows({"rooms", "occupancy"}))
UnitRoomMap      == UnitOwn(Shows({"unit", "rooms", "tenancies"}))
UnitRoomCalendar == UnitOwn(Shows({"unit", "rooms", "tenancies"}))
UnitAuditRows    == Awaits({"audit"}, {"audit"})
UnitNewRoom      == Dialog("openRoom", Nil, [type |-> {}, close |-> {}, saveRoom |-> {}])
UnitEditRoom ==
    Dialog("openEditRoom", "rooms", [type |-> {}, close |-> {}, saveRoom |-> {}])
UnitLinksForm ==
    Dialog("openLinks", "unit",
           [type |-> {"links"}, close |-> {"links"}, saveLinks |-> {"links"}])

UnitView ==
    Behind({"loading"},
        {UnitHead, UnitData, UnitFinance, UnitIncome, UnitCostFigures, UnitCostRows,
         UnitCostFields, UnitNewCost, UnitEditCost, UnitOneTimeCosts, UnitDeposit,
         UnitUpload, UnitDocRows, UnitTenants, UnitKpis, UnitWarnings, UnitForecast,
         UnitRoomStatus, UnitBreakEven, UnitRooms, UnitOccupancyMap, UnitRoomMap,
         UnitRoomCalendar, UnitAuditRows, UnitNewRoom, UnitEditRoom, UnitLinksForm})

-------------------------------------------------------------------------------
\* AdminTenantDetailPage

TenantHead ==
    Part({"tenant", "tenancies"}, {"loading"}, [openEdit |-> {}, uploadDoc |-> {"upload"}])

TenantData == Shows({"tenant"})

TenantEditForm ==
    Dialog("openEdit", "tenant", [type |-> {"saving"}, close |-> {}, save |-> {"saving"}])

TenantTenancyRows == Part({"tenancies"}, {}, [openTenancyEdit |-> {"tenancyEdit"}])

\* Dots until the revenue of a contract has come.  While the rows of one contract are
\* changed, its own figures are dots and its own fields and buttons are disabled; those of
\* the other contracts are not, and so nothing here waits for the flag.
TenantRevenueCells == Own({"revenue"}, Dashed({"revenue"}, Shows({"tenancies", "revenue"})))

TenantRevenueSums == TenantRevenueCells

\* The forms in the row of a contract, and the revenue under it.
TenantTenancyForm ==
    Own({"tenancies"},
        Dialog("openTenancyEdit", "tenancies",
               [type |-> {"tenancyEdit"}, close |-> {"tenancyEdit"}, editTenancy |-> {"tenancyEdit"}]))

TenantRevenueField == Offers([openRevenue |-> {}])

TenantRevenueForm ==
    Own({"tenancies"},
        Dialog("openRevenue", "tenancies",
               [type |-> {}, close |-> {}, saveRevenue |-> {}, dropRevenue |-> {}]))

TenantRevenueRows == Own({"revenue"}, Part({"revenue"}, {}, [deleteRevenue |-> {}]))

TenantAssignOpener == Offers([openAssign |-> {}])
TenantAssignStay   == Fields("openAssign", {"assign"})
TenantAssignSecond == Fields("openAssign", {"assign"})
TenantAssignRent   == Fields("openAssign", {"assign"})
TenantAssignForm ==
    Dialog("openAssign", Nil, [close |-> {"assign"}, assign |-> {"assign"}])

TenantInvoices   == Shows({"invoices"})
TenantNoteField  == Offers([noteForm |-> {"note"}])
TenantNoteForm ==
    Dialog("noteForm", Nil, [type |-> {"note"}, close |-> {"note"}, saveNote |-> {"note"}])
TenantNoteRows   == Shows({"notes"})
TenantUpload     == Offers([uploadDoc |-> {"upload"}])
TenantDocRows    == Part({"docs"}, {"loading"}, [deleteDoc |-> {}])
TenantRevenueBox == TenantRevenueCells
TenantHistory    == Shows({"events", "audit"})
TenantInfo       == Shows({"tenant", "tenancies"})

TenantView ==
    Behind({"loading"},
        {TenantHead, TenantData, TenantEditForm, TenantTenancyRows, TenantRevenueCells,
         TenantRevenueSums, TenantTenancyForm, TenantRevenueField, TenantRevenueForm,
         TenantRevenueRows, TenantAssignOpener, TenantAssignStay, TenantAssignSecond,
         TenantAssignRent, TenantAssignForm, TenantInvoices, TenantNoteField,
         TenantNoteForm, TenantNoteRows, TenantUpload, TenantDocRows, TenantRevenueBox,
         TenantHistory, TenantInfo})
===============================================================================
