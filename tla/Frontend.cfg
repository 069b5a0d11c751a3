SPECIFICATION FrontendSpec
CONSTANTS
    None = None
    Keep = Keep
    ann = ann
    bob = bob
    Date = {1, 2, 3}
    Tenancies = {t1, t2}
    Rooms = {r1}
    Tenants = {ann, bob}
    Residents = {ann}
    Desks = {d1, d2}
    Workers = {}
    Creates <- NoBodies
    Patches <- NoBodies
    Drafts <- FewDrafts
    EditDates <- FewEnds
    MaxFaults = 1
    Pages <- AllPages
    Views <- AllViews
    Unrouted <- PagesWithoutRecord
    Records = {"A", "B"}
    MaxActs = 2
    MaxErrors = 1
    Editors = {d1, d2}
    FirstCosts <- TwoUnits
    CostDrafts <- OneRow
    MaxSaveFaults = 1
    MaxForms = 3
    MaxSaves = 2
    Tabs = {d1, d2}
    MaxRequests = 3
    MaxChanges = 1
    MaxLost = 1
SYMMETRY Interchangeable
INVARIANTS
    HalfDoneIsReported
    OwnRecordShown
    SavedIsShown
    NoStuckSpinner
    FailedMeansNotSaved
    EmptyMeansNone
    TypedIsKept
    NoSilentLoss
    SessionSurvives
    OldSessionsEnd
PROPERTIES
    AssignedBooked
    UntouchedKept
    OwnDraft
    SentOnce
