SPECIFICATION FairSpec
CONSTANTS
    Workers = {w1, w2}
    ClassOf <- MCClassOf
    MachineBases <- MCBases
    MachineBodies <- MCBodies
    NoState = NoState
    Second = w2
    UniqueKeys = TRUE
    MaxRetries = 1
    MaxCalls = 3
    Sessions = {s1, s2}
    Ids = {i1}
    Values = {1, 2}
    Gone = Gone
    Kept = Kept
    MaxBlocks = 2
    Editors = {e1, e2}
    Posts = {1, 2, 3}
    Titles = {"t", ""}
    Empty = ""
    Given <- ByHand
    Stored <- MCStored
    MaxDrafts = 2
    MaxFlushes = 2
    Items = {1, 2, 3}
    Sorts <- MCSorts
    Sortable = {"key", "id"}
    Size = 1
    MaxItems = 2
    MaxChanges = 1
    Controllers <- Classes
    Lineage <- MCLineage
    OwnRoutes <- MCRoutes
    OwnHooks <- MCHooks
    Segments = {"new", "1", "edit"}
    Paths <- MCPaths
    Patterns <- MCPatterns
    Braced = {"{}"}
    Body <- MCBody
    NoHandler = NoHandler
    Unset = Unset
    MaxIncluded = 2
    Clients = {c1, c2}
    Locales = {"en", "fr"}
    Tags = {"en", "fr-CH"}
    Base <- MCBase
    NoTag = NoTag
    Default = "en"
    Fallback = "en"
    Keys = {"name", "kind", "one", "two"}
    Shipped <- MCShipped
    Dotted = {"one"}
    FormFields <- MCFields
    Raw = Raw
    Tasks = {t1, t2}
    CeleryWorkers = {k1, k2}
    NoTask = NoTask
    Attempts = 2
    Errors = {"broken", "busy"}
    RetryOn = {"busy"}
    MaxKills = 1
    Servers = {v1, v2}
    Calendar <- MCCalendar
    Declared <- MCDeclared
    Grace = 1
    Star = Star
    MaxStarts = 4
CHECK_DEADLOCK FALSE
INVARIANTS
    HistoryIsAWalk
    OneMostRecent
    ReportsAreTrue
    ClashesAreRaces
    PagesMissNothing
    HooksGuardRoutes
    StaticRoutesFirst
    PagesSpeakTheirLanguage
    CeleryBudget
    FiresWhenItShould
PROPERTIES
    EveryCallEnds
