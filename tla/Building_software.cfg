SPECIFICATION BuildingSpec
CONSTANTS
    r1 = r1
    r2 = r2
    Families = {"rhel", "debian"}
    NoFamily = ""
    Blank = Blank
    Anchors <- AnchorsOfSizes
    RowSets <- OptionRows
    Catalogues <- RecipeCatalogues
    Networks <- BuildNetworks
    MaxRefreshes = 2
    People = {"raiser", "anna", "ben"}
    Requester = "raiser"
    Nobody = "nobody"
    Quorums = {1, 2}
    Workflow <- TicketMoves
    Window <- Mornings
    Moments <- HoursOfTheWeek
    MaxMoves = 4
    Drafts = {r1, r2}
    Sessions <- TabsOfDrafts
    MaxCost = 2
    Limit = 2
    Reached = {"submitted", "auto-building", "provisioned", "verify-failed"}
    Enforcement = {TRUE, FALSE}
    Facts <- CatalogueFacts
    Stacks <- FormStacks
    Proposals <- DrawnLayouts
    Deploys = TRUE
    MaxVersion = 3
    Units = {u1, u2}
    MaxLayout = 2
    MaxCalls = 2
    Machines = {"a", "b"}
    KindSets <- KindsOfMachines
    ReportSets <- AskedToReport
    Part <- PartOfMachine
    How <- DeliveryOf
    Promised = {"web"}
    Ported = {"db", "web"}
    Declaring = {"db"}
    Suffixing = {"oci-kafka"}
    MaxAttempts = 2
    Builds = {1, 2}
    StuckAfter = 0
    RetainFor = 1
    LapseAfter = 0
    MaxDay = 2
INVARIANT InstalledAsPlaced
CHECK_DEADLOCK FALSE
