SPECIFICATION Spec
CONSTANTS
    Parts = {"relation", "predicate", "repository", "insert", "builder", "cron", "search", "mail", "inject", "migrate"}
    LastMinute = 5
    MaxText = 3
    Keys = {"k1", "k2", "k3"}
    Pages <- MCPages
    Targets = {1, 2}
    Limits = {3}
    ScopeArgs = {1, 3}
    MaxWrites = 1
    Leaves <- MCLeaves
    Depth = 2
    Values = {"1", "2", "%"}
    Assignments <- MCAssignments
    Clients = {c1, c2}
    Owners = {"ann", "bob"}
    OwnerOf <- MCOwnerOf
    First <- MCFirst
    MaxId = 3
    PageSize = 1
    MaxRepositoryWrites = 2
    TableColumns = {"a", "b"}
    RowSets <- MCRowSets
    ParameterLimit = 3
    BuilderContents = {"p", "q"}
    MaxBuilders = 4
    MaxStatements = 1
    Kinds <- MCKinds
    Fields <- MCFields
    Years <- MCYears
    Reach = 25
    NULL = NULL
    Minute = 2
    Crons <- AllCrons
    Instants <- AllInstants
    Addresses = {"x", "y"}
    BadAddress = "bad"
    AddressLength <- MCLength
    SubjectLengths = {0, 5}
    MailTexts <- MCMailTexts
    HTMLs <- MCHTMLs
    Recipients <- MCRecipients
    MaximumRecipients = 2
    MaximumHeaderBytes = 19
    MaximumBodyBytes = 5
    MaxRenders = 2
    MaxDocument = 4
    Versions = {1, 2}
    Runners = {p, q}
    Counts = {0}
    Installations <- MCInstallations
INVARIANTS
    LoadedIsJoin CompiledMeansPredicate InsertedAsMeant BuilderIsItsCalls FieldKeepsItsMeaning NextIsTheFirst FindsLatest BodiesSurvive BodyPreserved
PROPERTIES
    NoLostUpdate UpgradeCompletes
CHECK_DEADLOCK FALSE
