SPECIFICATION MCSpec
CONSTANTS
    None = None
    Requests = {"r1", "r2"}
    Admins = {"a1", "a2"}
    Process <- MCProcess
    Extras = {1}
    Models = {"m"}
    TTL = 1
    MaxTime = 2
    MaxVersion = 2
    Kinds <- MCKinds
    Servers = {"s"}
    Plugins <- MCPlugins
    Calls = {1, 2}
    MaxLoops = 2
    MaxTokens = 2
    Docs = {1, 2}
    Attachments <- MCAttachments
    Settings <- MCSettings
    Scores = {0, 1, 2}
    MaxResults = 2
    Histories <- MCHistories
    Bracketed = {0, 2}
    Texts <- MCTexts
    Sizes = {1, 2, 4}
    Overlaps = {0, 1, 5}
    Urls = {"u", "v", "w"}
    MaxRedirects = 1
    MaxDocuments = 1
    Processes = {p1, p2}
    Limit = 1
    Window = 2
    Shared = {TRUE, FALSE}
    MaxAttempts = 2
    MaxHiccups = 1
    MaxRestarts = 1
    Apis = {"openai", "anthropic"}
    MaxLines = 3
CHECK_DEADLOCK FALSE
INVARIANTS TypesOK RequestSound StoredIsStreamed GoneStops CitationsResolve ChunksFaithful FallbackIsFair StreamTellsAll
PROPERTIES RoutingIsCurrent ExcerptsAreBest BudgetKeepsNewest
