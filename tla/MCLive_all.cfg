SPECIFICATION MCSpec
CONSTANTS
    Replicas = {p1}
    MaxFrames = 3
    MaxOutages = 3
    None = None
    Requests = {"r1", "r2"}
    Spreads <- MCSpreads
    PoolSize = 2
    Jobs <- MCJobs
    Backends = {"sqlite", "postgres"}
    Overlapping = {"postgres"}
    MaxFaults = 1
    Runs = {"x1", "x2"}
    Slots = 1
    Interpreters = {"subprocess", "docker"}
    MaxCancels = 3
    MaxFailures = 1
    Convs = {"a", "b"}
    Home = "a"
    MaxTurns = 3
    MaxExtras = 2
    MaxActs = 4
CHECK_DEADLOCK FALSE
INVARIANTS TypesOK BootCompletes NothingLeftBehind RequestsInOrder ShowsWhatIsStored
PROPERTIES DeliversInOrder ReadersCatchUp RevokedSocketsClose UnitsAreAtomic EveryoneIsServed RunsEnd QueueDrains
