SPECIFICATION ServicesSpec
CONSTANTS
    t0 = t0
    Threads = {t0, t1, t2}
    Main = t0
    MaxCalls = 2
    MaxDrains = 2
    Fixtures = {f1}
    Manuals = {a1}
    MaxTick = 3
    MaxChanges = 1
    MaxByHand = 1
    MaxStops = 1
    Callers = {c1, c2}
    MaxAttempts = 2
    MaxRequests = 2
    MaxEpoch = 2
    MaxOutages = 2
    Observations = {o1, o2, o3}
    QueueSize = 1
    Retention = 1
    LastDay = 4
    MaxDeaths = 1
    api = api
    scheduler = scheduler
    Processes = {api, scheduler}
    Newest <- MCNewest
    Rebuilds = {2, 4}
    Legacy = TRUE
    MaxStarts = 2
    Player = {a, b}
    Home = {a}
    MinRows = 1
    Runs = {r1, r2}
    SyncAnswers <- MCAnswers
    SyncStatuses = {"LIVE", "CONCLUDED"}
    MaxPolls = 1
    ChampionIds = {cd1, cd2}
    AflIds = {afl1, afl2}
    Seasons = {s1}
    Teams = {ta, tb}
    MaxPlayers = 3
    MaxEntries = 2
    Patients = {p1, p2}
    Clubs = {ca, cb}
    Updates = {u1, u2}
    Profiles = {"match_clock", "interchange", "commentary"}
    b1 = b1
    b2 = b2
    Starters = {b1, b2}
    BenchSide <- MCBenchSide
    Kickoff = 1
    PostLive = 1
    LastInstant = 3
    MaxPolled = 2
    MaxAborted = 1
    Listable = {1, 2, 3, 4, 5}
    PageSize = 2
    ProbeSize = 3
    MaxPages = 4
    MaxListingChanges = 2
    Canonical = {q1, q2}
    Writers = {w1, w2}
    Numbers = {n1, n2}
    MaxFetches = 3
    Squad = {sq1, sq2, sq3}
    HomeSquad = {sq1}
    Latecomers = {sq3}
    MinListed = 2
    Fixture = {1, 2}
    MaxOtherWrites = 4
    MaxReportWrites = 3
    Years = {1, 2}
    DaysPerYear = 2
    PlayedDays = 1
    Offers <- MCOffers
    Collectors = {cl1, cl2}
    MaxPersists = 2
    Contexts = {"SEASON_TOTAL", "LEAGUE_ROUND_TOTAL"}
    ProPlayers = {1, 2, 3}
    Editions = {1, 2}
    ListedIn <- MCListedIn
    Importers = {i1, i2}
    MaxImports = 4
    Targets = {1, 2}
    Unstored = {9}
    MaxCommands = 2
INVARIANTS
    GivesUpForCause
    CountedOnce
    SchemaSound
    InjuredAsLastSeen
    CaptureCloses
    ReportsAreGrounded
    NothingSkipped
    AnswersHoldTogether
    HistoryReplays
    SummaryBacked
    UsableIsCovered
    SuccessIsEarned
    MarkerFollowsEvidence
    PublishedWhole
PROPERTIES
    ClosesInOrder
    NeitherTwiceNorLost
    CompleteWasCollected
    IdentityStable
CHECK_DEADLOCK FALSE
