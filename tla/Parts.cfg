SPECIFICATION PartsSpec
CONSTANTS
    Workers = {w1, w2}
    Blocks = {b1, b2}
    Strongs = {s1, s2, s3}
    Weaks = {k1, k2}
    NoBlock = NoBlock
    Serialized = TRUE
    Nodes = {1, 2, 3}
    NoNode = NoNode
    Locals = {v1, v2}
    MayOwn <- MCMayOwn
    MayView <- MCMayView
    Cells = {c1, c2, c3, c4}
    NoCell = NoCell
    Closures = {f1, f2}
    Uniques = {u1, u2}
    MaxClone = 3
    Builders = {t1, t2}
    Indexes = {i1, i2}
    Buffers = {m1, m2, m3}
    NoBuffer = NoBuffer
    ExportTables <- MCExportTables
    NameHash <- MCNameHash
    Queries <- MCQueries
    PoolMin = 4
    PoolMax = 8
    BenchTables <- MCBenchTables
    BenchHash <- MCBenchHash
    GenBits = 2
    EpochBatch = 3
    MaxSteps = 7
    MaxRounds = 3
    BenchReaders = {r1, r2}
    BenchWriters = {r3}
    BenchMain = r0
    Latencies = {0, 2, 9}
    Buckets = 3
    WriterInterval = 2
    MaxSamples = 2
    Loggers = {l1, l2}
    Configurers = {l1}
    NoSink = NoSink
    LegacySinks = {legacy}
    RecordSinks = {record}
    LogLevels = {0, 2, 3, 4, 9}
    Lengths <- MCLengths
    ObjectTypes <- MCObjectTypes
    NullObject = NullObject
    Contract <- MCContract
    OtherId = 2
    NoAdapter = NoAdapter
    Implementations <- MCImplementations
    ManifestTables <- MCManifestTables
    InterfaceSlots = 3
    RefSlots = 4
    TableFor <- MCTableFor
    SharedProxies = {p1, p2}
    Modules <- MCModules
    GoodLayouts = {"a", "b", "c"}
    TypeCapacity = 4
    VersionModulus = 16
    BootTypes <- MCBootTypes
    KernelIds = {1, 2}
    Files <- MCFiles
    Half = 1024
    Whole = 65536
    NoFile = NoFile
    Contracts <- MCContracts
    Methods <- MCMethods
    Layouts <- MCLayouts
    Buffers8 = {0, 44, 60, 68, 92, 200}
    Calls <- MCCalls
    Signatures <- MCSignatures
    Machines <- MCMachines
    NoSubject = NoSubject
    Word = 64
    Byte = 8
    UnitsPerMs = 4
    Giga = 10
    Frequencies = {1, 3, 5, 7}
    ModuleMax = 4
    LocalMax = 8
    Versions <- MCVersions
    NoWord = NoWord
    Plans <- MCPlans
    PlanLayouts <- MCPlanLayouts
    PlanCapacity = 2
    Profiles <- MCProfiles
    ScheduleSize = 100
    TotalOps = 10000000
    Topologies <- MCTopologies
    Thresholds = {1, 2, 4, 8, 16, 256}
    SweepRepeats = 2
    NoJob = NoJob
SYMMETRY MCSymmetry
CHECK_DEADLOCK FALSE
INVARIANTS
    BlocksSound
    RefBlocksSound
    CellsOwnedOnce
    IndexAnswersAsScan
    BuffersOwnedOnce
    LayoutsAgree
    CadenceKept
    StatisticsSound
    DeliverySound
    DispatchSound
    TypesSound
    ReadersBounded
    IdentitiesFaithful
    WordsExact
    MapSound
    WorkSound
