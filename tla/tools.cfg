CONSTANTS
    WRAP_NEAR_TARGETS = TRUE
    PrefixRuns <- MCPrefixes
    ModRMs <- MCModRMs
    CodeTails <- MCTails
    CodeEnd <- MCCodeEnd
    Images32 <- MCImages32
    FlowLength = 8
    IntraSpan = 16
    MaxResumes = 2
    RunLength = 7
    MaxDepth = 2
    Programs <- MCPrograms
    Window = 3
    Limit = 8
    Imports <- MCImports
    Images <- MCImages
    Para = 4
    SegSize = 8
    CxTop = 2
    MaxWords = 3
    HdrSize = 2
    Corr = 1
    Layouts <- MCLayouts
    Donors <- MCDonors
    Targets <- MCTargets
    Maps <- MCMaps
    DonorMaps <- MCDonorMaps
    Libs <- MCLibs
    Tables <- MCTables
    Files <- MCFiles
    Idents <- MCIdents
SPECIFICATION BenchSpec
INVARIANTS
    PathsAgree
    PairedWithLast
    DecodeReads
    BodiesAgree
    ArgcAgrees
    RangesHold
    Transfers16
    NamesTrue
CHECK_DEADLOCK FALSE
