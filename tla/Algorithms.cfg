SPECIFICATION Spec
CONSTANTS
    FetchBlocks = 1
    MaxJoinId = 2
    MaxJoinRows = 3
    Blocksize = 2
    MaxGraphs = 1
    MaxId = 9
    Divisor = 2
    MaxContent = 6
    MaxBufferSize = 1
    MaxTables = 3
    BlankBlockSize = 2
    MaxWord = 4
    MaxBlankBlock = 3
    LinesPerPartial = 2
    NumItemMaps = 2
    IdsPerMap = 100
    NumFutures = 2
    MaxNumber = 2
    FirstIri = 3
    MaxUint = 63
    MaxTableRows = 3
    MaxNodes = 3
    MaxElements = 3
    MaxTriples = 4
    FilterBlocks = 3
    Key <- MCKey
    Size <- MCSize
    InitLimits <- MCLimits
    EntryLimits = {1, 3}
    SizeLimits = {2, 3, 5}
    LANGUAGE_PREDICATE = 7
    HAS_WORD_PREDICATE = 8
    BlankNodes <- MCBlankNodes
    InternalEntities <- MCInternalEntities
    LangTaggedPredicates <- MCLangTaggedPredicates
    SpecialIris <- MCSpecialIris
    Externalized <- MCExternalized
    ParsedInputs <- MCParsedInputs
INVARIANTS
    JoinsExact
    ScansExact
    FiltersLossless
    OperationsExact
    PlansExact
    RebuildExact
    BuildExact
    TurnsPassOnAfterSort
    PatternsExact
    CacheSizesRespected
CHECK_DEADLOCK FALSE
