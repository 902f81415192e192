SPECIFICATION Spec
CONSTANTS
    Triple <- MCTriple
    Base <- MCBase
    LangTagged <- MCTriple
    Object <- MCObject
    Graph <- MCGraph
    Subject <- MCSubject
    Node <- MCNode
    RequestNode <- MCRequestNode
    WithSubject <- MCWithSubject
    NumPermutations <- MCNumPermutations
    Block <- MCBlock
    VacuumMinimumBlockSize = 1
    Commands = {"update", "vacuum"}
    Faults = {"disk", "crash"}
    Persist = TRUE
    MaxOperations = 2
    MaxIndex = 4
INVARIANTS
    SnapshotConsistent
    WhereSeesLiveState
    LanguageFilterComplete
PROPERTIES
    IndexIdentifiesContent
    ImplementsTripleStore
