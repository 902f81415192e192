SPECIFICATION Spec
CONSTANTS
    Triple <- MCNoBlank
    Base <- MCBase
    LangTagged = {1}
    Object <- MCObject
    Graph <- MCGraph
    Subject <- MCSubject
    Node <- MCNode
    RequestNode <- MCRequestNode
    WithSubject <- MCWithSubject
    NumPermutations <- MCOneInternal
    Block <- MCBlock
    VacuumMinimumBlockSize = 2
    Commands = {"update", "vacuum", "clear"}
    Faults = {"cancelUpdate", "cancelVacuum"}
    Persist = FALSE
    MaxOperations = 1
    MaxIndex = 4
INVARIANTS
    TypeOK
    HandlesValid
    MapsMatchPermutations
PROPERTIES
    VacuumKeepsContent
