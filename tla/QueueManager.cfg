SPECIFICATION FairSpec
CONSTANTS
    p1 = p1
    p2 = p2
    Producer <- MCProducer
    Consumer = Consumer
    NoThread = NoThread
    NumItems = 3
    MaxSize = 1
    Kinds = {"ordered", "plain", "stream"}
PROPERTIES
    GeneratorDestroyed
INVARIANTS
    YieldsInOrder
    EndMeansComplete
