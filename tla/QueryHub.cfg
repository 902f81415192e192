SPECIFICATION FairSpec
CONSTANTS
    id = id
    q1 = q1
    q2 = q2
    s1 = s1
    s2 = s2
    None = None
    QueryId = {id}
    Query <- MCQueries
    Session <- MCOneSession
    IdOf <- MCIdOf
    MaxUpdates = 2
INVARIANTS
    OneSender
    RunningQueryIsFound
    ExpiredEntriesAreRemoved
PROPERTIES
    SessionsEnd
