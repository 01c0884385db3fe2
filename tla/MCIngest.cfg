SPECIFICATION FairSpec
CONSTANTS
    p1 = p1
    p2 = p2
    c1 = c1
    k1 = k1
    k2 = k2
    Pages <- MCPages
    Contacts <- MCContacts
    ContactOf <- MCContactOf
    Connectors <- MCConnectors
    SourcesOf <- MCSourcesOf
    TimeOf <- MCTimeOf
    BatchFiles = 2
    Dreams = {d1}
    NoSource = NoSource
    MaxRecords = 2
    MaxFaults = 1
INVARIANTS
    TypeOK
    PageAttended
    DreamAttended
PROPERTIES
    EverythingIsRead
CHECK_DEADLOCK FALSE
