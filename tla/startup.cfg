\* Two processes, one of which may be the server and both of which may set the
\* installation up, one kill; a new home, or one with an older database.
CONSTANTS
    Proc = {p1, p2}
    HomeDb = home
    ServiceDb = service
    FallbackDb = fallback
    Fixed = fixed
    Uuid = {u1, u2, u3}
    p1 = p1
    p2 = p2
    a = a
    b = b
    Name = {a, b}
    Typed <- MCTyped
    Offered <- MCOffered
    Packaged = {"serve"}
    Absent = absent
    Blank = blank
    Garbled = garbled
    NoName = noName
    NoNotes = noNotes
    NoSpace = noSpace
    HomeSeed <- MCHomeSeed
    MaxCrashes = 1

SPECIFICATION FairSpec

INVARIANTS
    TypeOK
    VersionsTellStructure
    ServedIsCurrent
    InitLeavesName

PROPERTIES
    WorkspacesStay
    ServerComesUp
