SPECIFICATION Spec
CONSTANTS
    n1 = n1
    n2 = n2
    n3 = n3
    short = short
    f = f
    a = a
    ab = ab
    human = human
    agent = agent
    t1 = t1
    t2 = t2
    r1 = r1
    None = None
    Keep = Keep
    Task = {t1}
    Reader = {r1}
    NoteId = {n1, n2, n3}
    IdOrder <- MCIdOrder
    Ref <- MCRef
    Matches <- MCMatches
    Name = {f}
    Inbox = f
    Tag = {}
    Prefixes <- MCPrefixes
    Role = {human, agent}
    CreateInput <- PlainNotes
    UpdateInput <- PlainUpdates
    PageSize = 1
    Ticks = {0, 1}
    MaxTx = 3
INVARIANTS
    PagesAreComplete
    PagesDoNotRepeat
CHECK_DEADLOCK FALSE
