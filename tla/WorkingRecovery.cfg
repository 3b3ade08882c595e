CONSTANTS
    m1 = m1
    m2 = m2
    m3 = m3
    f1 = f1
    p1 = p1
    p2 = p2
    None = None
    Unavailable = Unavailable
    Memories = {m1}
    Files = {f1}
    Prompts = {p1}
    Anchor <- OneAnchor
    Rank <- OneRank
    Text <- OneText
    Relevant <- OneRelevant
    Supersedes = {}
    Contradicts = {}
    Marked = {}
    Rooms = {7}
    MaxNotes = 1
    MaxMoves = 0
    MaxFaults = 2
    MaxEvents = 2
SPECIFICATION Spec
PROPERTY RecoveryDelivers
