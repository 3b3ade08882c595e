CONSTANTS
    m1 = m1
    m2 = m2
    m3 = m3
    f1 = f1
    p1 = p1
    p2 = p2
    None = None
    Unavailable = Unavailable
    Memories = {m1, m2, m3}
    Files = {f1}
    Prompts = {p1, p2}
    Anchor <- ThreeAnchor
    Rank <- ThreeRank
    Text <- ThreeText
    Relevant <- ThreeRelevant
    Supersedes <- ThreeSupersedes
    Contradicts = {}
    Marked = {}
    Rooms = {0, 7}
    MaxNotes = 1
    MaxMoves = 2
    MaxFaults = 2
    MaxEvents = 2
SPECIFICATION Spec
INVARIANTS TypeOK AgentCurrent BaselineEarned
PROPERTY WithdrawnTold
