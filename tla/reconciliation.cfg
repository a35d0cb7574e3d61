SPECIFICATION Spec
CONSTANTS
    Enabled = {"interchange"}
    p1 = p1
    p2 = p2
    Players = {p1, p2}
    SideOf <- MCSideOf
    Slots = {kick, quarter}
    PlayerSlots = {kick}
    Texts = {1, 2, 3}
    RoundMatches = {m1, m2}
    Squad = {q1}
    Positions = {"field"}
    Tolerance = 1
    Grace = 4
    MatchLength = 1
    MaxRotations = 3
    MaxRevisions = 2
    MaxCommentary = 3
    MaxFaults = 1
    MaxDown = 1
INVARIANT FinalPollNotSkipped
CHECK_DEADLOCK FALSE
