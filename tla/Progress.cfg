SPECIFICATION Spec
CONSTANTS
    Viewers = {s1}
    Pings = {p1, p2}
    Positions = {0, 8, 9, 10}
    Durations = {0, 6, 10}
    MaxClock = 2
    NoTime = NoTime
INVARIANTS TypeOK RowIsConsistent CompletionIsEarned
PROPERTIES ProgressNeverRegresses
