SPECIFICATION Spec
CONSTANTS
    p1 = p1
    p2 = p2
    i1 = i1
    Pulls = {p1, p2}
    Plain = {}
    ListedPulls <- FirstPulls
    ListedIssues <- OnlyPulls
    Bad = {}
    Old = {p2}
    Stored = {p1}
    Closed = {p2}
    Workers = {w1, w2}
    Modes = {"open_only", "open_and_recent"}
    PerPage = 1
    RecentPages = 1
    HistoryPages = 1
    MaxEvents = 1
    MaxFailures = 0
PROPERTY
    ChangesArrive
CHECK_DEADLOCK FALSE
