SPECIFICATION Spec
CONSTANTS
    p1 = p1
    p2 = p2
    i1 = i1
    Pulls = {p1, p2}
    Plain = {i1}
    ListedPulls <- FirstPulls
    ListedIssues <- FirstIssues
    Bad = {}
    Old = {p2, i1}
    Stored = {p1}
    Closed = {p2}
    Workers = {w1}
    Modes = {"open_only", "open_and_recent", "full_history"}
    PerPage = 1
    RecentPages = 1
    HistoryPages = 1
    MaxEvents = 1
    MaxFailures = 1
PROPERTY
    ChangesArrive
CHECK_DEADLOCK FALSE
