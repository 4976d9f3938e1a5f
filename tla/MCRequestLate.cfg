SPECIFICATION Spec
CONSTANTS
    p1 = p1
    p2 = p2
    i1 = i1
    Pulls = {p1, p2}
    Plain = {i1}
    ListedPulls <- FirstPulls
    ListedIssues <- FirstIssues
    Bad = {}
    Old = {p2, i1}
    Stored = {p1}
    Closed = {}
    Workers = {w1}
    Modes = {"open_and_recent"}
    PerPage = 3
    RecentPages = 1
    HistoryPages = 1
    MaxEvents = 2
    MaxFailures = 0
PROPERTY
    RequestIsHeard
CHECK_DEADLOCK FALSE
