CONSTANTS
    Absent = Absent
    Muted = Muted
    Fds <- ThreeFds
    Events <- TwoEvents
    InitSize = 1
    MaxSize = 4
SPECIFICATION BothSpec
INVARIANT IndicesAgree
PROPERTIES PollIsPoller EpollIsPoller SameReports
