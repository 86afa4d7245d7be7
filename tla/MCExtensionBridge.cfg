\* Two commands and two concurrent polls: a command that overtakes another, a
\* batch of two, a poll that times out while another is suspended.
CONSTANTS
    MaxCommands = 2
    Polls = {p1, p2}
SPECIFICATION FairSpec
INVARIANTS
    CallerConservation
    PollConservation
    HandedOutOnce
    LogMeansResult
PROPERTIES
    PollAnswered
    CallsAnsweredOnce
CHECK_DEADLOCK FALSE
