SPECIFICATION FairSpec
CONSTANTS
    MaxTokens = 2
    Threads = {udp}
    Admin = admin
    Conn = {c1, c2}
    Calls = {1, 2}
    FailLimit = 1
    FrameTokens = 0
    CliTokens = 0
    Budgets <- MCBudgets
INVARIANTS
    TokensAreKept
    OneAdmissionPerToken
    AnswersThisCommand
    OnlineIsServed
PROPERTIES
    Promise
    AgentComesOnline
CHECK_DEADLOCK FALSE
