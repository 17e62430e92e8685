CONSTANTS
    k1 = k1
    k2 = k2
    cli = cli
    agent = agent
    Calls = {k1, k2}
    Processes = {cli, agent}
    Assignments <- OneOrTwoProcesses
    MaxCrashes = 1
    Login = k1
SPECIFICATION FairLoginSpec
INVARIANTS
    AcknowledgedWriteSurvives
    TemporariesAreRemoved
    ProcessHasOneKey
    AnswerTellsSession
PROPERTIES
    ImplementsRegister
    EveryVaultCallAnswers
