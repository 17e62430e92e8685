CONSTANTS
    k1 = k1
    k2 = k2
    cli = cli
    agent = agent
    Calls = {k1, k2}
    Processes = {cli, agent}
    Assignments <- InTwoProcesses
    MaxCrashes = 0
SPECIFICATION Spec
INVARIANT StoredUnderVaultKey
