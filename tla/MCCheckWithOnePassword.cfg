CONSTANTS
    Check = c1
    Checks = {c1}
    Landings = {"billing", "outside"}
    BackendFailures <- CredentialBackendFailureCode
    BackendKind = "one_password"
    MaxOutputBytes = 1
SPECIFICATION FairJointSpec
PROPERTY ImplementsCheck
