CONSTANTS
    c1 = c1
    c2 = c2
    Checks <- OneCheck
    Landings <- AllLandings
    BackendFailures <- AllFailures
    BackendKind = "one_password"
SPECIFICATION Spec
INVARIANT DeadlineClosesBrowser
