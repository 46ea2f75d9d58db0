SPECIFICATION Spec
CHECK_DEADLOCK FALSE
CONSTANTS
    change = change
    notice = notice
    adm = adm
    stop = stop
    Requests <- MCRequests
    Kind <- MCKind
    Signal = SIGTERM
    Retried = {notice}
    MaxRetries = 1
    None = None
INVARIANTS GracefulStop SavedBeforeExit QuietStopIsClean
PROPERTIES StopEnds
