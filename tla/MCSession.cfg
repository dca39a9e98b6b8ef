\* Two callers, one of which waits for what the other is doing.
SPECIFICATION FairSpec
CONSTANTS
    Callers = {c1, c2}
    NoCaller = NoCaller
    NoSession = NoSession
    MaxAge = 2
    MaxSkew = 1
    ClockBound = 3
    MaxVerifications = 3
INVARIANTS TypeOK VerifyIsFresh BoundedStaleness LedgerAgrees RefusedIsGone
PROPERTIES NewerSessionSurvives EveryCallAnswered
CHECK_DEADLOCK FALSE
