SPECIFICATION Spec
CONSTANTS
    Starts <- MCStarts
    ThreefoldOccurrences = 3
    FiftyMovePlies = 6
    AgreementMinPlies = 2
    MaxHistoryPlies = 9
    Asked <- MCAsked
CONSTRAINT MCReach
INVARIANTS
    PositionsAdmissible
    ClaimsFollowHistory
    RefusalsTrue
    RecordsAgree
\* A closed game takes no further event.
CHECK_DEADLOCK FALSE
