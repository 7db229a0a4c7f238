SPECIFICATION SnapshotSpec
CONSTANTS
    Lessons = {1, 2, 3}
    Regions = {1, 2, 3, 4}
    Predicates = {1, 2}
    MaxControlEdges = 8
    MaxSelections = 2
    MaxResumes = 1
    Candidates <- AllFamilies
    Persisted <- SnapshotFamily
    RawActions <- Calls
    NothingSaved = NothingSaved
VIEW View
INVARIANTS BudgetsCoherent BufferLegal EveryCaseAnswerable FeedbackAgreesWithVerdict SnapshotFaithful DamageDetected
PROPERTIES SuccessPathFunded Terminates
