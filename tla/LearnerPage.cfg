SPECIFICATION PageSpec
CONSTANTS
    Lessons = {1, 2}
    Regions = {1, 2, 3}
    Predicates = {1}
    MaxControlEdges = 8
    MaxSelections = 2
    MaxAttempts = 3
    MaxExamples = 3
    ExamplesReviewed = 2
    AttemptsReviewed = 2
    Nothing = Nothing
    Candidates <- PacketFamily
VIEW View
INVARIANTS ExportsReviewable UnsavedWorkWarned
