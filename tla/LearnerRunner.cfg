SPECIFICATION Spec
CONSTANTS
    Lessons = {1, 2}
    Regions = {1, 2, 3}
    Predicates = {1, 2}
    MaxControlEdges = 8
    MaxSelections = 3
    Candidates <- PackagedFamily
INVARIANT OffersAreHonest
PROPERTY ImplementsContent
CHECK_DEADLOCK FALSE
