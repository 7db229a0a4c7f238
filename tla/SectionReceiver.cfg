SPECIFICATION Spec
CONSTANTS
    Blocks <- MCBlocks
    WordBits <- MCWordBits
    Code <- MCCode
    Words <- MCWords
    NoLane <- MCNoLane
    Sources <- MCSources
    Sections <- MCSections
    Layout <- MCLayout
    Observations <- MCObservations
    Deliveries <- MCDeliveries
    Misplaced <- MCMisplaced
    Elsewhere = {far, farther}
INVARIANTS
    NeverOutvoted
    AssemblyOrderBlind
    ArtifactHonest
    DamageContained
