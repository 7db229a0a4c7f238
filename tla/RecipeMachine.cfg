SPECIFICATION MachineSpec
CONSTANTS
    StepMax = 60
    ScratchMax = 40
    IterationMax = 2
    WidthMax = 64
    Packages <- MCPackages
INVARIANTS
    WithinDeclared
    CoverageComplete
\* An evaluation ends, and a rejected package is never evaluated.
CHECK_DEADLOCK FALSE
