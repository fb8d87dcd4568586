SPECIFICATION Spec
CONSTANTS
    A = A
    B = B
    Run = {r1, r2}
    Template = {A, B}
    Cell <- Cells
    Point <- Points
    Nobody = Nobody
    TemplateOf <- TemplateOfCell
    CellOf <- CellOfPoint
    Feasible <- Cells
    Centre <- CentreOfCell
    Middle <- MiddleCell
    Distance <- CellDistance
    MaxIdeas = 2
INVARIANTS VisitsAreCounted RunsDigElsewhere EvenSpread
SYMMETRY Symmetry
CHECK_DEADLOCK FALSE
