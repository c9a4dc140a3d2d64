SPECIFICATION Spec
CONSTANTS
    Entity = {e1, e2}
    Camera = {c1, c2}
    None = None
SYMMETRY Symmetry
INVARIANTS DrawnAsAsked WindowForGui
PROPERTY ImplementsViewport
\* A failed assertion ends the program.
CHECK_DEADLOCK FALSE
