\* Three states, two transitions, no input: every order of edits.
SPECIFICATION Spec
CONSTANTS
    Names = {p, q, r}
    Inputs = {a, b}
    MaxObjs = 3
    MaxTransitions = 2
    MaxInput = 0
    Settable = {}
    Executing = FALSE
SYMMETRY Symmetry
\* A process whose stack has overflowed is gone.
CHECK_DEADLOCK FALSE
INVARIANT TypeOK
INVARIANT ValidIsSound
INVARIANT LoadKeepsSteps
PROPERTY NextBacked
PROPERTY OrphansOnly
