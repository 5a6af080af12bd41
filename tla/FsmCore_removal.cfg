\* A removal takes only what can no longer be reached from the start state.
SPECIFICATION Spec
CONSTANTS
    Names = {p, q, r}
    Inputs = {a, b}
    MaxObjs = 3
    MaxTransitions = 2
    MaxInput = 0
    Settable = {}
    Executing = FALSE
SYMMETRY Symmetry
\* A process whose stack has overflowed is gone.
CHECK_DEADLOCK FALSE
PROPERTY ReachableKept
