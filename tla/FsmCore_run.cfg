\* Two states, three transitions, inputs of two characters, one character.
SPECIFICATION Spec
CONSTANTS
    Names = {p, q}
    Inputs = {a}
    MaxObjs = 2
    MaxTransitions = 3
    MaxInput = 2
    Settable = {"RUNNING"}
    Executing = TRUE
SYMMETRY Symmetry
\* A process whose stack has overflowed is gone.
CHECK_DEADLOCK FALSE
INVARIANT OutputFollowsInput
