SPECIFICATION Spec
CONSTANTS
    Posters = {a1, a2, a3}
    NUMBER = 1
    ERROR = 0
INVARIANT ExactlyOneTerminal
PROPERTY LatchRefined
PROPERTY PostsReturn
