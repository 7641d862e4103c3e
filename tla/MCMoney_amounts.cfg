CONSTANTS
    MaxInt = 31
    Digits <- ThreeDigits
    Capitals = {"B", "R", "L", "U", "S", "D"}
    Inputs <- SomeInputs
    Codes <- SomeCodes
SPECIFICATION Spec
INVARIANTS Exact OneText
CHECK_DEADLOCK FALSE
