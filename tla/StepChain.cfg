\* Chains of up to three steps, of two built-in names and a new one.
CONSTANTS
    CustomType = {"t"}
    CustomStep <- MCCustomStep
    MaxLength = 3
SPECIFICATION Spec
INVARIANTS
    TypeOK
    ValidCanBeOrdered
    CircularIsReal
    NoEndlessRecursion
