CONSTANTS
    Grants = {0, 1, 2, 3, 4}
    MaxAccepted = 3
    MaxRetries = 2
    MaxErrors = 2
    ArgumentLists <- AllArgumentLists
    Numbers <- AllNumbers
    MaxGint = 7
    Dashed <- AllDashed
    Faults <- AllFaults
SPECIFICATION Spec
INVARIANTS
    TypeOK
    ExactCapture
    BuffersHandedBack
    NothingHeld
PROPERTIES
    TeardownOrder
    AlwaysEnds
