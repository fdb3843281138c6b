CONSTANTS
    k1 = k1
    k2 = k2
    Keys = {k1, k2}
    Book = Book
    Programs <- Turns
    Tools = {"tool"}
    MaxChange = 5
    MaxFaults = 1
    MaxCrashes = 1
SPECIFICATION Spec
SYMMETRY KeySymmetry
INVARIANTS
    OneActiveOnDisk
    BookLoads
PROPERTIES
    KeepsTheLog
CHECK_DEADLOCK FALSE
