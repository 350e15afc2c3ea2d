\* Two stores on one root, two profiles and two names, two imports.
SPECIFICATION Spec
CONSTANTS
    Stores = {s1, s2}
    Names = {n1, n2}
    NoName = NoName
    NoStore = NoStore
    Damaged = Damaged
    MaxId = 4
    Old = {1, 2}
    MaxImports = 2
    RemovesJournaled = FALSE
SYMMETRY Interchangeable
INVARIANT TombstonesOwned
INVARIANT WholeJournalAccepted
PROPERTY ImplementsProfiles
