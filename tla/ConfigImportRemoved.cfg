\* One store; the imported profile may be removed before its import is over.
SPECIFICATION Spec
CONSTANTS
    Stores = {s1}
    Names = {n1, n2}
    NoName = NoName
    NoStore = NoStore
    Damaged = Damaged
    MaxId = 2
    Old = {1}
    MaxImports = 1
    RemovesJournaled = TRUE
INVARIANT OnlyWholeRestored
