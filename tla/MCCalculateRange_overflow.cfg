CONSTANTS
    Nil = Nil
    IntWidth = 6
    Sizes <- MCSizes
    Counts <- MCAllCounts
SPECIFICATION Spec
INVARIANT SliceBoundsValid
