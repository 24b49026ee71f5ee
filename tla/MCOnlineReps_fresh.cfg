CONSTANTS
    l1 = l1
    r1 = r1
    None = None
    Reps = {l1, r1}
    LocalReps = {l1}
    RepTimeout = 5
    FindInterval = 2
    MaxTime = 6
SPECIFICATION Spec
INVARIANT FreshRepKept
