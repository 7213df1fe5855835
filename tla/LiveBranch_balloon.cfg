SPECIFICATION Spec
CONSTANTS
    w1 = w1
    w2 = w2
    w3 = w3
    p1 = p1
    p2 = p2
    Words = {w1, w2, w3}
    Vals <- MCVals
    Pages = {p1, p2}
    PageOf <- MCPageOf
    Zero = 0
    Hole = Hole
    Nothing = Nothing
    MaxOps = 1
    Balloon = TRUE
    InTime = TRUE
CHECK_DEADLOCK FALSE
INVARIANT ImageIsParent
