SPECIFICATION FairSpec
CONSTANTS
    w1 = w1
    w2 = w2
    w3 = w3
    p1 = p1
    p2 = p2
    Words = {w1}
    Vals <- MCVals
    Pages = {p1}
    PageOf <- MCPageOf
    Zero = 0
    Hole = Hole
    Nothing = Nothing
    MaxOps = 2
    Balloon = TRUE
    InTime = FALSE
CHECK_DEADLOCK FALSE
INVARIANT TypeOK
PROPERTY ParentResumes
