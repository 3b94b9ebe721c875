CONSTANTS
    a = a
    b = b
    zero = zero
    one = one
    None = None
    Symbols = {a, b}
    Scalars = {one}
    Zero = zero
    Value <- MCValue
    Values <- MCValues
    Comparable <- MCComparable
    Bounds <- MCBounds
    MaxRevision = 3
SPECIFICATION Spec
INVARIANT StrictChainsAreFound
