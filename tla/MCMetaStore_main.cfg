SPECIFICATION Spec
CONSTANTS
    a = a
    b = b
    c = c
    x = x
    y = y
    k = k
    None = None
    Ids = {a, b, c}
    Tags = {x, y}
    Chronicles = {k}
    MaxStamp = 2
    Skew = 0
SYMMETRY Symmetry
INVARIANTS IndexesExact FilterExact
PROPERTIES KeepsFeed
