SPECIFICATION Spec
CONSTANTS
    p1 = p1
    p2 = p2
    p3 = p3
    p4 = p4
    W = 2
    P = 3
    B = 3
    MaxSeq = 7
    Page <- Pages
SYMMETRY Symmetry
INVARIANTS
    TypeOK
    WindowExact
    LocalPages
