SPECIFICATION Spec
CONSTANTS
    a_b = a_b
    ab = ab
    c = c
    d = d
    e = e
    Leaves = {a_b, ab, c, d, e}
    Name <- OneCollision
    Deliveries = 2
CHECK_DEADLOCK FALSE
INVARIANT
    OneText
