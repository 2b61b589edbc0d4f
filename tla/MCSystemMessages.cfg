CONSTANTS
    q1 = q1
    q2 = q2
    q3 = q3
    u1 = u1
    unit1 = unit1
    Push = {q1, q2, q3}
    Recipient = {u1, unit1}
    MaxId = 3
SYMMETRY Symmetry
SPECIFICATION SystemSpec
INVARIANTS
    RecipientKnown
PROPERTIES
    DeliversInOrder
