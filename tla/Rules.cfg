SPECIFICATION Spec
CONSTANTS
    a = a  b = b  x = x  u1 = u1  u2 = u2
    Names <- MCNames
    Configured = 1
    MaxRules = 3
    Sources <- MCOneSource
    Users <- MCUsers
INVARIANTS TypeOK SubscriptionsExact ServedExactly RearmedExactly
SYMMETRY MCSymmetry
