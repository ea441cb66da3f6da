SPECIFICATION Spec
CONSTANTS
    u1 = u1  k1 = k1  k2 = k2  t1 = t1
    Users <- MCUser
    Clients <- MCClients
    Topics <- MCTopic
    Configured <- MCTopic
    DirectUse = TRUE
INVARIANTS TypeOK TopicsKept LinkServed
SYMMETRY MCClientSymmetry
