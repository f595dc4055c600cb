\* Two processes, two contents in one shard, losses of power and bit rot.
SPECIFICATION Spec
CONSTANTS
    c1 = c1
    c2 = c2
    Client = {c1, c2}
    NoClient = NoClient
    Digest = {"d1", "d2"}
    Shard <- MCShard
    MaxCrashes = 2
    MaxFaults = 2
    MaxRot = 1
SYMMETRY Clients
INVARIANTS TypeOK RegisteredIsDurable
PROPERTIES NeverReplaced
