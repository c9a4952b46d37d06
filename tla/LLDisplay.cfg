\* Three rows: regions of one, two and three rows, at both edges and inside.
SPECIFICATION FairSpec
CONSTANT Height = 3
INVARIANTS
    TypeOK
    NoTearing
    ShownWhenSynchronized
PROPERTY SynchronizeReturns
