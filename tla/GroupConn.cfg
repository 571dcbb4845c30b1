\* Three servers: every ServerGrp fault-injection call in any order,
\* Partition on every pair of disjoint sides, MakePartition for every
\* leader.
CONSTANT N = 3

SPECIFICATION Spec

INVARIANT TypeOK
INVARIANT EnabledImpliesConnected
INVARIANT PartitionSeparates
INVARIANT ConnectAllHeals
INVARIANT LeaderInMinority
