\* Four servers: MakePartition for an even group size.
CONSTANT N = 4

SPECIFICATION Spec

INVARIANT LeaderInMinority
