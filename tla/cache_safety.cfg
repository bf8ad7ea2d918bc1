\* Three nodes and four hashes: eviction, paths and both rotations occur.
SPECIFICATION Spec
CONSTANTS
  Keys = {1, 2, 3, 4}
  Levels = {0, 1}
  NODES = 3
INVARIANTS TreeConsistent WalkEnds
PROPERTY ImplementsPromise
