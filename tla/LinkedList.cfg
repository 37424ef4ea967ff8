\* Three lists of up to four nodes.
SPECIFICATION Spec

CONSTANTS
  Nodes = {n1, n2, n3, n4}
  Sentinels = {s1, s2, s3}
  nullptr = nullptr

SYMMETRY NodeSymmetry
INVARIANT NodesKnowTheirList
INVARIANT Represents
INVARIANT SizeIsLength
INVARIANT UnlinkedNodesAreNull
