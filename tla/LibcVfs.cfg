\* Two processes open, read, write, flush, close and remove one path, and crash.
SPECIFICATION VfsSpec

CONSTANTS
  h1 = h1
  h2 = h2
  a = a
  b = b
  Paths = {p1}
  Nodes = {n1, n2}
  Handles = {h1, h2}
  ProcessOf <- MCProcessOf
  Data = {d1, d2}
  Hole = Hole
  Torn = Torn
  MaxBlocks = 2
  CanFail = TRUE
  NoNode = NoNode

SYMMETRY FileSymmetry
INVARIANT VfsTypeOK
PROPERTY OpensTruncateNothing
PROPERTY IsVfs
