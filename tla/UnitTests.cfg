\* The repository's unit tests, on pools of one to four frames.
SPECIFICATION Spec

CONSTANTS
  f1 = f1
  f2 = f2
  f3 = f3
  f4 = f4
  s1 = s1
  i1 = i1
  t1 = t1
  Garbage = Garbage
  NoFrame = NoFrame
  NoTxn = NoTxn
  zero = zero
  b1 = b1
  b2 = b2
  b3 = b3
  b4 = b4
  p1 = p1
  n1 = n1
  h1 = h1
  a = a
  Hole = Hole
  Torn = Torn
  NoNode = NoNode
  list = list
  empty = empty
  one = one
  two = two
  host1 = host1
  host2 = host2
  host3 = host3
  null = null

INVARIANT ExpectationsHold
