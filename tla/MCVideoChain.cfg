CONSTANTS
  N = 2
  Kind <- MCKind
  Shots <- MCShots
  First = "effect"
  Second = "sampler"
  Name = {t1,t2,t3}
  Size = {small}
  Pic = {p1,p2}
  FirstSize = small
  FirstPic = p1
  None = None
  Src = Src
  Cpu = Cpu
  Deleted = Deleted
  t1 = t1
  t2 = t2
  t3 = t3
  small = small
  p1 = p1
  p2 = p2
SPECIFICATION Spec
SYMMETRY Symmetry
INVARIANTS TexturesAccounted PooledPicturesStay
