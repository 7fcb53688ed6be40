CONSTANTS
  Slabs = {s1, s2, s3, s4}
  BlockSizeArg = 0
  DefaultBlock = 48
  MinBlocks = 1
  DescSize = 24
  Redzone = 0
  SizeMax = 127
  Sizes = {0, 1, 17, 112, 113}
SYMMETRY SlabSymmetry
SPECIFICATION Spec
INVARIANTS SlabsOwnedOnce LiveInsideSlab LiveApart
PROPERTY ImplementsRegion
