\* Two buffers to copy between, chunks of two bytes and at most three used
\* bytes, so that a block is empty, partly used, full, and has to grow.
CONSTANTS
  Buf = {b1, b2}
  Val = {v}
  Unset = unset
  ChunkSize = 2
  SizeMod = 64
  MaxData = 2
  MaxSize = 3
SYMMETRY Symmetric
SPECIFICATION Spec
INVARIANTS
  TypeOK
PROPERTIES
  DamageIsExplained
  UnsoundIsExplained
  UsedPartKept
  GapsAreExplained
