\* One buffer is enough to see what a write to a file leaves in the offset.
CONSTANTS
  Buf = {b1}
  Val = {v}
  Unset = unset
  ChunkSize = 2
  SizeMod = 64
  MaxData = 2
  MaxSize = 3
SPECIFICATION Spec
PROPERTIES
  SizeUsed
