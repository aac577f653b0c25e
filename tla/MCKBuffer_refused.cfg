SPECIFICATION Spec
CONSTANTS
  x = x nl = nl
  BlockSize = 2
  MaxBlockSize = 6
  ExtraSize = 3
  Byte = {x, nl}
  Newline = nl
  Fillings = {{"write"}}
  Chunk <- MCLargeChunk
  Message = {}
  Leftover = {}
  Waiting = {}
  MaxRead = 4
INVARIANT SizesAgree
