SPECIFICATION Spec
CONSTANTS
  x = x nl = nl
  BlockSize = 2
  MaxBlockSize = 6
  ExtraSize = 5
  Byte = {x, nl}
  Newline = nl
  Fillings = {{"write"}, {"send"}, {"readFd"}}
  Chunk <- MCChunk
  Message <- MCMessage
  Leftover <- MCLeftover
  Waiting <- MCWaiting
  MaxRead = 4
INVARIANTS SizesAgree
PROPERTIES ImplementsByteQueue SmallWritesTaken
