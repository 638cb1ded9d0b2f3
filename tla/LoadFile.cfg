SPECIFICATION Spec
CONSTANTS
  Object = {o1, o2}
  Handle = {h1}
  NoHandle = NoHandle
  Byte = {0, 1}
  MaxSize = 3
  MAX_HEX_DIGITS = 2
  IO_BUFFER_SIZE = 2
  Texts <- MCTexts
SYMMETRY Symmetry
INVARIANTS
  FilesOnce
  LinesCounted
  PrevTokenRight
PROPERTIES
  ImplementsByteStreams
  EndStays
