\* Pools of two blocks and five pieces held; messages of at most three items.
SPECIFICATION LibrarySpec
CONSTANTS
  nSzie <- MCClasses
  nBlockSzie = 2
  PointerSize = 2
  nPoolSzie = 2
  ObjectSize = 2
  HeaderSize = 1
  Sizes <- MCSizes
  MaxHeld = 5
  MessageSize = 14
  AnswerSize = 12
  ArraySize = 2
  Types = {"int8", "int16", "int32"}
  ArrayTypes = {"int8", "int16"}
  MaxElements = 3
  MaxWrites = 3
INVARIANTS
  LibraryTypeOK
  HandedOutOnce
  StreamRoundTrip
\* A message has an end.
CHECK_DEADLOCK FALSE
