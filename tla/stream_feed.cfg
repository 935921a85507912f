SPECIFICATION FairSpec

CONSTANTS
  Channels = {book, trades}
  Books = {book}
  Requests = 2
  MaxBuffer = 1
  Stamps = {TRUE}
  PushOnSubscribe = TRUE
  MaxVersion = 3
  MaxFaults = 2

INVARIANTS
  TypeOK
  NoSilentGap

PROPERTIES
  KeepsFeed
  BooksFresh
  ShutdownEnds

CHECK_DEADLOCK FALSE
