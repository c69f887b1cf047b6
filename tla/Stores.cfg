\* The in-memory stores, one per behaviour.
CONSTANTS
  g1 = g1
  g2 = g2
  g3 = g3
  a = a
  b = b
  c = c
  d = d
  NoUrl = NoUrl
\* Base 3 gives codes of one and two digits.
  Callers = {g1, g2, g3}
  Urls = {a, b, c, d}
  Base = 3
\* A sequence of two bits wraps around after four of the five Creates.
  Users = {g1}
  Titles = {a, b}
  Half = 2
  MaxCreates = 5
\* Twice as many keys as there is room for.
  Keys = {a, b, c, d}
  Values = {g1, g2}
  Capacity = 2
  MapKeys = {a, b, c}
  MapValues = {g1, g2}
  ShardCount = 2
  HashOf <- Hashes
\* Four Incs over three shards.
  Incs = {a, b, c, d}
  Readers = {g1, g2}
  Shards = 3
  Names <- SomeNames
  Emails <- SomeEmails
  MaxCalls = 4
  Pids <- ThreePids
  Sizes <- ThreeSizes
  Tops = {0, 2}
  Encoders = {g1, g2}
  Inputs = {a, b}
  Buffers = {c, d}
  NoBuffer = NoUrl
  Digits <- UpToThree
  MaxLen = 3
SPECIFICATION Spec
INVARIANTS
  CodesForGood
  KeepsLastUsed
  ScansAreFair
  ValueInBounds
  UsersKept
  ListIsFair
  OwnBuffer
  SortedRight
  ScansRight
  ReadsRight
PROPERTY IdsForGood
\* The counter stops when all its calls have been made.
CHECK_DEADLOCK FALSE
