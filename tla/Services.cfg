\* A Get races Set, Delete and cleanup, with a second key.
CONSTANTS
  k1 = k1
  k2 = k2
  v1 = v1
  v2 = v2
  g1 = g1
  g2 = g2
  g3 = g3
  NoItem = NoItem
  Keys = {k1, k2}
  Values = {v1, v2}
  Getters = {g1}
  MaxTTL = 1
  Interval = 1
\* Two Sends at a time, three subscriptions, two of which may be a user's.
  Users = {k1, k2}
  Senders = {v1, v2}
  MaxCalls = 3
  Cap = 1
  MaxSends = 2
\* A burst of two tokens; three units of time bring two more.
  Scale = 3
  Rate = 2
  Burst = 2
  Waiters = {g1, g2}
  Horizon = 5
\* Two checks.
  Names = {g1, g2}
  NoCheck = NoItem
\* Two calls of Start, three clients.
  Starts = {k1, k2}
  Requests = {g1, g2, g3}
  NoServer = NoItem
SPECIFICATION ServicesSpec
INVARIANTS
  AnswersWereRight
  ChatDelivers
  WindowBound
  AnswerMatches
  DrainedWhenNil
PROPERTIES
  OnlyStaleGetLoses
  ServicesAnswer
\* The program ends when the second Close, or a second unsubscribe, panics.
CHECK_DEADLOCK FALSE
