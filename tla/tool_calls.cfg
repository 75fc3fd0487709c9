SPECIFICATION FairSpec
CONSTANTS
  call1 = call1
  call2 = call2
  u1 = u1
  u2 = u2
  access1 = access1
  refresh2 = refresh2
  None = None
  Calls = {call1, call2}
  BufferSize = 1
  MaxLost = 1
  Configs <- ThreeConfigs
  Users = {u1, u2}
  Owner = u2
  Tokens = {access1, refresh2}
  TokenRow <- TwoTokens
  Requests <- SomeRequests
  MaxNow = 1
CHECK_DEADLOCK FALSE
INVARIANTS
  TypeOK
  AnswerIsTruthful
  EventsAccounted
  NoDuplicateUnlessUnanswered
  AcceptedIsUnambiguous
  UpdatesArePartial
PROPERTIES
  ActsForItsToken
  RefusedOnlyIfDead
  CallsEnd
