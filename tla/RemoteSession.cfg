SPECIFICATION Spec
CONSTANTS
  c1 = c1
  c2 = c2
  c3 = c3
  i1 = i1
  i2 = i2
  None = None
  Chats <- MCChats
  Ids <- MCIds
  Conversation <- MCConversation
  Limits <- MCLimits
  MaxInflight = 2
  Backlog = 1
  MaxFrames = 3
INVARIANTS
  TypeOK
  ToldOnce
PROPERTIES
  CancelEnds
  SenderEnds
  ScreenCatchesUp
CHECK_DEADLOCK FALSE
