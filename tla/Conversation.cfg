SPECIFICATION ConversationSpec
CONSTANTS
  UniqueIds = TRUE
  MaxMessages = 5
  MaxMail = 1
  MaxRequests = 2
  MaxRestarts = 1
INVARIANTS
  RequestIsPaired
  NothingForgotten
  RowHasNoHole
