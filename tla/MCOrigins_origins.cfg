\* Three requests for two resources, in every mode and with steals; channels of two
\* frames, or of a frame and its worker; a page that watches the position and two that
\* observe whether they may.  The other components' instances are in the module.
CONSTANTS
  Requests = {r1, r2, r3}
  Names = {n1, n2}
  None = None
  Unknown = Unknown
  Null = Null
  c1 = c1
  c2 = c2
  item = item
  Frames = {"f", "g"}
  Starters = {"f"}
  Workers = {"w"}
  Scopes <- ChannelScopes
  Ids = {1, 2}
  MaxPosts = 2
  MaxCalls = 3
  Watchers = {"p"}
  Observers = {"p", "q"}
  MaxChanges = 2
SPECIFICATION SumSpec
INVARIANTS MutualExclusion NoIdleLock LoopGrantsGrantedBy SharedAsIntended
PROPERTIES GrantsInOrder LocksMoveOn MessagesStayInTheirScope
CHECK_DEADLOCK FALSE
