\* Four navigations of a view, calls nested three deep; and three of which the
\* histories keep two entries, to URLs already shown or not, one of them pushed.
CONSTANTS
  MaxNavigations = 4
  MaxDepth = 3
  MaxUrls = 4
  MaxEntries = 2
  MaxVisits = 3
  None = None
  Views = {u, v}
  Workers = {w}
  Waits = {u}
  Addresses = {1, 2, 3}
  Loads = {1, 2}
  IdleTime = 2
  Timeout = 4
  MaxPump = 1
  MaxStarted = 2
  Ids = {1, 2}
  Buffers = {b, c}
  MaxCalls = 2
  MaxLends = 2
SPECIFICATION SumSpec
INVARIANTS EveryNavigationIsTold AccountsAreTrue
PROPERTIES OnlyTheLatestCommits NavigationsEnd CommitsAreRecordedAsWhatTheyAre
CHECK_DEADLOCK FALSE
