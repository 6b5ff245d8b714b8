\* Tasks of the watchdog nest twice; a socket of two messages each way; two
\* downloads, whose streamed bodies are of one chunk or none; two DevTools
\* clients and two views, one after the other at an address, a frame each
\* way, one stop; and a player that is called and seeks twice.
CONSTANTS
  Timeouts = {0, 1}
  MaxTasks = 3
  MaxDepth = 2
  MaxTime = 4
  MaxDownloads = 2
  MaxChunks = 1
  MaxSinkChanges = 1
  Clients = {1, 2}
  Addresses = {4}
  Host = 3
  None = 0
  MaxViews = 2
  MaxStops = 1
  MaxFrames = 1
  Clips <- FewClips
  Rates = {0, 1, 2}
  NoFrame <- NoPicture
  MaxSeeks = 2
  MaxCalls = 2
SPECIFICATION SumSpec
INVARIANTS ClaimIsOfItsTask ServicesAreOrderly
PROPERTY ServicesEnd
CHECK_DEADLOCK FALSE
