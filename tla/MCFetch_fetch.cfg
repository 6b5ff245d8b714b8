\* Requests of every driver with up to two redirects; three registrations of
\* headers; tables of two entries, and a view after a view at one address; three
\* blobs and two reads; two records with Blobs, one address more than records.
CONSTANTS
  Web <- MCWeb
  Local <- MCLocal
  Rewrites <- MCRewrites
  Blocked <- MCBlocked
  HookTargets <- MCHookTargets
  Drivers <- MCDrivers
  MaxHops = 2
  None = None
  Empty = Empty
  RuleUrls <- MCRuleUrls
  UrlSets <- MCUrlSets
  Moves <- MCMoves
  Addresses = {x}
  MaxTable = 2
  MaxViews = 2
  MaxRedirects = 1
  Records = {r1, r2}
  Addrs = {a1, a2, a3}
  SavedBlobs = {b1, b2}
SPECIFICATION SumSpec
CHECK_DEADLOCK FALSE
INVARIANT RequestsAreAllowed
INVARIANT AnswerIsOfTheLastHop
 
INVARIANT BlobsAreSound
PROPERTY EveryRecordGetsItsBytes
PROPERTY LoadsEnd
PROPERTY LatestRegistrationWins
