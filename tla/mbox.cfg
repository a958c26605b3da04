\* Two posters against a ring with room for two, one thread that fetches.
CONSTANTS
  Posters = {p1, p2}
  Fetchers = {f1}
  Nobody = Nobody
  Size = 3
  IntMax = 20
  MaxPosts = 2
  MaxPolls = 2
SPECIFICATION FairSpec
INVARIANTS NobodyInFreed FetcherIsWoken PosterIsWoken
PROPERTIES IsMailbox PostReturns MessageFetched
CHECK_DEADLOCK FALSE
