CONSTANTS
  Posts = {1, 2, 3, 4}
  Urls = {1, 2, 3, 4, 5}
  FirstPosts <- MCPosts
  FirstUrl <- MCUrl
  FirstRows <- MCRows
  Unserved = {5}
  PerPage = 2
  PerSitemap = 2
  MaxEdits = 3
  MaxRemovals = 1
  MaxSyncs = 2
  MaxFaults = 1
SPECIFICATION Spec
INVARIANTS SourcesPhaseSucceeds
PROPERTY StayedIsActive
CHECK_DEADLOCK FALSE
