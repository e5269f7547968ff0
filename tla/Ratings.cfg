CONSTANTS
  Account = {a, b}
  atRhino = atRhino
  atKlaw = atKlaw
  bombScare = bombScare
  Subject = {atRhino, atKlaw}
  View = {bombScare}
  Feeds <- MCFeeds
  NoView = NoView
  Score = {1, 4}
  None = None
  Threshold = 2
  MaxCached = 1
  MaxGeneration = 1
  Handler = {h}
  Reader = {r}
SPECIFICATION Spec
INVARIANTS SummaryMatches CacheFresh
SYMMETRY Symmetric
