SPECIFICATION LocalSpec
CONSTANTS
  N = 5
  src = src
  SrcData = {src}
  Graphs <- MCGraphs
  Profiles <- MCProfiles
  Unit = 2
  Host = "host"
  Device = "device"
  MaxRuns = 2
INVARIANTS RankNearLongestPath ClusterIsTarget StaleOnlyAcross ResultsComeBack
CHECK_DEADLOCK FALSE
