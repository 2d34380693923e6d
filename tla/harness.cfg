SPECIFICATION FairSpec
CONSTANTS
  Text = Text
  NaN = NaN
  None = None
  Suite <- MCSuite
  Arguments <- MCArguments
  Replies <- MCReplies
  Matrix <- MCMatrix
  Mode0 = "default"
  Policy <- MCPolicy
  Machines = {"m1", "m2"}
  Repeats = 2
  Keys <- MCKeys
  Sessions <- MCSessions
INVARIANTS VerdictsAreEarned EvidenceIsGenuine
 
CHECK_DEADLOCK FALSE
