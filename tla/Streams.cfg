CONSTANTS
  a = a
  b = b
  c = c
  d = d
  Main = Main
  None = None
  Forward = Forward
  Jobs <- MCJobs
  InboxCap = 1
  Situations <- MCSituations
SPECIFICATION FairSpec
INVARIANTS
  AnswersAreWhole
  ForwardsFollowTheStream
PROPERTIES
  MessagesAreConcluded
CHECK_DEADLOCK FALSE
