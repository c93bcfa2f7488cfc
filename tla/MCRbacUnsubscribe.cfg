SPECIFICATION Spec
CONSTANTS
  Line <- UnsubscribeLine
  Hostname <- MCHostname
  Name <- MCName
  STAR = STAR
  NULL = NULL
  MAX_ROLES = 2
  MAX_TOPICS = 2
  MAX_MAPPINGS = 2
  MaxLines = 5
INVARIANT UnsubscribeFollowsFile
CHECK_DEADLOCK FALSE
