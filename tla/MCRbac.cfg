SPECIFICATION Spec
CONSTANTS
  Line <- MCLine
  Hostname <- MCHostname
  Name <- MCName
  STAR = STAR
  NULL = NULL
  MAX_ROLES = 2
  MAX_TOPICS = 2
  MAX_MAPPINGS = 2
  MaxLines = 6
INVARIANTS TypeOK GrantsFollowFile
CHECK_DEADLOCK FALSE
