\* What must happen in the end.
SPECIFICATION FairSpec
CONSTANTS
  Thread = {w1, w2, main, heartbeat, cli}
  Worker = {w1, w2}
  Main = main
  Heartbeat = heartbeat
  Cli = cli
  Fd = {f1}
  Client = {c1}
  Hostname = {h1}
  Topic = {"a", "b"}
  NULL = NULL
  Granted <- GrantMost
  DNS <- HomeOnly
  Workload <- LiveLoads
  MaxConn = 2
  QUEUE_MAX_SIZE = 2
  MAX_TOPICS = 1
  MAX_SUBSCRIBERS_PER_TOPIC = 2
PROPERTIES VaultSevered  
CHECK_DEADLOCK FALSE
