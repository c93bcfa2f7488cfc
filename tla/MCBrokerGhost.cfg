\* A sweep races with SUBSCRIBE; the descriptor is reused.
SPECIFICATION Spec
CONSTANTS
  Thread = {w1, main, heartbeat, cli}
  Worker = {w1}
  Main = main
  Heartbeat = heartbeat
  Cli = cli
  Fd = {f1}
  Client = {c1}
  Hostname = {h1}
  Topic = {"a", "b"}
  NULL = NULL
  Granted <- GrantMost
  DNS <- HomeOnly
  Workload <- GhostLoads
  MaxConn = 2
  QUEUE_MAX_SIZE = 2
  MAX_TOPICS = 1
  MAX_SUBSCRIBERS_PER_TOPIC = 2
SYMMETRY Symmetry
INVARIANTS OnlyAuthenticatedReceive
CHECK_DEADLOCK FALSE
