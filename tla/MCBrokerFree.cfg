\* A sweep between the two halves of client_set_hostname.
SPECIFICATION Spec
CONSTANTS
  Thread = {w1, w2, main, heartbeat, cli}
  Worker = {w1, w2}
  Main = main
  Heartbeat = heartbeat
  Cli = cli
  Fd = {f1}
  Client = {c1}
  Hostname = {h1}
  Topic = {"a", "b"}
  NULL = NULL
  Granted <- GrantMost
  DNS <- HomeOnly
  Workload <- FreeLoads
  MaxConn = 2
  QUEUE_MAX_SIZE = 2
  MAX_TOPICS = 1
  MAX_SUBSCRIBERS_PER_TOPIC = 2
SYMMETRY Symmetry
INVARIANTS SafeDestruction
CHECK_DEADLOCK FALSE
