\* PUBLISH of one client against SUBSCRIBE of another.
SPECIFICATION Spec
CONSTANTS
  Thread = {w1, w2, main, heartbeat, cli}
  Worker = {w1, w2}
  Main = main
  Heartbeat = heartbeat
  Cli = cli
  Fd = {f1, f2}
  Client = {c1, c2}
  Hostname = {h1}
  Topic = {"a", "b"}
  NULL = NULL
  Granted <- GrantMost
  DNS <- HomeOnly
  Workload <- DeadlockLoads
  MaxConn = 2
  QUEUE_MAX_SIZE = 2
  MAX_TOPICS = 1
  MAX_SUBSCRIBERS_PER_TOPIC = 2
SYMMETRY Symmetry
INVARIANTS PublishNeverDeadlocks
CHECK_DEADLOCK FALSE
