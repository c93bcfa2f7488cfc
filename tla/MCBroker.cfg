\* Event loop, workers, heartbeat and prompt; a queue of one task.
SPECIFICATION Spec
CONSTANTS
  Thread = {w1, w2, main, heartbeat, cli}
  Worker = {w1, w2}
  Main = main
  Heartbeat = heartbeat
  Cli = cli
  Fd = {f1, f2}
  Client = {c1, c2}
  Hostname = {h1}
  Topic = {"a", "b"}
  NULL = NULL
  Granted <- GrantMost
  DNS <- HomeOnly
  Workload <- BrokerLoads
  MaxConn = 3
  QUEUE_MAX_SIZE = 1
  MAX_TOPICS = 2
  MAX_SUBSCRIBERS_PER_TOPIC = 2
SYMMETRY Symmetry
INVARIANTS ClientHasWakeup  RemovesItsOwn RowsNameTheirSender ServesItsOwn NoGhostSubscriptions
  SameOrder ReceiversAuthenticated 
PROPERTIES ImplementsRegistry 
CHECK_DEADLOCK FALSE
